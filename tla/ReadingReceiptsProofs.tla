----------------------- MODULE ReadingReceiptsProofs -----------------------
(***************************************************************************)
(* Proofs about ReadingReceipts, for any set of documents and any bound on *)
(* the sends: IInv is inductive as long as a fallback model, once on, is   *)
(* not switched off, and the safety properties follow from it.             *)
(***************************************************************************)
EXTENDS ReadingReceipts, TLAPS

\* What the proofs assume about the deployment.
FallbackStays == ~FallbackMayBeDisabled

-----------------------------------------------------------------------------
(* Facts about the folder                                                  *)

\* Keys built from a document, a generation and a model.
LEMMA KeyFacts ==
    ASSUME NEW d \in Documents, NEW g \in Generations, NEW m \in Models
    PROVE  /\ Key(d, g, m) \in Keys
           /\ Key(d, g, m).doc = d /\ Key(d, g, m).gen = g /\ Key(d, g, m).model = m
BY DEF Key, Keys

\* _resolve_identity stays within the document and the deployed names.
LEMMA ResolvedKeysFacts ==
    ASSUME TypeOK, NEW d \in Documents, NEW k \in ResolvedKeys(d)
    PROVE  /\ k \in Keys /\ k.doc = d
           /\ k.gen \in GenerationsInUse
           /\ k.model = "fallback" => fallbackOn
           /\ ~Answered(k) => \A j \in LookupKeys(d) : ~Answered(j)
<1> USE DEF TypeOK, Generations, Models
<1>1. \A j \in LookupKeys(d) :
         j \in Keys /\ j.doc = d /\ j.gen \in GenerationsInUse /\ (j.model = "fallback" => fallbackOn)
  BY DEF LookupKeys, Key, Keys, GenerationsInUse
<1>2. Key(d, newest, "main") \in Keys /\ Key(d, newest, "main").doc = d
      /\ Key(d, newest, "main").gen \in GenerationsInUse /\ Key(d, newest, "main").model = "main"
  BY KeyFacts DEF GenerationsInUse, Key
<1>3. CASE \E j \in LookupKeys(d) : Answered(j)
  BY <1>1, <1>3 DEF ResolvedKeys
<1>4. CASE ~ \E j \in LookupKeys(d) : Answered(j)
  BY <1>2, <1>4 DEF ResolvedKeys
<1> QED BY <1>3, <1>4

\* If the looked-up keys hold no answer, no key of the document does.
LEMMA LookupIsComplete ==
    ASSUME TypeOK, UnusedKeysAreBlank, NEW d \in Documents,
           \A j \in LookupKeys(d) : ~Answered(j)
    PROVE  \A k \in Keys : k.doc = d => ~Answered(k)
<1> SUFFICES ASSUME NEW k \in Keys, k.doc = d, Answered(k) PROVE FALSE
  OBVIOUS
<1>1. k.gen \in GenerationsInUse /\ (k.model = "fallback" => fallbackOn)
  BY DEF UnusedKeysAreBlank, BlankKey
<1>2. k.gen \in Generations /\ k.model \in Models /\ k = Key(k.doc, k.gen, k.model)
  BY DEF Keys, Key
<1>3. k \in LookupKeys(d)
  BY <1>1, <1>2 DEF LookupKeys, Models
<1> QED BY <1>3

\* When a new send is permitted, every live request is durably answered.
LEMMA PermittedSend ==
    ASSUME IInv, SendPermitted, NEW r \in Live
    PROVE  Durable(r) /\ \E k \in Keys : k.doc = r.doc /\ Answered(k)
<1>1. PICK k \in Keys : k.doc = r.doc /\ started[k] = r.stamp /\ providerError[k] # r.stamp
  BY DEF IInv, ChargesAreOnRecord
<1>2. r.stamp # 0
  BY DEF IInv, TypeOK, Live, Requests
<1>3. Resolved(k)
  BY <1>1, <1>2 DEF SendPermitted, Unresolved
<1>4. result[k]
  BY <1>1, <1>2, <1>3 DEF Resolved
<1>5. response[k] # "none"
  BY <1>4 DEF IInv, AnswersAreBilled
<1> QED BY <1>1, <1>4, <1>5 DEF Durable, Answered

-----------------------------------------------------------------------------
(* Steps that only move the call and the guard                             *)

\* A step that leaves receipts, configuration, clock and provider alone only
\* has to keep the facts about the call.
LEMMA CallMoves ==
    ASSUME IInv, UNCHANGED <<receipts, config, clock, provider>>,
           guard' \in BOOLEAN,
           call' \in [pc : {"down", "idle"} \cup Steps \cup Ends, key : Keys,
                      allow : BOOLEAN, answer : Answers, saturated : BOOLEAN],
           PayingCall', FinishedCall'
    PROVE  IInv'
BY DEF IInv, TypeOK, receipts, config, provider, UnusedKeysAreBlank, BlankKey, Answered,
       GenerationsInUse, StampsAreIssued, AnswersAreBilled, ChargesAreOnRecord,
       PaidAtMostOnce, OneUncertainRequest, Live, Durable

\* What an unanswered key may be used for once a send is permitted.
LEMMA StartPaying ==
    ASSUME IInv, SendPermitted, NEW k \in Keys, k.gen \in GenerationsInUse,
           k.model = "fallback" => fallbackOn,
           \A j \in Keys : j.doc = k.doc => ~Answered(j),
           UNCHANGED <<receipts, config, clock, provider>>,
           call'.key = k, call'.pc = "clearing"
    PROVE  PayingCall' /\ FinishedCall'
<1>1. \A r \in Live : r.doc # k.doc /\ Durable(r)
  BY PermittedSend
<1>2. \A r \in Live' : r.doc # call'.key.doc /\ Durable(r)'
  BY <1>1 DEF Live, Durable, receipts, provider
<1>3. \A j \in Keys : j.doc = call'.key.doc => ~Answered(j)'
  BY DEF Answered, receipts
<1> QED BY <1>2, <1>3 DEF PayingCall, FinishedCall, Waiting, GenerationsInUse, config

\* The end of a call, and the replay of an answer, carry no paying facts.
LEMMA StopPaying ==
    ASSUME IInv, UNCHANGED <<receipts, config, clock, provider>>,
           call'.pc \in {"down", "idle", "download", "blocked"}
    PROVE  PayingCall' /\ FinishedCall'
BY DEF PayingCall, FinishedCall, Paying, BeforeSend, Waiting, AfterReject

LEMMA ReplayAnswer ==
    ASSUME IInv, UNCHANGED <<receipts, config, clock, provider>>,
           call'.pc \in {"saved", "read"}, response[call'.key] # "none"
    PROVE  PayingCall' /\ FinishedCall'
BY DEF PayingCall, FinishedCall, Paying, BeforeSend, Waiting, AfterReject, receipts

\* The head of _extract_locked.
LEMMA ReplayOrSendKeeps ==
    ASSUME IInv, NEW k \in Keys, k.gen \in GenerationsInUse,
           k.model = "fallback" => fallbackOn,
           ~Answered(k) => \A j \in Keys : j.doc = k.doc => ~Answered(j),
           ReplayOrSend(k),
           UNCHANGED <<receipts, config, clock, provider>>
    PROVE  IInv'
<1>t. TypeOK
  BY DEF IInv
<1>1. guard' \in BOOLEAN
  BY <1>t DEF ReplayOrSend, OpenGuard, TypeOK
<1>2. ASSUME NEW pc \in Steps \cup Ends, GotoKey(k, pc)
      PROVE  /\ call'.pc = pc /\ call'.key = k
             /\ call' \in [pc : {"down", "idle"} \cup Steps \cup Ends, key : Keys,
                           allow : BOOLEAN, answer : Answers, saturated : BOOLEAN]
  BY <1>t, <1>2 DEF GotoKey, TypeOK
<1>3. CASE result[k] /\ GotoKey(k, "read")
  <2>1. response[k] # "none"
    BY <1>3 DEF IInv, AnswersAreBilled
  <2> QED BY <1>1, <1>2, <1>3, <2>1, ReplayAnswer, CallMoves DEF Ends
<1>4. CASE response[k] # "none" /\ GotoKey(k, "saved")
  BY <1>1, <1>2, <1>4, ReplayAnswer, CallMoves DEF Steps
<1>5. CASE GotoKey(k, "blocked")
  BY <1>1, <1>2, <1>5, StopPaying, CallMoves DEF Ends
<1>6. CASE ~Answered(k) /\ SendPermitted /\ GotoKey(k, "clearing")
  BY <1>1, <1>2, <1>6, StartPaying, CallMoves DEF Steps
<1> QED BY <1>3, <1>4, <1>5, <1>6 DEF ReplayOrSend

-----------------------------------------------------------------------------
(* One lemma per kind of step                                              *)

LEMMA InitIInv == Init => IInv
<1> SUFFICES ASSUME Init PROVE IInv
  OBVIOUS
<1>1. TypeOK
  <2>1. call \in [pc : {"down", "idle"} \cup Steps \cup Ends, key : Keys,
                 allow : BOOLEAN, answer : Answers, saturated : BOOLEAN]
    BY DEF Init, Answers
  <2>2. 0 \in 0..MaxSends
    BY ReceiptsAssumption
  <2> QED BY <2>1, <2>2 DEF Init, TypeOK
<1>2. \A k \in Keys : started[k] = 0 /\ providerError[k] = 0 /\ response[k] = "none" /\ ~result[k]
  BY DEF Init
<1>3. UnusedKeysAreBlank /\ AnswersAreBilled /\ StampsAreIssued
  BY <1>2 DEF Init, UnusedKeysAreBlank, BlankKey, Answered, AnswersAreBilled, StampsAreIssued, Live
<1>4. Live = {} /\ inflight \cap charged = {} /\ call.pc = "down"
  BY DEF Init, Live
<1>5. ChargesAreOnRecord /\ PaidAtMostOnce /\ OneUncertainRequest
  BY <1>4 DEF ChargesAreOnRecord, PaidAtMostOnce, OneUncertainRequest
<1>6. PayingCall /\ FinishedCall
  BY <1>4 DEF PayingCall, FinishedCall, Paying, BeforeSend, Waiting, AfterReject
<1> QED BY <1>1, <1>3, <1>4, <1>5, <1>6 DEF IInv

\* recover_before_download and the head of extract.
LEMMA BeginKeeps ==
    ASSUME IInv, NEW d \in Documents, BeginNew(d) \/ BeginRecovery(d)
    PROVE  IInv'
<1>t. TypeOK /\ UnusedKeysAreBlank
  BY DEF IInv
<1>1. UNCHANGED <<receipts, config, clock, provider>>
  BY DEF BeginNew, BeginRecovery
<1>2. CASE BeginNew(d)
  <2>1. Key(d, newest, "main") \in Keys
    BY <1>t, KeyFacts DEF TypeOK, Models
  <2>2. /\ call'.pc = "download" /\ guard' \in BOOLEAN
        /\ call' \in [pc : {"down", "idle"} \cup Steps \cup Ends, key : Keys,
                      allow : BOOLEAN, answer : Answers, saturated : BOOLEAN]
    BY <1>t, <1>2, <2>1 DEF BeginNew, TypeOK, Steps
  <2> QED BY <1>1, <2>2, StopPaying, CallMoves
<1>3. CASE BeginRecovery(d)
  <2>1. PICK k \in ResolvedKeys(d), pc \in {"read", "saved", "blocked", "download"} :
          /\ call' = [call EXCEPT !.pc = pc, !.allow = FALSE, !.key = k]
          /\ guard' \in {TRUE, guard}
          /\ pc = "read" => result[k]
          /\ pc = "saved" => response[k] # "none"
    BY <1>3 DEF BeginRecovery, OpenGuard
  <2>2. k \in Keys
    BY <1>t, ResolvedKeysFacts
  <2>3. /\ call'.pc = pc /\ call'.key = k /\ guard' \in BOOLEAN
        /\ call' \in [pc : {"down", "idle"} \cup Steps \cup Ends, key : Keys,
                      allow : BOOLEAN, answer : Answers, saturated : BOOLEAN]
    BY <1>t, <2>1, <2>2 DEF TypeOK, Steps, Ends
  <2>4. CASE pc \in {"read", "saved"}
    <3>1. response[k] # "none"
      BY <2>1, <2>2, <2>4 DEF IInv, AnswersAreBilled
    <3> QED BY <1>1, <2>3, <2>4, <3>1, ReplayAnswer, CallMoves
  <2>5. CASE pc \in {"blocked", "download"}
    BY <1>1, <2>3, <2>5, StopPaying, CallMoves
  <2> QED BY <2>1, <2>4, <2>5
<1> QED BY <1>2, <1>3

LEMMA ExtractKeeps == IInv /\ Extract => IInv'
<1> SUFFICES ASSUME IInv, Extract PROVE IInv'
  OBVIOUS
<1>t. TypeOK /\ UnusedKeysAreBlank /\ call.key.doc \in Documents
  BY DEF IInv, TypeOK, Keys
<1>1. PICK k \in ResolvedKeys(call.key.doc) : ReplayOrSend(k)
  BY DEF Extract
<1>2. /\ k \in Keys /\ k.doc = call.key.doc /\ k.gen \in GenerationsInUse
      /\ k.model = "fallback" => fallbackOn
      /\ ~Answered(k) => \A j \in LookupKeys(call.key.doc) : ~Answered(j)
  BY <1>t, ResolvedKeysFacts
<1>3. ~Answered(k) => \A j \in Keys : j.doc = k.doc => ~Answered(j)
  BY <1>t, <1>2, LookupIsComplete
<1> QED BY <1>1, <1>2, <1>3, ReplayOrSendKeeps DEF Extract

LEMMA FallBackKeeps == IInv /\ FallBack => IInv'
<1> SUFFICES ASSUME IInv, FallBack PROVE IInv'
  OBVIOUS
<1>t. TypeOK /\ call.key.doc \in Documents /\ newest \in Generations
  BY DEF IInv, TypeOK, Keys
<1> DEFINE k == Key(call.key.doc, newest, "fallback")
<1>1. k \in Keys /\ k.doc = call.key.doc /\ k.gen = newest /\ k.model = "fallback"
  BY <1>t, KeyFacts DEF Models
<1>2. k.gen \in GenerationsInUse
  BY <1>t, <1>1 DEF GenerationsInUse, Generations
<1>3. \A j \in Keys : j.doc = k.doc => ~Answered(j)
  BY <1>1 DEF IInv, PayingCall, FallBack, At, Paying, AfterReject
<1> HIDE DEF k
<1>4. ReplayOrSend(k) /\ fallbackOn
  BY DEF FallBack, MayFallBack, k
<1> QED BY <1>1, <1>2, <1>3, <1>4, ReplayOrSendKeeps DEF FallBack

\* Steps that end a call, and the pause between two receipts.
LEMMA EndingKeeps ==
    ASSUME IInv,
           \/ FailBeforeStarted \/ LoseReply \/ FailWriteResponse \/ FailParse
           \/ FailWriteProviderError \/ Return \/ Crash
    PROVE  IInv'
<1>t. TypeOK
  BY DEF IInv
<1>1. /\ UNCHANGED <<receipts, config, clock, provider>>
      /\ guard' \in {TRUE, guard}
      /\ Goto("blocked") \/ Finish("idle") \/ Finish("down")
  BY DEF FailBeforeStarted, LoseReply, FailWriteResponse, FailParse,
         FailWriteProviderError, Return, Crash, FailAndGuard, OpenGuard
<1>2. /\ guard' \in BOOLEAN
      /\ call'.pc \in {"down", "idle", "blocked"}
      /\ call' \in [pc : {"down", "idle"} \cup Steps \cup Ends, key : Keys,
                    allow : BOOLEAN, answer : Answers, saturated : BOOLEAN]
  <2>1. CASE Goto("blocked")
    BY <1>t, <1>1, <2>1 DEF TypeOK, Goto, Ends
  <2>2. CASE Finish("idle") \/ Finish("down")
    <3>1. Key(call.key.doc, "legacy", "main") \in Keys
      BY <1>t DEF TypeOK, Keys, Key, Generations, Models
    <3> QED BY <1>t, <1>1, <2>2, <3>1 DEF TypeOK, Finish, Answers
  <2> QED BY <1>1, <2>1, <2>2
<1> QED BY <1>1, <1>2, StopPaying, CallMoves

LEMMA MovingKeeps ==
    ASSUME IInv, Cleared \/ Refuse \/ \E a \in Answers : ReceiveAnswer(a)
    PROVE  IInv'
<1>t. TypeOK
  BY DEF IInv
<1>1. UNCHANGED <<receipts, guard, config, clock, provider>>
  BY DEF Cleared, Refuse, ReceiveAnswer
<1>2. /\ call'.key = call.key
      /\ call' \in [pc : {"down", "idle"} \cup Steps \cup Ends, key : Keys,
                    allow : BOOLEAN, answer : Answers, saturated : BOOLEAN]
  BY <1>t DEF TypeOK, Cleared, Refuse, ReceiveAnswer, Goto, Ends, Steps
<1>3. \/ call.pc = "clearing" /\ call'.pc = "pacing"
      \/ call.pc = "rejection" /\ call'.pc = "refused"
      \/ call.pc = "sent" /\ call'.pc = "answered" /\ Request \in charged
  BY <1>t DEF TypeOK, Cleared, Refuse, ReceiveAnswer, Goto, At
<1>4. PayingCall /\ guard' \in BOOLEAN
  BY <1>t, <1>1 DEF IInv, TypeOK
<1>5. PayingCall' /\ FinishedCall'
  BY <1>1, <1>2, <1>3, <1>4 DEF PayingCall, FinishedCall, Paying, BeforeSend, Waiting,
     AfterReject, Request, Live, Durable, Answered, GenerationsInUse, receipts, config, provider
<1> QED BY <1>1, <1>2, <1>4, <1>5, CallMoves

-----------------------------------------------------------------------------
(* Steps that change a receipt                                             *)

LEMMA ClearKeeps == IInv /\ ClearProviderError => IInv'
<1> SUFFICES ASSUME IInv, ClearProviderError PROVE IInv'
  OBVIOUS
<1> USE DEF IInv
<1>1. PICK k \in DocumentKeys(call.key.doc, call.key.model) :
        providerError' = [providerError EXCEPT ![k] = 0]
  BY DEF ClearProviderError
<1>2. UNCHANGED <<started, response, result, guard, config, call, clock, provider>>
  BY DEF ClearProviderError
<1>3. TypeOK'
  <2>1. providerError' \in [Keys -> 0..MaxSends]
    <3>1. 0 \in 0..MaxSends
      BY ReceiptsAssumption
    <3> QED BY <1>1, <3>1 DEF TypeOK
  <2> QED BY <1>2, <2>1 DEF TypeOK, config, provider
<1>4. \A j \in Keys : providerError'[j] \in {0, providerError[j]}
  BY <1>1 DEF TypeOK
<1>5. UnusedKeysAreBlank' /\ StampsAreIssued' /\ AnswersAreBilled'
  BY <1>2, <1>4, ReceiptsAssumption DEF UnusedKeysAreBlank, BlankKey, Answered, GenerationsInUse, config,
     provider, StampsAreIssued, AnswersAreBilled, Live, TypeOK
<1>6. ChargesAreOnRecord' /\ PaidAtMostOnce' /\ OneUncertainRequest' /\ (inflight \cap charged = {})'
  BY <1>2, <1>4 DEF ChargesAreOnRecord, PaidAtMostOnce, OneUncertainRequest,
     Live, Durable, provider, TypeOK, Requests
<1>7. PayingCall' /\ FinishedCall'
  BY <1>2, <1>4 DEF ClearProviderError, At, PayingCall, FinishedCall, Paying, BeforeSend,
     Waiting, AfterReject, Request, Live, Durable, Answered, GenerationsInUse, config, provider
<1> QED BY <1>2, <1>3, <1>5, <1>6, <1>7

LEMMA WriteStartedKeeps == IInv /\ WriteStarted => IInv'
<1> SUFFICES ASSUME IInv, WriteStarted PROVE IInv'
  OBVIOUS
<1> USE DEF IInv
<1> DEFINE k == call.key
<1>1. /\ k \in Keys /\ clock \in Nat /\ clock < MaxSends /\ clock' = clock + 1
      /\ started' = [started EXCEPT ![k] = clock + 1]
      /\ UNCHANGED <<providerError, response, result, config, provider>>
      /\ call.pc = "pacing"
  BY ReceiptsAssumption DEF WriteStarted, TypeOK, At
<1>2. /\ \A j \in Keys : j.doc = k.doc => ~Answered(j)
      /\ \A r \in Live : r.doc # k.doc /\ Durable(r)
      /\ k.gen \in GenerationsInUse /\ (k.model = "fallback" => fallbackOn)
  BY <1>1 DEF PayingCall, Paying, BeforeSend, Waiting
<1>3. TypeOK'
  <2>1. started' \in [Keys -> 0..MaxSends] /\ clock' \in 0..MaxSends
    BY <1>1, ReceiptsAssumption DEF TypeOK
  <2>2. guard' \in BOOLEAN
    BY DEF TypeOK, WriteStarted, FailAndGuard, OpenGuard
  <2>3. call' \in [pc : {"down", "idle"} \cup Steps \cup Ends, key : Keys,
                   allow : BOOLEAN, answer : Answers, saturated : BOOLEAN]
    BY DEF TypeOK, WriteStarted, FailAndGuard, Goto, Steps, Ends
  <2> QED BY <1>1, <2>1, <2>2, <2>3 DEF TypeOK, config, provider
<1>4. \A j \in Keys : started'[j] = IF j = k THEN clock + 1 ELSE started[j]
  BY <1>1 DEF TypeOK
<1>5. \A j \in Keys : started[j] \in Nat /\ started[j] <= clock /\ providerError[j] <= clock
  BY ReceiptsAssumption DEF TypeOK, StampsAreIssued
<1>6. UnusedKeysAreBlank' /\ AnswersAreBilled'
  BY <1>1, <1>2, <1>4 DEF UnusedKeysAreBlank, BlankKey, Answered, GenerationsInUse, config,
     provider, AnswersAreBilled
<1>7. StampsAreIssued'
  <2>1. \A r \in Live' : r.stamp <= clock'
    BY <1>1 DEF StampsAreIssued, Live, provider, TypeOK, Requests
  <2>2. \A j \in Keys : started'[j] <= clock' /\ providerError'[j] <= clock'
    BY <1>1, <1>4, <1>5 DEF TypeOK
  <2>3. \A j, i \in Keys : started'[j] = started'[i] /\ started'[j] # 0 => j = i
    BY <1>1, <1>4, <1>5 DEF StampsAreIssued
  <2> QED BY <2>1, <2>2, <2>3 DEF StampsAreIssued
<1>8. \A r \in Live : Durable(r) => Durable(r)'
  BY <1>1, <1>2, <1>4 DEF Durable, Live
<1>9. ChargesAreOnRecord' /\ PaidAtMostOnce' /\ OneUncertainRequest' /\ (inflight \cap charged = {})'
  BY <1>1, <1>2, <1>4, <1>8 DEF ChargesAreOnRecord, PaidAtMostOnce, OneUncertainRequest,
     Live, provider, TypeOK
<1>10. PayingCall' /\ FinishedCall'
  <2>1. call'.pc \in {"sending", "blocked"} /\ call'.key = k
    BY DEF TypeOK, WriteStarted, FailAndGuard, Goto
  <2>2. started'[k] = clock' /\ providerError'[k] # clock' /\ clock' # 0
    BY <1>1, <1>4, <1>5
  <2>3. \A r \in Live' : r.doc # k.doc /\ Durable(r)'
    BY <1>1, <1>2, <1>8 DEF Live, provider
  <2>4. \A j \in Keys : j.doc = k.doc => ~Answered(j)'
    BY <1>1, <1>2 DEF Answered
  <2>5. k.gen \in GenerationsInUse' /\ (k.model = "fallback" => fallbackOn')
    BY <1>1, <1>2 DEF GenerationsInUse, config
  <2> HIDE DEF k
  <2> QED BY <2>1, <2>2, <2>3, <2>4, <2>5 DEF PayingCall, FinishedCall, Paying,
             BeforeSend, Waiting, AfterReject
<1> QED BY <1>3, <1>6, <1>7, <1>9, <1>10

LEMMA SendKeeps == IInv /\ Send => IInv'
<1> SUFFICES ASSUME IInv, Send PROVE IInv'
  OBVIOUS
<1> USE DEF IInv
<1> DEFINE k == call.key
<1>1. /\ k \in Keys /\ clock \in 1..MaxSends /\ call.pc = "sending"
      /\ inflight' = inflight \cup {Request} /\ Goto("sent")
      /\ UNCHANGED <<receipts, guard, config, clock, charged>>
      /\ started[k] = clock /\ providerError[k] # clock
      /\ \A r \in Live : r.doc # k.doc /\ Durable(r)
  BY DEF Send, At, TypeOK, PayingCall, Paying, BeforeSend, Waiting
<1>2. Request \in Requests /\ Request.doc = k.doc /\ Request.stamp = clock
  BY <1>1 DEF Request, Requests, Keys
<1>3. /\ call' \in [pc : {"down", "idle"} \cup Steps \cup Ends, key : Keys,
                    allow : BOOLEAN, answer : Answers, saturated : BOOLEAN]
      /\ call'.pc = "sent" /\ call'.key = k
  BY <1>1 DEF TypeOK, Goto, Steps
<1>4. TypeOK'
  BY <1>1, <1>2, <1>3 DEF TypeOK, receipts, config
<1>5. Live' = Live \cup {Request} /\ (inflight \cap charged = {})'
  BY <1>1, <1>2 DEF Live
<1>6. UnusedKeysAreBlank' /\ AnswersAreBilled'
  BY <1>1 DEF UnusedKeysAreBlank, BlankKey, Answered, GenerationsInUse, AnswersAreBilled,
     receipts, config
<1>7. StampsAreIssued'
  BY <1>1, <1>2, <1>5 DEF StampsAreIssued, receipts, TypeOK
<1>8. ChargesAreOnRecord' /\ PaidAtMostOnce' /\ OneUncertainRequest'
  <2>1. \A r \in Live : Durable(r)'
    BY <1>1 DEF Durable, receipts
  <2> QED BY <1>1, <1>2, <1>5, <2>1 DEF ChargesAreOnRecord, PaidAtMostOnce, OneUncertainRequest, receipts
<1>9. PayingCall' /\ FinishedCall'
  <2>1. /\ k.gen \in GenerationsInUse /\ (k.model = "fallback" => fallbackOn)
        /\ \A j \in Keys : j.doc = k.doc => ~Answered(j)
        /\ clock # 0
    BY <1>1 DEF PayingCall, Paying, BeforeSend
  <2>2. \A j \in Keys : j.doc = k.doc => ~Answered(j)'
    BY <1>1, <2>1 DEF Answered, receipts
  <2>3. \A r \in Live' : r = Request' \/ (r.doc # k.doc /\ Durable(r)')
    BY <1>1, <1>3, <1>5 DEF Durable, receipts, Request
  <2> HIDE DEF k
  <2> QED BY <1>1, <1>3, <2>1, <2>2, <2>3 DEF PayingCall, FinishedCall, Paying, BeforeSend,
          Waiting, AfterReject, GenerationsInUse, receipts, config
<1> QED BY <1>4, <1>5, <1>6, <1>7, <1>8, <1>9

LEMMA ChargeKeeps == ASSUME IInv, NEW r \in inflight, ProviderCharges(r) PROVE IInv'
<1> USE DEF IInv
<1>1. /\ UNCHANGED <<receipts, guard, config, call, clock>>
      /\ inflight' = inflight \ {r} /\ charged' = charged \cup {r}
  BY DEF ProviderCharges
<1>2. Live' = Live /\ (inflight \cap charged = {})' /\ charged \subseteq charged'
  BY <1>1 DEF Live
<1>3. TypeOK'
  BY <1>1 DEF TypeOK, receipts, config
<1>4. UnusedKeysAreBlank' /\ AnswersAreBilled' /\ StampsAreIssued'
  BY <1>1, <1>2 DEF UnusedKeysAreBlank, BlankKey, Answered, GenerationsInUse, AnswersAreBilled,
     receipts, config, StampsAreIssued
<1>5. ChargesAreOnRecord' /\ PaidAtMostOnce' /\ OneUncertainRequest'
  BY <1>1, <1>2 DEF ChargesAreOnRecord, PaidAtMostOnce, OneUncertainRequest, Durable, receipts
<1>6. PayingCall' /\ FinishedCall'
  BY <1>1, <1>2 DEF PayingCall, FinishedCall, Request, Durable, Answered, GenerationsInUse,
     receipts, config
<1> QED BY <1>2, <1>3, <1>4, <1>5, <1>6

LEMMA ReceiveRejectionKeeps == ASSUME IInv, NEW s \in BOOLEAN, ReceiveRejection(s) PROVE IInv'
<1> USE DEF IInv
<1> DEFINE k == call.key
<1>1. /\ call.pc = "sent" /\ Request \in inflight /\ inflight' = inflight \ {Request}
      /\ call' = [call EXCEPT !.pc = "rejected", !.saturated = s]
      /\ UNCHANGED <<receipts, guard, config, clock, charged>>
  BY DEF ReceiveRejection, At
<1>2. /\ call' \in [pc : {"down", "idle"} \cup Steps \cup Ends, key : Keys,
                    allow : BOOLEAN, answer : Answers, saturated : BOOLEAN]
      /\ call'.pc = "rejected" /\ call'.key = k
  BY <1>1 DEF TypeOK, Steps
<1>3. TypeOK'
  BY <1>1, <1>2 DEF TypeOK, receipts, config
<1>4. Live' = Live \ {Request} /\ (inflight \cap charged = {})'
  BY <1>1 DEF Live
<1>5. UnusedKeysAreBlank' /\ AnswersAreBilled' /\ StampsAreIssued'
  BY <1>1, <1>4 DEF UnusedKeysAreBlank, BlankKey, Answered, GenerationsInUse, AnswersAreBilled,
     receipts, config, StampsAreIssued
<1>6. ChargesAreOnRecord' /\ PaidAtMostOnce' /\ OneUncertainRequest'
  BY <1>1, <1>4 DEF ChargesAreOnRecord, PaidAtMostOnce, OneUncertainRequest, Durable, receipts
<1>7. PayingCall' /\ FinishedCall'
  <2>1. /\ k.gen \in GenerationsInUse /\ (k.model = "fallback" => fallbackOn)
        /\ \A j \in Keys : j.doc = k.doc => ~Answered(j)
        /\ clock # 0 /\ started[k] = clock /\ providerError[k] # clock
        /\ \A r \in Live : r = Request \/ (r.doc # k.doc /\ Durable(r))
    BY <1>1 DEF PayingCall, Paying, Waiting
  <2>2. \A j \in Keys : j.doc = k.doc => ~Answered(j)'
    BY <1>1, <2>1 DEF Answered, receipts
  <2>3. \A r \in Live' : r.doc # k.doc /\ Durable(r)'
    BY <1>1, <1>4, <2>1 DEF Durable, receipts
  <2> HIDE DEF k
  <2> QED BY <1>1, <1>2, <2>1, <2>2, <2>3 DEF PayingCall, FinishedCall, Paying, BeforeSend,
          Waiting, AfterReject, GenerationsInUse, receipts, config
<1> QED BY <1>3, <1>4, <1>5, <1>6, <1>7

LEMMA WriteResponseKeeps == IInv /\ WriteResponse => IInv'
<1> SUFFICES ASSUME IInv, WriteResponse PROVE IInv'
  OBVIOUS
<1> USE DEF IInv
<1> DEFINE k == call.key
<1>1. /\ call.pc = "answered" /\ k \in Keys /\ call.answer \in Answers
      /\ response' = [response EXCEPT ![k] = call.answer]
      /\ UNCHANGED <<started, providerError, result, config, clock, provider>>
  BY DEF WriteResponse, At, TypeOK
<1>2. /\ call' \in [pc : {"down", "idle"} \cup Steps \cup Ends, key : Keys,
                    allow : BOOLEAN, answer : Answers, saturated : BOOLEAN]
      /\ call'.pc \in {"saved", "blocked"} /\ call'.key = k
      /\ guard' \in BOOLEAN
  BY DEF WriteResponse, FailAndGuard, OpenGuard, Goto, TypeOK, Steps, Ends
<1>3. \A j \in Keys : response'[j] = IF j = k THEN call.answer ELSE response[j]
  BY <1>1 DEF TypeOK
<1>4. TypeOK'
  BY <1>1, <1>2 DEF TypeOK, config, provider
<1>5. /\ k.gen \in GenerationsInUse /\ (k.model = "fallback" => fallbackOn)
      /\ ~Answered(k) /\ Request \in charged /\ started[k] = clock
  BY <1>1 DEF PayingCall, Paying, Waiting
<1>6. call.answer # "none"
  BY <1>1 DEF Answers
<1>7. UnusedKeysAreBlank' /\ StampsAreIssued'
  BY <1>1, <1>3, <1>5 DEF UnusedKeysAreBlank, BlankKey, Answered, GenerationsInUse, config,
     provider, StampsAreIssued, Live
<1>8. AnswersAreBilled'
  BY <1>1, <1>3, <1>5 DEF AnswersAreBilled, Answered, Request, provider
<1>9. \A r \in Live : Durable(r) => Durable(r)'
  BY <1>1, <1>3, <1>6 DEF Durable
<1>10. ChargesAreOnRecord' /\ PaidAtMostOnce' /\ OneUncertainRequest' /\ (inflight \cap charged = {})'
  BY <1>1, <1>9 DEF ChargesAreOnRecord, PaidAtMostOnce, OneUncertainRequest, Live, provider
<1>11. PayingCall' /\ FinishedCall'
  BY <1>2, <1>3, <1>1, <1>6 DEF PayingCall, FinishedCall, Paying, BeforeSend, Waiting, AfterReject
<1> QED BY <1>4, <1>7, <1>8, <1>10, <1>11

LEMMA ParseKeeps == IInv /\ Parse => IInv'
<1> SUFFICES ASSUME IInv, Parse PROVE IInv'
  OBVIOUS
<1> USE DEF IInv
<1> DEFINE k == call.key
<1>1. /\ call.pc = "saved" /\ k \in Keys /\ response[k] = "usable"
      /\ result' = [result EXCEPT ![k] = TRUE]
      /\ UNCHANGED <<started, providerError, response, config, clock, provider>>
  BY DEF Parse, At, TypeOK
<1>2. /\ call' \in [pc : {"down", "idle"} \cup Steps \cup Ends, key : Keys,
                    allow : BOOLEAN, answer : Answers, saturated : BOOLEAN]
      /\ call'.pc \in {"read", "blocked"} /\ call'.key = k
      /\ guard' \in BOOLEAN
  BY DEF Parse, FailAndGuard, OpenGuard, Goto, TypeOK, Ends
<1>3. \A j \in Keys : result'[j] = IF j = k THEN TRUE ELSE result[j]
  BY <1>1 DEF TypeOK
<1>4. TypeOK'
  BY <1>1, <1>2 DEF TypeOK, config, provider
<1>5. UnusedKeysAreBlank' /\ StampsAreIssued' /\ AnswersAreBilled'
  BY <1>1, <1>3 DEF UnusedKeysAreBlank, BlankKey, Answered, GenerationsInUse, config,
     provider, StampsAreIssued, Live, AnswersAreBilled
<1>6. ChargesAreOnRecord' /\ PaidAtMostOnce' /\ OneUncertainRequest' /\ (inflight \cap charged = {})'
  BY <1>1 DEF ChargesAreOnRecord, PaidAtMostOnce, OneUncertainRequest, Live, Durable, provider
<1>7. PayingCall' /\ FinishedCall'
  BY <1>1, <1>2 DEF PayingCall, FinishedCall, Paying, BeforeSend, Waiting, AfterReject
<1> QED BY <1>4, <1>5, <1>6, <1>7

\* The two halves of an HTTP-error receipt: only the rejected attempt, which
\* is not live, is excused by it.
LEMMA ProviderErrorKeeps == IInv /\ (WriteProviderError \/ RemoveStarted) => IInv'
<1> SUFFICES ASSUME IInv, WriteProviderError \/ RemoveStarted PROVE IInv'
  OBVIOUS
<1> USE DEF IInv
<1> DEFINE k == call.key
<1>1. /\ k \in Keys /\ call.pc \in {"rejected", "unstarting"}
      /\ UNCHANGED <<response, result, config, clock, provider>>
  BY DEF WriteProviderError, RemoveStarted, At, TypeOK
<1>2. /\ call' \in [pc : {"down", "idle"} \cup Steps \cup Ends, key : Keys,
                    allow : BOOLEAN, answer : Answers, saturated : BOOLEAN]
      /\ call'.pc \in {"unstarting", "rejection", "blocked"} /\ call'.key = k
      /\ guard' \in BOOLEAN
  BY DEF WriteProviderError, RemoveStarted, FailAndGuard, OpenGuard, Goto, TypeOK, Steps, Ends
<1>3. \A j \in Keys :
        /\ started'[j] \in {started[j], IF j = k THEN 0 ELSE started[j]}
        /\ providerError'[j] \in {providerError[j], IF j = k THEN started[j] ELSE providerError[j]}
  BY <1>1 DEF WriteProviderError, RemoveStarted, TypeOK
<1>4. TypeOK'
  <2>1. started' \in [Keys -> 0..MaxSends] /\ providerError' \in [Keys -> 0..MaxSends]
    BY <1>1, ReceiptsAssumption DEF WriteProviderError, RemoveStarted, TypeOK
  <2> QED BY <1>1, <1>2, <2>1 DEF TypeOK, config, provider
<1>5. /\ k.gen \in GenerationsInUse /\ (k.model = "fallback" => fallbackOn)
      /\ \A j \in Keys : j.doc = k.doc => ~Answered(j)
      /\ \A r \in Live : r.doc # k.doc /\ Durable(r)
  BY <1>1 DEF PayingCall, Paying, AfterReject, Waiting
<1>6. \A j \in Keys : started[j] \in Nat /\ started[j] <= clock /\ providerError[j] <= clock
  BY ReceiptsAssumption DEF TypeOK, StampsAreIssued
<1>7. UnusedKeysAreBlank' /\ AnswersAreBilled'
  BY <1>1, <1>3, <1>5 DEF UnusedKeysAreBlank, BlankKey, Answered, GenerationsInUse, config,
     provider, AnswersAreBilled
<1>8. StampsAreIssued'
  BY <1>1, <1>3, <1>6, ReceiptsAssumption DEF StampsAreIssued, Live, provider, TypeOK
<1>9. \A r \in Live : Durable(r)'
  BY <1>1, <1>3, <1>5 DEF Durable
<1>10. ChargesAreOnRecord' /\ PaidAtMostOnce' /\ OneUncertainRequest' /\ (inflight \cap charged = {})'
  BY <1>1, <1>3, <1>5, <1>9 DEF ChargesAreOnRecord, PaidAtMostOnce, OneUncertainRequest, Live, provider
<1>11. PayingCall' /\ FinishedCall'
  <2>1. \A j \in Keys : j.doc = k.doc => ~Answered(j)'
    BY <1>1, <1>5 DEF Answered
  <2> HIDE DEF k
  <2> QED BY <1>1, <1>2, <1>5, <1>9, <2>1 DEF PayingCall, FinishedCall, Paying, BeforeSend,
          Waiting, AfterReject, GenerationsInUse, config, provider, Live
<1> QED BY <1>4, <1>7, <1>8, <1>10, <1>11

-----------------------------------------------------------------------------
(* The operator                                                            *)

\* A restart that does not switch the fallback model off only frees keys.
LEMMA OperatorKeeps == ASSUME FallbackStays, IInv, Restart \/ RemoveGuard PROVE IInv'
<1> USE DEF IInv
<1>1. CASE RemoveGuard
  <2>1. UNCHANGED <<receipts, config, call, clock, provider>> /\ guard' = FALSE
    BY <1>1 DEF RemoveGuard
  <2>2. PayingCall' /\ FinishedCall'
    BY <2>1 DEF PayingCall, FinishedCall, Request, Live, Durable, Answered, GenerationsInUse,
       receipts, config, provider
  <2> QED BY <2>1, <2>2, CallMoves DEF TypeOK
<1>2. CASE Restart
  <2>1. /\ UNCHANGED <<receipts, guard, clock, provider>> /\ Goto("idle")
        /\ newest' \in {newest, "quality"} /\ fallbackOn' \in {fallbackOn, TRUE}
    BY <1>2 DEF Restart, FallbackStays
  <2>2. GenerationsInUse \subseteq GenerationsInUse' /\ (fallbackOn => fallbackOn')
    <3>1. GenerationsInUse \subseteq GenerationsInUse'
      BY <2>1 DEF GenerationsInUse, Generations
    <3>2. fallbackOn => fallbackOn'
      BY <2>1
    <3> QED BY <3>1, <3>2
  <2>3. /\ call' \in [pc : {"down", "idle"} \cup Steps \cup Ends, key : Keys,
                      allow : BOOLEAN, answer : Answers, saturated : BOOLEAN]
        /\ call'.pc = "idle"
    BY <2>1 DEF TypeOK, Goto
  <2>4. TypeOK'
    BY <2>1, <2>3 DEF TypeOK, receipts, provider, Generations
  <2>5. UnusedKeysAreBlank'
    BY <2>1, <2>2 DEF UnusedKeysAreBlank, BlankKey, Answered, receipts
  <2>6. StampsAreIssued' /\ AnswersAreBilled' /\ ChargesAreOnRecord' /\ PaidAtMostOnce'
        /\ OneUncertainRequest' /\ (inflight \cap charged = {})'
    BY <2>1 DEF StampsAreIssued, AnswersAreBilled, ChargesAreOnRecord, PaidAtMostOnce,
       OneUncertainRequest, Live, Durable, receipts, provider
  <2>7. PayingCall' /\ FinishedCall'
    BY <2>3 DEF PayingCall, FinishedCall, Paying, BeforeSend, Waiting, AfterReject
  <2> QED BY <2>4, <2>5, <2>6, <2>7
<1> QED BY <1>1, <1>2

-----------------------------------------------------------------------------
(* The theorems                                                            *)

\* Every step of the specification keeps the inductive invariant.
LEMMA NextKeeps == ASSUME FallbackStays, IInv, [Next]_vars PROVE IInv'
<1>1. CASE UNCHANGED vars
  <2>1. UNCHANGED <<receipts, guard, config, call, clock, provider>>
    BY <1>1 DEF vars
  <2>2. PayingCall' /\ FinishedCall'
    BY <2>1 DEF IInv, PayingCall, FinishedCall, Request, Live, Durable, Answered,
       GenerationsInUse, receipts, config, provider
  <2> QED BY <2>1, <2>2, CallMoves DEF IInv, TypeOK
<1>2. CASE \E d \in Documents : BeginNew(d) \/ BeginRecovery(d)
  BY <1>2, BeginKeeps
<1>3. CASE CallStep
  BY <1>3, ExtractKeeps, FallBackKeeps, EndingKeeps, MovingKeeps, ClearKeeps, WriteStartedKeeps,
     SendKeeps, ReceiveRejectionKeeps, WriteResponseKeeps, ParseKeeps, ProviderErrorKeeps
     DEF CallStep
<1>4. CASE \E r \in inflight : ProviderCharges(r)
  BY <1>4, ChargeKeeps
<1>5. CASE Return \/ Crash
  BY <1>5, EndingKeeps
<1>6. CASE Restart \/ RemoveGuard
  BY <1>6, OperatorKeeps
<1> QED BY <1>1, <1>2, <1>3, <1>4, <1>5, <1>6 DEF Next

\* The inductive invariant holds as long as the fallback model stays on once it is on.
THEOREM Invariance == FallbackStays => (Spec => []IInv)
<1> SUFFICES ASSUME FallbackStays PROVE Spec => []IInv
  OBVIOUS
<1>1. IInv /\ [Next]_vars => IInv'
  BY NextKeeps
<1> QED BY <1>1, InitIInv, PTL DEF Spec

\* Every variable always holds a value of its kind.
THEOREM TypeCorrectness == FallbackStays => (Spec => []TypeOK)
<1>1. IInv => TypeOK
  BY DEF IInv
<1> QED BY <1>1, Invariance, PTL

\* No document is paid twice, over all its generations and models.
THEOREM AtMostOncePayment == FallbackStays => (Spec => []PaidAtMostOnce)
<1>1. IInv => PaidAtMostOnce
  BY DEF IInv
<1> QED BY <1>1, Invariance, PTL

\* In the whole folder at most one request has an unknown outcome.
THEOREM BoundedUncertainty == FallbackStays => (Spec => []OneUncertainRequest)
<1>1. IInv => OneUncertainRequest
  BY DEF IInv
<1> QED BY <1>1, Invariance, PTL

\* Every request that may be billed has a started receipt that says so.
THEOREM ChargesOnRecord == FallbackStays => (Spec => []ChargesAreOnRecord)
<1>1. IInv => ChargesAreOnRecord
  BY DEF IInv
<1> QED BY <1>1, Invariance, PTL

\* A ProviderRejectedError means that nothing of the document can be billed.
THEOREM RefusalsAreFree == FallbackStays => (Spec => []RefusalIsFree)
<1>1. IInv => RefusalIsFree
  BY DEF IInv, FinishedCall, RefusalIsFree, At
<1> QED BY <1>1, Invariance, PTL

\* Behind every reading there is a paid and durable answer of its document.
THEOREM ReadingsArePaidFor == FallbackStays => (Spec => []ReadingIsPaidFor)
<1>1. IInv => ReadingIsPaidFor
  <2> SUFFICES ASSUME IInv, At("read") PROVE \E r \in charged : r.doc = call.key.doc /\ Durable(r)
    BY DEF ReadingIsPaidFor
  <2> DEFINE r == [doc |-> call.key.doc, stamp |-> started[call.key]]
  <2>1. call.key \in Keys /\ response[call.key] # "none"
    BY DEF IInv, TypeOK, FinishedCall, At
  <2>2. r \in charged /\ Durable(r)
    BY <2>1 DEF IInv, AnswersAreBilled, Durable
  <2> QED BY <2>2
<1> QED BY <1>1, Invariance, PTL

\* No step replaces or removes a durable answer or its started receipt.
THEOREM AnswersKept == FallbackStays => (Spec => AnswersAreKept)
<1> SUFFICES ASSUME FallbackStays PROVE Spec => AnswersAreKept
  OBVIOUS
<1> DEFINE Kept == \A k \in Keys : response[k] # "none" =>
                     response'[k] = response[k] /\ started'[k] = started[k]
<1>1. IInv /\ [Next]_vars => [Kept]_vars
  <2> SUFFICES ASSUME IInv, Next PROVE Kept
    OBVIOUS
  <2> USE DEF IInv
  <2>1. CASE UNCHANGED <<started, response>>
    BY <2>1
  <2>2. CASE WriteStarted
    BY <2>2 DEF WriteStarted, At, PayingCall, Paying, BeforeSend, TypeOK, Answered
  <2>3. CASE WriteResponse
    BY <2>3 DEF WriteResponse, At, PayingCall, Paying, Waiting, TypeOK, Answered
  <2>4. CASE RemoveStarted
    BY <2>4 DEF RemoveStarted, At, PayingCall, Paying, AfterReject, TypeOK, Answered
  <2>5. WriteStarted \/ WriteResponse \/ RemoveStarted \/ UNCHANGED <<started, response>>
    BY DEF Next, CallStep, BeginNew, BeginRecovery, Extract, ClearProviderError, Cleared,
       FailBeforeStarted, Send, LoseReply, ReceiveAnswer, ReceiveRejection, FailWriteResponse,
       Parse, FailParse, WriteProviderError, FailWriteProviderError, FallBack, Refuse,
       ProviderCharges, Return, Crash, Restart, RemoveGuard, receipts
  <2> QED BY <2>1, <2>2, <2>3, <2>4, <2>5
<1>2. Spec => []IInv
  BY Invariance
<1> QED BY <1>1, <1>2, PTL DEF Spec, AnswersAreKept

-----------------------------------------------------------------------------
(* The folder keeps the promise of PaidCall                                *)

\* The status of a document that has a live request is decided by that request.
LEMMA StatusOf ==
    ASSUME IInv, NEW d \in Documents
    PROVE  /\ \A r \in Live : r.doc = d => Status[d] =
                IF r \notin charged THEN "open" ELSE IF Durable(r) THEN "kept" ELSE "charged"
           /\ (\A r \in Live : r.doc # d) => Status[d] = "unpaid"
BY DEF IInv, PaidAtMostOnce, Status, Live

\* A change of one document's status, said document by document.
LEMMA StatusUpdate ==
    ASSUME NEW d \in Documents, NEW v, Status'[d] = v,
           \A e \in Documents : e # d => Status'[e] = Status[e]
    PROVE  Status' = [Status EXCEPT ![d] = v]
<1>1. Status' = [e \in Documents |-> Status'[e]]
  BY DEF Status
<1>2. Status = [e \in Documents |-> Status[e]]
  BY DEF Status
<1> HIDE DEF Status
<1> QED BY <1>1, <1>2

\* A step that changes no live request and no durable answer of one stutters.
LEMMA StatusStutters ==
    ASSUME UNCHANGED provider, \A r \in charged : Durable(r)' <=> Durable(r)
    PROVE  UNCHANGED Status
BY DEF provider, Status

LEMMA PromiseSend ==
    ASSUME IInv, IInv', Send PROVE Promise!Send(call.key.doc)
<1> DEFINE d == call.key.doc
<1>1. /\ d \in Documents /\ \A r \in Live : r.doc # d /\ Durable(r)
      /\ call.pc = "sending"
  BY DEF IInv, TypeOK, Keys, Send, At, PayingCall, Paying, BeforeSend, Waiting
<1>2. inflight' = inflight \cup {Request} /\ charged' = charged /\ UNCHANGED receipts
  BY DEF Send
<1>3. Request.doc = d /\ Request \in Live'
  BY <1>2 DEF Request, Live
<1>4. \A r \in Live : r \in charged
  <2> SUFFICES ASSUME NEW r \in Live PROVE r \in charged
    OBVIOUS
  <2>1. PICK k \in Keys : k.doc = r.doc /\ started[k] = r.stamp /\ response[k] # "none"
    BY <1>1 DEF Durable
  <2>2. r = [doc |-> r.doc, stamp |-> r.stamp]
    BY DEF IInv, TypeOK, Live, Requests
  <2> QED BY <2>1, <2>2 DEF IInv, AnswersAreBilled
<1>5. Status[d] = "unpaid" /\ \A e \in Documents : Status[e] \in {"unpaid", "kept"}
  BY <1>1, <1>4, StatusOf
<1>6. Request \notin charged
  BY <1>1, <1>3 DEF Live
<1>7. Status' = [Status EXCEPT ![d] = "open"]
  <2>1. \A e \in Documents : e # d => Status'[e] = Status[e]
    BY <1>2, <1>3 DEF Status, Durable, receipts
  <2>2. Status'[d] = "open"
    BY <1>1, <1>2, <1>3 DEF Status, Live
  <2> QED BY <1>1, <2>1, <2>2, StatusUpdate
<1> QED BY <1>5, <1>7 DEF Promise!Send

LEMMA PromiseReject ==
    ASSUME IInv, IInv', NEW s \in BOOLEAN, ReceiveRejection(s) PROVE Promise!Reject(call.key.doc)
<1> DEFINE d == call.key.doc
<1>1. /\ Request \in inflight /\ Request \notin charged /\ Request.doc = d /\ d \in Documents
      /\ inflight' = inflight \ {Request} /\ charged' = charged /\ UNCHANGED receipts
  BY DEF IInv, TypeOK, Keys, ReceiveRejection, Request
<1>2. \A r \in Live : r.doc = d => r = Request
  BY <1>1 DEF IInv, PaidAtMostOnce, Live
<1>3. Status[d] = "open"
  BY <1>1, StatusOf DEF Live
<1>4. Status' = [Status EXCEPT ![d] = "unpaid"]
  <2>1. \A e \in Documents : e # d => Status'[e] = Status[e]
    BY <1>1 DEF Status, Durable, receipts
  <2>2. Status'[d] = "unpaid"
    BY <1>1, <1>2 DEF Status, Live
  <2> QED BY <1>1, <2>1, <2>2, StatusUpdate
<1> QED BY <1>3, <1>4 DEF Promise!Reject

LEMMA PromiseCharge ==
    ASSUME IInv, IInv', NEW r \in inflight, ProviderCharges(r) PROVE Promise!Charge(r.doc)
<1>1. /\ r \in Live /\ r.doc \in Documents /\ r = [doc |-> r.doc, stamp |-> r.stamp]
      /\ r \notin charged
  BY DEF IInv, TypeOK, Requests, Live
<1>2. inflight' = inflight \ {r} /\ charged' = charged \cup {r} /\ UNCHANGED receipts
  BY DEF ProviderCharges
<1>3. ~Durable(r)
  BY <1>1 DEF Durable, IInv, AnswersAreBilled
<1>4. \A s \in Live : s.doc = r.doc => s = r
  BY <1>1 DEF IInv, PaidAtMostOnce
<1>5. Status[r.doc] = "open"
  BY <1>1, StatusOf
<1>6. Status' = [Status EXCEPT ![r.doc] = "charged"]
  <2>1. \A e \in Documents : e # r.doc => Status'[e] = Status[e]
    BY <1>2 DEF Status, Durable, receipts
  <2>2. Status'[r.doc] = "charged"
    BY <1>1, <1>2, <1>3, <1>4 DEF Status, Live, Durable, receipts
  <2> QED BY <1>1, <2>1, <2>2, StatusUpdate
<1> QED BY <1>1, <1>5, <1>6 DEF Promise!Charge

LEMMA PromiseKeep ==
    ASSUME IInv, IInv', WriteResponse PROVE Promise!Keep(call.key.doc)
<1> DEFINE k == call.key
           d == call.key.doc
<1>1. /\ k \in Keys /\ d \in Documents /\ ~Answered(k) /\ started[k] = clock
      /\ \A j \in Keys : j.doc = d => ~Answered(j)
      /\ Request \in charged
  BY DEF IInv, TypeOK, Keys, WriteResponse, At, PayingCall, Paying, Waiting
<1>2. Request.doc = d /\ Request.stamp = clock /\ Request \in Live
  BY <1>1 DEF Request, Live
<1>3. \A r \in Live : r.doc = d => r = Request
  BY <1>2 DEF IInv, PaidAtMostOnce
<1>4. /\ UNCHANGED <<started, provider>> /\ call.answer # "none"
      /\ \A j \in Keys : response'[j] = IF j = k THEN call.answer ELSE response[j]
  BY DEF WriteResponse, IInv, TypeOK, Answers
<1>5. ~Durable(Request)
  BY <1>1, <1>2 DEF Durable, Answered
<1>6. Status[d] = "charged"
  BY <1>1, <1>2, <1>5, StatusOf
<1>7. Status' = [Status EXCEPT ![d] = "kept"]
  <2>1. \E j \in Keys : j.doc = Request.doc /\ started'[j] = Request.stamp /\ response'[j] # "none"
    BY <1>1, <1>2, <1>4
  <2>2. \E r \in charged' : r.doc = d /\ \E j \in Keys :
            j.doc = r.doc /\ started'[j] = r.stamp /\ response'[j] # "none"
    BY <1>1, <1>2, <1>4, <2>1 DEF provider
  <2>3. Status'[d] = "kept"
    BY <1>1, <2>2 DEF Status, Durable
  <2>4. \A e \in Documents : e # d => Status'[e] = Status[e]
    BY <1>1, <1>4 DEF Status, Durable, provider
  <2> QED BY <1>1, <2>3, <2>4, StatusUpdate
<1> QED BY <1>6, <1>7 DEF Promise!Keep

\* The steps on files that are not the answer: every live request is already
\* durably answered, and stays so.
LEMMA PromiseStutters ==
    ASSUME IInv, IInv', WriteStarted \/ RemoveStarted PROVE UNCHANGED Status
<1>1. /\ call.key \in Keys /\ ~Answered(call.key)
      /\ \A r \in Live : r.doc # call.key.doc /\ Durable(r)
      /\ UNCHANGED provider /\ UNCHANGED response
  BY DEF IInv, TypeOK, WriteStarted, RemoveStarted, At, PayingCall, Paying, BeforeSend,
     AfterReject, Waiting
<1>2. \A j \in Keys : j # call.key => started'[j] = started[j]
  BY DEF WriteStarted, RemoveStarted, IInv, TypeOK
<1>3. \A r \in Live : Durable(r)'
  BY <1>1, <1>2 DEF Durable, Answered
<1> QED BY <1>1, <1>3, StatusStutters DEF Live

\* The initial folder maps to an initial promise and every step to a step of
\* the promise or to a stutter.
LEMMA PromiseNext ==
    ASSUME IInv, IInv', [Next]_vars PROVE [Promise!Next]_Status
<1>d. call.key.doc \in Documents /\ \A r \in inflight : r.doc \in Documents
  BY DEF IInv, TypeOK, Keys, Requests
<1>1. CASE Send
  BY <1>d, <1>1, PromiseSend DEF Promise!Next
<1>2. CASE \E s \in BOOLEAN : ReceiveRejection(s)
  BY <1>d, <1>2, PromiseReject DEF Promise!Next
<1>3. CASE \E r \in inflight : ProviderCharges(r)
  BY <1>d, <1>3, PromiseCharge DEF Promise!Next
<1>4. CASE WriteResponse
  BY <1>d, <1>4, PromiseKeep DEF Promise!Next
<1>5. CASE WriteStarted \/ RemoveStarted
  BY <1>5, PromiseStutters
<1>6. CASE UNCHANGED <<started, response, provider>>
  <2>1. \A r \in charged : Durable(r)' <=> Durable(r)
    BY <1>6 DEF Durable
  <2> QED BY <1>6, <2>1, StatusStutters
<1>7. \/ Send \/ WriteResponse \/ WriteStarted \/ RemoveStarted
      \/ \E s \in BOOLEAN : ReceiveRejection(s)
      \/ \E r \in inflight : ProviderCharges(r)
      \/ UNCHANGED <<started, response, provider>>
  BY DEF Next, CallStep, BeginNew, BeginRecovery, Extract, ClearProviderError, Cleared,
     FailBeforeStarted, LoseReply, ReceiveAnswer, FailWriteResponse, Parse, FailParse,
     WriteProviderError, FailWriteProviderError, FallBack, Refuse, Return, Crash, Restart,
     RemoveGuard, receipts, vars
<1> QED BY <1>1, <1>2, <1>3, <1>4, <1>5, <1>6, <1>7

\* The receipt folder implements PaidCall.
THEOREM FolderKeepsPromise == FallbackStays => (Spec => PromiseKept)
<1> SUFFICES ASSUME FallbackStays PROVE Spec => PromiseKept
  OBVIOUS
<1>1. Init => Promise!Init
  BY DEF Init, Promise!Init, Status
<1>2. IInv /\ IInv' /\ [Next]_vars => [Promise!Next]_Status
  BY PromiseNext
<1>3. Spec => []IInv
  BY Invariance
<1> QED BY <1>1, <1>2, <1>3, PTL DEF Spec, PromiseKept, Promise!Spec
=============================================================================
