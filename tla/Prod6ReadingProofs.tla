------------------------- MODULE Prod6ReadingProofs -------------------------
(***************************************************************************)
(* Proofs about the reading jobs, also when an operator gives the service  *)
(* a fresh folder.  The old folder is then gone, but not what was paid for *)
(* under it, so the folder in use knows only of some of the money: the     *)
(* requests of the documents that have a receipt in it.  To the known part *)
(* every step of the coordinator is a step of ReadingReceipts or leaves it *)
(* alone, and ReadingReceiptsProofs, instantiated with it, says what holds *)
(* there.  What the folder does not know is kept by the attempts of the    *)
(* job rows: a request that can be billed has a job whose attempt counts,  *)
(* and such a document is only ever recovered, never asked anew.           *)
(***************************************************************************)
EXTENDS Prod6Reading, ReadingReceiptsProofs

FolderStays == MaxFolderSwaps = 0

\* The folder was not replaced yet.
LEMMA NoSwapYet == FolderStays => (JobsSpec => [](swaps = 0))
<1> SUFFICES ASSUME FolderStays PROVE JobsSpec => [](swaps = 0)
  OBVIOUS
<1>1. JobsInit => swaps = 0
  BY DEF JobsInit
<1>2. swaps = 0 /\ [JobsNext]_allVars => (swaps = 0)'
  <2> SUFFICES ASSUME swaps = 0, [JobsNext]_allVars PROVE swaps' = 0
    OBVIOUS
  <2>1. CASE UNCHANGED swaps
    BY <2>1
  <2>2. CASE FreshFolder
    BY <2>2 DEF FreshFolder, FolderStays
  <2>3. FreshFolder \/ UNCHANGED swaps
    BY DEF JobsNext, JobStep, Enqueue, Claim, Dispatch, PreserveReading, PreserveClosed, Commit,
       StopForAttention, DeferForSource, HoldFailedJob, RejectAndPause, RejectAndCount,
       CallProgress, Billing, EndPause, Die, Start, DeleteGuard, allVars, runtime, bounds
  <2> QED BY <2>1, <2>2, <2>3
<1> QED BY <1>1, <1>2, PTL DEF JobsSpec

\* The ends of a job take the outcome of the call, or kill the process.
LEMMA JobStepIsFolderStep ==
    ASSUME NEW j \in Jobs, JobStep(j) PROVE [Next]_vars
<1>1. CASE Claim(j) \/ PreserveReading(j) \/ PreserveClosed(j)
  BY <1>1 DEF Claim, PreserveReading, PreserveClosed
<1>2. CASE Dispatch(j)
  <2>1. DocOf[j] \in Documents
    BY JobsAssumption
  <2> QED BY <1>2, <2>1 DEF Dispatch, Next
<1>3. CASE Commit(j) \/ DeferForSource(j) \/ HoldFailedJob(j) \/ RejectAndPause(j) \/ RejectAndCount(j)
  <2>1. Return
    BY <1>3 DEF Commit, DeferForSource, HoldFailedJob, RejectAndPause, RejectAndCount, Return, Ends, At
  <2> QED BY <2>1 DEF Next
<1>4. CASE StopForAttention(j)
  <2>1. Crash
    BY <1>4 DEF StopForAttention, Crash
  <2> QED BY <2>1 DEF Next
<1> QED BY <1>1, <1>2, <1>3, <1>4 DEF JobStep

LEMMA JobsStepIsFolderStep == ASSUME [JobsNext]_allVars PROVE [Next]_vars \/ FreshFolder
<1>1. CASE UNCHANGED allVars
  BY <1>1 DEF allVars
<1>2. CASE \E j \in Jobs : Enqueue(j) \/ JobStep(j)
  BY <1>2, JobStepIsFolderStep DEF Enqueue
<1>3. CASE CallProgress \/ Billing
  BY <1>3 DEF CallProgress, Billing, Next
<1>4. CASE EndPause
  BY <1>4 DEF EndPause
<1>5. CASE Die \/ Start \/ DeleteGuard
  BY <1>5 DEF Die, Start, DeleteGuard, Next
<1> QED BY <1>1, <1>2, <1>3, <1>4, <1>5 DEF JobsNext

\* The coordinator uses the folder only in the ways ReadingReceipts describes.
THEOREM JobsUseTheFolder == FolderStays => (JobsSpec => Spec)
<1> SUFFICES ASSUME FolderStays PROVE JobsSpec => Spec
  OBVIOUS
<1>1. JobsInit => Init
  BY DEF JobsInit
<1>2. swaps = 0 /\ [JobsNext]_allVars => [Next]_vars
  BY JobsStepIsFolderStep DEF FreshFolder, FolderStays
<1>3. JobsSpec => [](swaps = 0)
  BY NoSwapYet
<1> QED BY <1>1, <1>2, <1>3, PTL DEF JobsSpec, Spec

-----------------------------------------------------------------------------
(* The folder as far as it is known                                        *)

\* A request is known to the folder when the folder holds a receipt of its document.
Known(d) == \E k \in Keys : k.doc = d /\ ~BlankKey(k)
KnownInflight == {r \in inflight : Known(r.doc)}
KnownCharged  == {r \in charged : Known(r.doc)}

Folder == INSTANCE ReadingReceiptsProofs WITH inflight <- KnownInflight, charged <- KnownCharged

JobStates == {"absent", "pending", "claimed", "done", "closed", "rejected", "failed"}

\* The call runs for the one claimed job, and a claim counts an attempt.
CallHasJob ==
    /\ job \in [Jobs -> JobStates]
    /\ attempts \in [Jobs -> 0..MaxAttempts]
    /\ \A i, j \in Serving : i = j
    /\ \A j \in Serving : attempts[j] >= 1
    /\ call.pc \notin {"down", "idle"} => \E j \in Serving : DocOf[j] = call.key.doc

\* The attempt of job i may have sent something.
Spent(i) == attempts[i] > 1 \/ (attempts[i] = 1 /\ ~(job[i] = "claimed" /\ call.pc = "idle"))

\* What may be billed was sent in an attempt that still counts.
SendsAreCounted == \A r \in Live : \E i \in Jobs : DocOf[i] = r.doc /\ Spent(i)

\* Before a call sends, and after a refusal, nothing of its document can be billed.
Unsent == {"download", "clearing", "pacing", "sending", "rejected", "unstarting", "rejection", "refused"}
UnsentIsFree == call.pc \in Unsent => \A r \in Live : r.doc # call.key.doc

LEMMA SameKnown ==
    ASSUME UNCHANGED inflight, UNCHANGED charged, \A r \in Live : Known(r.doc)' <=> Known(r.doc)
    PROVE  UNCHANGED KnownInflight /\ UNCHANGED KnownCharged
<1>1. ASSUME NEW r PROVE r \in KnownInflight' <=> r \in KnownInflight
  BY DEF KnownInflight, Live
<1>2. ASSUME NEW r PROVE r \in KnownCharged' <=> r \in KnownCharged
  BY DEF KnownCharged, Live
<1> QED BY <1>1, <1>2

LEMMA SameReceipts ==
    ASSUME UNCHANGED receipts, UNCHANGED provider
    PROVE  UNCHANGED KnownInflight /\ UNCHANGED KnownCharged
<1>1. UNCHANGED started /\ UNCHANGED providerError /\ UNCHANGED response /\ UNCHANGED result
  BY DEF receipts
<1>2. UNCHANGED inflight /\ UNCHANGED charged
  BY DEF provider
<1> QED BY <1>1, <1>2, SameKnown DEF Known, BlankKey, Answered

\* The words of the folder that are not about the provider.
LEMMA FolderWords ==
    /\ Folder!Keys = Keys /\ Folder!receipts = receipts /\ Folder!config = config
    /\ \A k : (Folder!Answered(k) <=> Answered(k)) /\ (Folder!Resolved(k) <=> Resolved(k))
    /\ \A d : Folder!ResolvedKeys(d) = ResolvedKeys(d)
    /\ \A d, m : /\ Folder!DocumentKeys(d, m) = DocumentKeys(d, m)
                 /\ Folder!RetryAllowed(d, m) <=> RetryAllowed(d, m)
    /\ Folder!SendPermitted <=> SendPermitted
    /\ \A d, g, m : Folder!Key(d, g, m) = Key(d, g, m)
    /\ Folder!Request = Request
<1>1. /\ Folder!Keys = Keys /\ Folder!receipts = receipts /\ Folder!config = config
      /\ \A d, g, m : Folder!Key(d, g, m) = Key(d, g, m)
      /\ Folder!Request = Request
  BY DEF Folder!Keys, Keys, Folder!Generations, Generations, Folder!Models, Models, Folder!receipts, receipts,
     Folder!config, config, Folder!Key, Key, Folder!Request, Request
<1>2. \A k : (Folder!Answered(k) <=> Answered(k)) /\ (Folder!Resolved(k) <=> Resolved(k))
  BY DEF Folder!Answered, Answered, Folder!Resolved, Resolved
<1>3. Folder!GenerationsInUse = GenerationsInUse
  BY DEF Folder!GenerationsInUse, GenerationsInUse, Folder!Generations, Generations
<1>4. ASSUME NEW d PROVE Folder!LookupKeys(d) = LookupKeys(d)
  BY <1>1, <1>3 DEF Folder!LookupKeys, LookupKeys
<1>5. ASSUME NEW d PROVE Folder!ResolvedKeys(d) = ResolvedKeys(d)
  BY <1>1, <1>2, <1>4 DEF Folder!ResolvedKeys, ResolvedKeys
<1>6. ASSUME NEW d, NEW m PROVE Folder!DocumentKeys(d, m) = DocumentKeys(d, m)
  BY <1>1, <1>3 DEF Folder!DocumentKeys, DocumentKeys
<1>7. ASSUME NEW d, NEW m PROVE Folder!RetryAllowed(d, m) <=> RetryAllowed(d, m)
  BY <1>6 DEF Folder!RetryAllowed, RetryAllowed
<1>8. Folder!SendPermitted <=> SendPermitted
  BY <1>1, <1>2 DEF Folder!SendPermitted, SendPermitted, Folder!Unresolved, Unresolved
<1> QED BY <1>1, <1>2, <1>5, <1>6, <1>7, <1>8

LEMMA Heads ==
    ASSUME NEW k, ReplayOrSend(k)
    PROVE  Folder!ReplayOrSend(k)
BY FolderWords DEF Folder!ReplayOrSend, ReplayOrSend, Folder!GotoKey, GotoKey, Folder!OpenGuard, OpenGuard

\* The words of an action, to be expanded on both sides.
LEMMA QuietSteps ==
    ASSUME UNCHANGED receipts, UNCHANGED provider,
           \/ \E d \in Documents : BeginNew(d) \/ BeginRecovery(d)
           \/ Extract \/ Cleared \/ FailBeforeStarted \/ LoseReply \/ FailWriteResponse \/ FailParse
           \/ FailWriteProviderError \/ FallBack \/ Refuse \/ Return \/ Crash \/ Restart \/ RemoveGuard
    PROVE  Folder!Next
<1>0. UNCHANGED KnownInflight /\ UNCHANGED KnownCharged
  BY SameReceipts
<1> USE FolderWords
<1>1. ASSUME NEW d \in Documents, BeginNew(d) PROVE Folder!BeginNew(d)
  BY <1>0, <1>1 DEF BeginNew, Folder!BeginNew, At, Folder!At, Folder!provider, receipts, Folder!receipts, config,
     Folder!config
<1>2. ASSUME NEW d \in Documents, BeginRecovery(d) PROVE Folder!BeginRecovery(d)
  BY <1>0, <1>2 DEF BeginRecovery, Folder!BeginRecovery, At, Folder!At, Folder!provider, receipts,
     Folder!receipts, config, Folder!config, OpenGuard, Folder!OpenGuard
<1>3. ASSUME Extract PROVE Folder!Extract
  BY <1>0, <1>3, Heads DEF Extract, Folder!Extract, At, Folder!At, Folder!provider, receipts, Folder!receipts,
     config, Folder!config
<1>4. ASSUME FallBack PROVE Folder!FallBack
  BY <1>0, <1>4, Heads DEF FallBack, Folder!FallBack, At, Folder!At, Folder!provider, receipts, Folder!receipts,
     config, Folder!config, MayFallBack, Folder!MayFallBack
<1>5. ASSUME Cleared \/ Refuse PROVE Folder!Cleared \/ Folder!Refuse
  BY <1>0, <1>5 DEF Cleared, Folder!Cleared, Refuse, Folder!Refuse, At, Folder!At, Folder!provider, receipts,
     Folder!receipts, config, Folder!config, Goto, Folder!Goto,
     MayFallBack, Folder!MayFallBack
<1>6. ASSUME FailBeforeStarted \/ LoseReply \/ FailWriteResponse \/ FailParse \/ FailWriteProviderError
      PROVE  \/ Folder!FailBeforeStarted \/ Folder!LoseReply \/ Folder!FailWriteResponse \/ Folder!FailParse
             \/ Folder!FailWriteProviderError
  BY <1>0, <1>6 DEF FailBeforeStarted, LoseReply, FailWriteResponse, FailParse, FailWriteProviderError,
     Folder!FailBeforeStarted, Folder!LoseReply, Folder!FailWriteResponse, Folder!FailParse,
     Folder!FailWriteProviderError,
     At, Folder!At, Folder!provider, receipts, Folder!receipts, config, Folder!config, FailAndGuard,
     Folder!FailAndGuard, Goto, Folder!Goto, OpenGuard, Folder!OpenGuard
<1>7. ASSUME Return \/ Crash \/ Restart \/ RemoveGuard
      PROVE  Folder!Return \/ Folder!Crash \/ Folder!Restart \/ Folder!RemoveGuard
  BY <1>0, <1>7 DEF Return, Crash, Restart, RemoveGuard, Folder!Return, Folder!Crash, Folder!Restart,
     Folder!RemoveGuard,
     At, Folder!At, Folder!provider, receipts, Folder!receipts, config, Folder!config, Finish, Folder!Finish,
     Goto, Folder!Goto, Ends, Folder!Ends
<1> QED BY <1>1, <1>2, <1>3, <1>4, <1>5, <1>6, <1>7 DEF Folder!Next, Folder!CallStep

\* Steps that write receipts of a document without a request that can be billed.
LEMMA UnsentSteps ==
    ASSUME Folder!IInv, UnsentIsFree, call.pc \in Unsent,
           ClearProviderError \/ WriteStarted \/ WriteProviderError \/ RemoveStarted
    PROVE  Folder!Next
<1> USE FolderWords
<1>1. call.key \in Keys /\ started \in [Keys -> 0..MaxSends] /\ providerError \in [Keys -> 0..MaxSends]
  BY DEF Folder!IInv, Folder!TypeOK
<1>2. \A r \in Live : r.doc # call.key.doc
  BY DEF UnsentIsFree
<1>3. ASSUME NEW k \in Keys, k.doc # call.key.doc PROVE BlankKey(k)' <=> BlankKey(k)
  <2>1. /\ started'[k] = started[k] /\ providerError'[k] = providerError[k]
        /\ UNCHANGED response /\ UNCHANGED result
    BY <1>1, <1>3 DEF ClearProviderError, WriteStarted, WriteProviderError, RemoveStarted, DocumentKeys, Key
  <2> QED BY <2>1 DEF BlankKey, Answered
<1>4. ASSUME NEW r \in Live PROVE Known(r.doc)' <=> Known(r.doc)
  <2>1. \A k \in Keys : k.doc = r.doc => (BlankKey(k)' <=> BlankKey(k))
    BY <1>2, <1>3
  <2> QED BY <2>1 DEF Known
<1>5. UNCHANGED KnownInflight /\ UNCHANGED KnownCharged
  <2>1. UNCHANGED inflight /\ UNCHANGED charged
    BY DEF ClearProviderError, WriteStarted, WriteProviderError, RemoveStarted, provider
  <2> QED BY <1>4, <2>1, SameKnown
<1>6. \/ Folder!ClearProviderError \/ Folder!WriteStarted \/ Folder!WriteProviderError \/ Folder!RemoveStarted
  BY <1>5 DEF ClearProviderError, WriteStarted, WriteProviderError, RemoveStarted, Folder!ClearProviderError,
     Folder!WriteStarted, Folder!WriteProviderError, Folder!RemoveStarted, At, Folder!At, provider,
     Folder!provider, receipts, Folder!receipts, config, Folder!config,
     Goto, Folder!Goto, FailAndGuard, Folder!FailAndGuard, OpenGuard, Folder!OpenGuard
<1> QED BY <1>6 DEF Folder!Next, Folder!CallStep

\* Steps of a call whose own request is known.
LEMMA AnswerSteps ==
    ASSUME Folder!IInv, WriteResponse \/ Parse \/ \E a \in Answers : ReceiveAnswer(a)
    PROVE  Folder!Next
<1> USE FolderWords
<1>1. /\ call.key \in Keys /\ response \in [Keys -> {"none"} \cup Answers] /\ result \in [Keys -> BOOLEAN]
      /\ call.answer \in Answers
  BY DEF Folder!IInv, Folder!TypeOK, Folder!Answers, Answers
<1>2. Known(call.key.doc)
  <2>1. CASE At("sent") \/ At("answered")
    BY <1>1, <2>1 DEF Folder!IInv, Folder!PayingCall, Folder!Paying, Folder!Waiting, At, Known, BlankKey
  <2>2. CASE At("saved")
    BY <1>1, <2>2 DEF Folder!IInv, Folder!FinishedCall, At, Known, BlankKey, Answered
  <2> QED BY <2>1, <2>2 DEF WriteResponse, Parse, ReceiveAnswer
<1>3. \A k \in Keys : /\ k # call.key => result'[k] = result[k] /\ response'[k] = response[k]
                      /\ Answered(k) => Answered(k)'
  BY <1>1 DEF WriteResponse, Parse, ReceiveAnswer, receipts, Answered, Answers
<1>4. UNCHANGED started /\ UNCHANGED providerError /\ UNCHANGED inflight /\ UNCHANGED charged
  BY DEF WriteResponse, Parse, ReceiveAnswer, receipts, provider
<1>5. ASSUME NEW r \in Live PROVE Known(r.doc)' <=> Known(r.doc)
  BY <1>1, <1>2, <1>3, <1>4 DEF Known, BlankKey, Answered
<1>6. UNCHANGED KnownInflight /\ UNCHANGED KnownCharged
  BY <1>4, <1>5, SameKnown
<1>7. Request \in charged => Request \in KnownCharged
  BY <1>2 DEF KnownCharged, Request
<1>8. Folder!WriteResponse \/ Folder!Parse \/ \E a \in Answers : Folder!ReceiveAnswer(a)
  BY <1>6, <1>7 DEF WriteResponse, Parse, ReceiveAnswer, Folder!WriteResponse, Folder!Parse,
     Folder!ReceiveAnswer, At,
     Folder!At, provider, Folder!provider, receipts, Folder!receipts, config, Folder!config, Goto, Folder!Goto,
     FailAndGuard, Folder!FailAndGuard, OpenGuard, Folder!OpenGuard
<1> QED BY <1>8 DEF Folder!Next, Folder!CallStep, Answers, Folder!Answers

\* The own request of a call that waits for it, or is about to send it, is known.
LEMMA OwnIsKnown ==
    ASSUME Folder!IInv, call.pc \in {"sending", "sent", "answered"}
    PROVE  Known(call.key.doc) /\ call.key \in Keys
<1>1. call.key \in Keys
  BY FolderWords DEF Folder!IInv, Folder!TypeOK
<1> QED BY <1>1 DEF Folder!IInv, Folder!PayingCall, Folder!Paying, Folder!Waiting, Folder!BeforeSend, Known,
   BlankKey

LEMMA ProviderSteps ==
    ASSUME Folder!IInv, \/ Send \/ \E s \in BOOLEAN : ReceiveRejection(s) \/ \E r \in inflight : ProviderCharges(r)
    PROVE  Folder!Next \/ UNCHANGED Folder!vars
<1> USE FolderWords
<1>0. UNCHANGED started /\ UNCHANGED providerError /\ UNCHANGED response /\ UNCHANGED result
  BY DEF Send, ReceiveRejection, ProviderCharges, receipts
<1>1. \A d : Known(d)' <=> Known(d)
  BY <1>0 DEF Known, BlankKey, Answered
<1>2. KnownInflight' = {r \in inflight' : Known(r.doc)} /\ KnownCharged' = {r \in charged' : Known(r.doc)}
  BY <1>1 DEF KnownInflight, KnownCharged
<1>3. CASE Send
  <2>1. Known(Request.doc)
    BY <1>3, OwnIsKnown DEF Send, At, Request
  <2>2. KnownInflight' = KnownInflight \cup {Request} /\ UNCHANGED KnownCharged
    BY <1>2, <1>3, <2>1 DEF Send, KnownInflight, KnownCharged
  <2>3. Folder!Send
    BY <1>3, <2>2 DEF Send, Folder!Send, At, Folder!At, Goto, Folder!Goto, receipts, Folder!receipts, config,
       Folder!config
  <2> QED BY <2>3 DEF Folder!Next, Folder!CallStep
<1>4. ASSUME NEW s \in BOOLEAN, ReceiveRejection(s) PROVE Folder!Next
  <2>1. Known(Request.doc)
    BY <1>4, OwnIsKnown DEF ReceiveRejection, At, Request
  <2>2. KnownInflight' = KnownInflight \ {Request} /\ UNCHANGED KnownCharged /\ Request \in KnownInflight
    BY <1>2, <1>4, <2>1 DEF ReceiveRejection, KnownInflight, KnownCharged
  <2>3. Folder!ReceiveRejection(s)
    BY <1>4, <2>2 DEF ReceiveRejection, Folder!ReceiveRejection, At, Folder!At, receipts, Folder!receipts, config,
       Folder!config
  <2> QED BY <2>3 DEF Folder!Next, Folder!CallStep
<1>5. ASSUME NEW r \in inflight, ProviderCharges(r), Known(r.doc) PROVE Folder!Next
  <2>1. KnownInflight' = KnownInflight \ {r} /\ KnownCharged' = KnownCharged \cup {r} /\ r \in KnownInflight
    BY <1>2, <1>5 DEF ProviderCharges, KnownInflight, KnownCharged
  <2>2. Folder!ProviderCharges(r)
    BY <1>5, <2>1 DEF ProviderCharges, Folder!ProviderCharges, receipts, Folder!receipts, config, Folder!config
  <2> QED BY <2>1, <2>2 DEF Folder!Next
<1>6. ASSUME NEW r \in inflight, ProviderCharges(r), ~Known(r.doc) PROVE UNCHANGED Folder!vars
  <2>1. UNCHANGED KnownInflight /\ UNCHANGED KnownCharged
    BY <1>2, <1>6 DEF ProviderCharges, KnownInflight, KnownCharged
  <2> QED BY <1>6, <2>1 DEF ProviderCharges, Folder!vars, Folder!receipts, Folder!config, Folder!provider,
     receipts, config
<1> QED BY <1>3, <1>4, <1>5, <1>6

\* A step of the folder, seen from what it knows of.
LEMMA KnownStep ==
    ASSUME Folder!IInv, UnsentIsFree, [Next]_vars
    PROVE  [Folder!Next]_Folder!vars
<1>1. CASE UNCHANGED vars
  <2>1. UNCHANGED KnownInflight /\ UNCHANGED KnownCharged
    BY <1>1, SameReceipts DEF vars
  <2> QED BY <1>1, <2>1 DEF vars, Folder!vars, Folder!receipts, Folder!config, Folder!provider, receipts, config
<1>2. CASE \/ \E d \in Documents : BeginNew(d) \/ BeginRecovery(d)
           \/ Extract \/ Cleared \/ FailBeforeStarted \/ LoseReply \/ FailWriteResponse \/ FailParse
           \/ FailWriteProviderError \/ FallBack \/ Refuse \/ Return \/ Crash \/ Restart \/ RemoveGuard
  <2>1. UNCHANGED receipts /\ UNCHANGED provider
    BY <1>2 DEF BeginNew, BeginRecovery, Extract, Cleared, FailBeforeStarted, LoseReply, FailWriteResponse,
       FailParse,
       FailWriteProviderError, FallBack, Refuse, Return, Crash, Restart, RemoveGuard
  <2> QED BY <1>2, <2>1, QuietSteps
<1>3. CASE ClearProviderError \/ WriteStarted \/ WriteProviderError \/ RemoveStarted
  <2>1. call.pc \in Unsent
    BY <1>3 DEF ClearProviderError, WriteStarted, WriteProviderError, RemoveStarted, At, Unsent
  <2> QED BY <1>3, <2>1, UnsentSteps
<1>4. CASE WriteResponse \/ Parse \/ \E a \in Answers : ReceiveAnswer(a)
  BY <1>4, AnswerSteps
<1>5. CASE \/ Send \/ \E s \in BOOLEAN : ReceiveRejection(s) \/ \E r \in inflight : ProviderCharges(r)
  BY <1>5, ProviderSteps
<1> QED BY <1>1, <1>2, <1>3, <1>4, <1>5 DEF Next, CallStep

\* A fresh folder knows of no request, and what it knows is right.
LEMMA FreshFolderKeeps ==
    ASSUME Folder!IInv, FreshFolder
    PROVE  Folder!IInv'
<1>1. /\ started' = [k \in Keys |-> 0] /\ providerError' = [k \in Keys |-> 0]
      /\ response' = [k \in Keys |-> "none"] /\ result' = [k \in Keys |-> FALSE]
      /\ guard' = FALSE /\ UNCHANGED call /\ UNCHANGED newest /\ UNCHANGED fallbackOn /\ UNCHANGED clock /\ call.pc = "down"
  BY DEF FreshFolder, At, config
<1>2. \A k \in Keys : BlankKey(k)'
  BY <1>1 DEF BlankKey, Answered
<1>3. KnownInflight' = {} /\ KnownCharged' = {}
  BY <1>2 DEF KnownInflight, KnownCharged, Known
<1>4. clock \in 0..MaxSends /\ Folder!TypeOK
  BY DEF Folder!IInv, Folder!TypeOK
<1>5. Folder!TypeOK'
  <2>1. 0 \in 0..MaxSends
    BY ReceiptsAssumption
  <2> QED BY <1>1, <1>3, <1>4, <2>1, FolderWords DEF Folder!TypeOK
<1>6. Folder!Live' = {}
  BY <1>3 DEF Folder!Live
<1>7. \A k \in Keys : Folder!BlankKey(k)'
  BY <1>2 DEF Folder!BlankKey, BlankKey, Folder!Answered, Answered
<1>8. Folder!UnusedKeysAreBlank' /\ Folder!StampsAreIssued' /\ Folder!AnswersAreBilled'
  BY <1>1, <1>4, <1>6, <1>7, FolderWords DEF Folder!UnusedKeysAreBlank, Folder!StampsAreIssued,
     Folder!AnswersAreBilled
<1>9. Folder!PayingCall' /\ Folder!FinishedCall'
  BY <1>1 DEF Folder!PayingCall, Folder!FinishedCall, Folder!Paying, Folder!BeforeSend, Folder!AfterReject,
     Folder!Waiting
<1> QED BY <1>3, <1>5, <1>6, <1>8, <1>9 DEF Folder!IInv, Folder!ChargesAreOnRecord, Folder!PaidAtMostOnce,
     Folder!OneUncertainRequest

-----------------------------------------------------------------------------
(* What a step does to the call and to the money                           *)

CallSet == [pc : {"down", "idle"} \cup Steps \cup Ends, key : Keys,
            allow : BOOLEAN, answer : Answers, saturated : BOOLEAN]

LEMMA CallFacts ==
    ASSUME Folder!IInv
    PROVE  call \in CallSet /\ call.key \in Keys /\ call.key.doc \in Documents
<1>1. call \in CallSet
  BY FolderWords DEF Folder!IInv, Folder!TypeOK, CallSet, Folder!Steps, Steps, Folder!Ends, Ends, Folder!Answers,
     Answers
<1> QED BY <1>1 DEF CallSet, Keys

LEMMA ResolvedFacts ==
    ASSUME Folder!IInv, NEW d \in Documents, NEW k \in ResolvedKeys(d)
    PROVE  k \in Keys /\ k.doc = d /\ (~Answered(k) => \A j \in Keys : j.doc = d => ~Answered(j))
<1>1. Folder!TypeOK /\ Folder!UnusedKeysAreBlank /\ Folder!ReceiptsAssumption
  BY ReceiptsAssumption DEF Folder!IInv, Folder!ReceiptsAssumption
<1>2. k \in Folder!ResolvedKeys(d)
  BY FolderWords
<1>3. k \in Folder!Keys /\ k.doc = d /\ (~Folder!Answered(k) => \A j \in Folder!LookupKeys(d) : ~Folder!Answered(j))
  BY <1>1, <1>2, Folder!ResolvedKeysFacts
<1>4. ~Folder!Answered(k) => \A j \in Folder!Keys : j.doc = d => ~Folder!Answered(j)
  BY <1>1, <1>3, Folder!LookupIsComplete
<1> QED BY <1>3, <1>4, FolderWords

\* A call keeps its document.
LEMMA CallStepFacts ==
    ASSUME Folder!IInv, CallStep
    PROVE  /\ call.pc \notin {"down", "idle"} /\ call'.pc \notin {"down", "idle"}
           /\ call'.key.doc = call.key.doc
<1>1. call \in CallSet /\ call.key \in Keys /\ call.key.doc \in Documents
  BY CallFacts
<1>2. ASSUME NEW k \in Keys, k.doc = call.key.doc, ReplayOrSend(k)
      PROVE  call'.pc \notin {"down", "idle"} /\ call'.key.doc = call.key.doc
  <2>1. \E pc \in {"read", "saved", "blocked", "clearing"} : GotoKey(k, pc)
    BY <1>2 DEF ReplayOrSend
  <2>2. ASSUME NEW pc \in {"read", "saved", "blocked", "clearing"}, GotoKey(k, pc)
        PROVE  call'.pc = pc /\ call'.key = k
    BY <1>1, <2>2 DEF GotoKey, CallSet
  <2> QED BY <1>2, <2>1, <2>2
<1>3. CASE Extract
  <2>1. PICK k \in ResolvedKeys(call.key.doc) : ReplayOrSend(k)
    BY <1>3 DEF Extract
  <2> QED BY <1>1, <1>2, <1>3, <2>1, ResolvedFacts DEF Extract, At
<1>4. CASE FallBack
  <2>1. PICK k : k = Key(call.key.doc, newest, "fallback")
    OBVIOUS
  <2>2. k \in Keys /\ k.doc = call.key.doc
    BY <1>1, <2>1 DEF Folder!IInv, Folder!TypeOK, Folder!Generations, Generations, Models, Key, Keys
  <2> QED BY <1>2, <1>4, <2>1, <2>2 DEF FallBack, At
<1>5. CASE \/ ClearProviderError \/ Cleared \/ WriteStarted \/ FailBeforeStarted \/ Send \/ LoseReply
           \/ (\E a \in Answers : ReceiveAnswer(a)) \/ (\E s \in BOOLEAN : ReceiveRejection(s))
  BY <1>1, <1>5 DEF ClearProviderError, Cleared, WriteStarted, FailBeforeStarted, Send, LoseReply, ReceiveAnswer,
     ReceiveRejection, At, Goto, FailAndGuard, CallSet
<1>6. CASE \/ WriteResponse \/ FailWriteResponse \/ Parse \/ FailParse \/ WriteProviderError
           \/ FailWriteProviderError \/ RemoveStarted \/ Refuse
  BY <1>1, <1>6 DEF WriteResponse, FailWriteResponse, Parse, FailParse, WriteProviderError, FailWriteProviderError,
     RemoveStarted, Refuse, At, Goto, FailAndGuard, CallSet
<1> QED BY <1>3, <1>4, <1>5, <1>6 DEF CallStep

\* Only Send adds a request that can be billed.
LEMMA MoneyFacts ==
    ASSUME [Next]_vars \/ FreshFolder
    PROVE  /\ Live' \subseteq Live \/ (Send /\ Live' = Live \cup {Request})
           /\ charged \subseteq charged'
<1>1. CASE CallStep
  <2>1. CASE \E s \in BOOLEAN : ReceiveRejection(s)
    BY <2>1 DEF ReceiveRejection, Live
  <2>2. CASE Send
    BY <2>2 DEF Send, Live
  <2>3. CASE UNCHANGED provider
    BY <2>3 DEF provider, Live
  <2> QED BY <1>1, <2>1, <2>2, <2>3 DEF CallStep, Extract, ClearProviderError, Cleared, WriteStarted,
     FailBeforeStarted,
       LoseReply, ReceiveAnswer, WriteResponse, FailWriteResponse, Parse, FailParse, WriteProviderError,
       FailWriteProviderError, RemoveStarted, FallBack, Refuse
<1>2. CASE \E r \in inflight : ProviderCharges(r)
  BY <1>2 DEF ProviderCharges, Live
<1>3. CASE UNCHANGED provider
  BY <1>3 DEF provider, Live
<1> QED BY <1>1, <1>2, <1>3 DEF Next, vars, BeginNew, BeginRecovery, Return, Crash, Restart, RemoveGuard,
   FreshFolder

LEMMA PaidKeeps ==
    ASSUME PaidAtMostOnce, UnsentIsFree, [Next]_vars \/ FreshFolder
    PROVE  PaidAtMostOnce'
<1>1. CASE Live' \subseteq Live
  BY <1>1 DEF PaidAtMostOnce
<1>2. CASE Send /\ Live' = Live \cup {Request}
  <2>1. \A r \in Live : r.doc # Request.doc
    BY <1>2 DEF Send, At, UnsentIsFree, Unsent, Request
  <2> QED BY <1>2, <2>1 DEF PaidAtMostOnce
<1> QED BY <1>1, <1>2, MoneyFacts

\* When a recovery may download, the document has no request that can be billed.
LEMMA RecoveryIsFree ==
    ASSUME Folder!IInv, NEW d \in Documents, BeginRecovery(d), call'.pc = "download", NEW r \in Live, r.doc = d
    PROVE  FALSE
<1>1. PICK k \in ResolvedKeys(d) : ~Answered(k) /\ SendPermitted /\ RetryAllowed(d, k.model)
  BY CallFacts DEF BeginRecovery, CallSet
<1>2. k \in Keys /\ \A j \in Keys : j.doc = d => ~Answered(j)
  BY <1>1, ResolvedFacts
<1>3. PICK j \in DocumentKeys(d, k.model) : providerError[j] # 0
  BY <1>1 DEF RetryAllowed
<1>4. j \in Keys /\ j.doc = d
  BY <1>2, <1>3 DEF DocumentKeys, Key, Keys, GenerationsInUse, Generations
<1>5. Known(d)
  BY <1>3, <1>4 DEF Known, BlankKey
<1>6. r \in Folder!Live
  BY <1>5 DEF Folder!Live, KnownInflight, KnownCharged, Live
<1>7. Folder!ReceiptsAssumption
  BY ReceiptsAssumption DEF Folder!ReceiptsAssumption
<1>8. \E i \in Folder!Keys : i.doc = r.doc /\ Folder!Answered(i)
  BY <1>1, <1>6, <1>7, FolderWords, Folder!PermittedSend
<1> QED BY <1>2, <1>8, FolderWords

LEMMA UnsentKeeps ==
    ASSUME Folder!IInv, Folder!IInv', UnsentIsFree, [Next]_vars \/ FreshFolder,
           \/ UNCHANGED call \/ call'.pc \in {"idle", "down"} \/ CallStep
           \/ \E d \in Documents : BeginRecovery(d) \/ (BeginNew(d) /\ \A r \in Live : r.doc # d)
    PROVE  UnsentIsFree'
<1>0. call \in CallSet /\ call.key \in Keys /\ call.key.doc \in Documents
  BY CallFacts
<1>1. CASE \E d \in Documents : BeginRecovery(d) \/ (BeginNew(d) /\ \A r \in Live : r.doc # d)
  <2>1. PICK d \in Documents : BeginRecovery(d) \/ (BeginNew(d) /\ \A r \in Live : r.doc # d)
    BY <1>1
  <2>2. UNCHANGED provider
    BY <2>1 DEF BeginNew, BeginRecovery
  <2>3. Live' = Live
    BY <2>2 DEF provider, Live
  <2>4. CASE BeginNew(d) /\ \A r \in Live : r.doc # d
    <3>1. call'.key.doc = d
      BY <1>0, <2>4 DEF BeginNew, CallSet, Key
    <3> QED BY <2>3, <2>4, <3>1 DEF UnsentIsFree
  <2>5. CASE BeginRecovery(d)
    <3>1. PICK k \in ResolvedKeys(d) : call'.key = k /\ call'.pc \in {"read", "saved", "blocked", "download"}
      BY <1>0, <2>5 DEF BeginRecovery, CallSet
    <3>2. call'.key.doc = d
      BY <3>1, ResolvedFacts
    <3> QED BY <2>3, <2>5, <3>1, <3>2, RecoveryIsFree DEF UnsentIsFree, Unsent
  <2> QED BY <2>1, <2>4, <2>5
<1>2. CASE CallStep
  <2>0. call'.key.doc = call.key.doc
    BY <1>2, CallStepFacts
  <2>1. CASE \E s \in BOOLEAN : ReceiveRejection(s)
    <3>1. PICK s \in BOOLEAN : ReceiveRejection(s)
      BY <2>1
    <3>2. call.pc = "sent" /\ call'.pc = "rejected" /\ UNCHANGED receipts /\ call'.key = call.key
      BY <1>0, <3>1 DEF ReceiveRejection, At, CallSet
    <3>3. Known(call.key.doc)'
      BY <3>2, OwnIsKnown DEF Known, BlankKey, Answered, receipts
    <3>4. \A r \in Folder!Live' : r.doc # call'.key.doc
      BY <3>2 DEF Folder!IInv, Folder!PayingCall, Folder!Paying, Folder!AfterReject, Folder!Waiting
    <3>5. \A r \in Live' : r.doc = call'.key.doc => r \in Folder!Live'
      BY <3>2, <3>3 DEF Live, Folder!Live, KnownInflight, KnownCharged
    <3> QED BY <3>4, <3>5 DEF UnsentIsFree
  <2>2. CASE Send
    <3>1. call'.pc = "sent"
      BY <1>0, <2>2 DEF Send, Goto, CallSet
    <3> QED BY <3>1 DEF UnsentIsFree, Unsent
  <2>3. CASE Extract
    <3>1. call.pc \in Unsent /\ ~Send
      BY <2>3 DEF Extract, At, Unsent, Send
    <3> QED BY <2>0, <3>1, MoneyFacts DEF UnsentIsFree
  <2>4. CASE \/ ClearProviderError \/ Cleared \/ WriteStarted \/ FailBeforeStarted \/ WriteProviderError
             \/ FailWriteProviderError \/ RemoveStarted \/ FallBack \/ Refuse
    <3>1. call.pc \in Unsent /\ ~Send
      BY <2>4 DEF ClearProviderError, Cleared, WriteStarted, FailBeforeStarted, WriteProviderError,
         FailWriteProviderError, RemoveStarted, FallBack, Refuse, At, Unsent, Send
    <3> QED BY <2>0, <3>1, MoneyFacts DEF UnsentIsFree
  <2>5. CASE LoseReply \/ (\E a \in Answers : ReceiveAnswer(a)) \/ WriteResponse \/ FailWriteResponse \/ Parse \/ FailParse
    <3>1. call'.pc \in {"blocked", "answered", "saved", "read"}
      BY <1>0, <2>5 DEF LoseReply, ReceiveAnswer, WriteResponse, FailWriteResponse, Parse, FailParse,
         FailAndGuard, Goto,
         CallSet
    <3> QED BY <3>1 DEF UnsentIsFree, Unsent
  <2> QED BY <1>2, <2>1, <2>2, <2>3, <2>4, <2>5 DEF CallStep
<1>3. CASE UNCHANGED call
  <2>1. ~Send
    BY <1>0, <1>3 DEF Send, At, Goto, CallSet
  <2> QED BY <1>3, <2>1, MoneyFacts DEF UnsentIsFree
<1>4. CASE call'.pc \in {"idle", "down"}
  BY <1>4 DEF UnsentIsFree, Unsent
<1> QED BY <1>1, <1>2, <1>3, <1>4

LEMMA ReadIsPaid ==
    ASSUME Folder!IInv, call.pc = "read"
    PROVE  \E r \in charged : r.doc = call.key.doc
<1>1. call.key \in Keys /\ response[call.key] # "none"
  BY CallFacts DEF Folder!IInv, Folder!FinishedCall
<1>2. [doc |-> call.key.doc, stamp |-> started[call.key]] \in KnownCharged
  BY <1>1, FolderWords DEF Folder!IInv, Folder!AnswersAreBilled
<1> QED BY <1>2 DEF KnownCharged

-----------------------------------------------------------------------------
(* What a step does to the jobs                                            *)

\* The attempt of j is given back, from a call that can have sent nothing.
Refund(j) ==
    /\ job' = [job EXCEPT ![j] = "pending"]
    /\ attempts' = [attempts EXCEPT ![j] = IF @ > 0 THEN @ - 1 ELSE 0]
    /\ UNCHANGED stored

\* The job j ends in the state s.
Closes(j, s) == job' = [job EXCEPT ![j] = s] /\ UNCHANGED attempts

Move ==
    \/ \E j \in Jobs : Enqueue(j) /\ UNCHANGED call
    \/ \E j \in Jobs : Claim(j) /\ UNCHANGED call
    \/ \E j \in Serving : Dispatch(j) /\ call.pc = "idle"
    \/ \E j \in Serving : /\ call.pc \in {"download", "refused"} /\ call'.pc = "idle"
                          /\ Refund(j)
    \/ \E j \in Serving, s \in {"closed", "rejected", "failed"} : /\ Closes(j, s) /\ UNCHANGED stored
                                                                  /\ call'.pc = "idle"
    \/ \E j \in Serving : /\ Closes(j, "done") /\ stored' = stored \cup {DocOf[j]} /\ call'.pc = "idle"
                          /\ call.pc = "read" \/ DocOf[j] \in stored
    \/ \E j \in Serving : Closes(j, "pending") /\ UNCHANGED stored /\ call'.pc = "down"
    \/ /\ UNCHANGED job /\ UNCHANGED attempts /\ UNCHANGED stored
       /\ CallStep \/ UNCHANGED call \/ call'.pc = "down"
    \/ /\ job' = [j \in Jobs |-> IF job[j] = "claimed" THEN "pending" ELSE job[j]]
       /\ UNCHANGED attempts /\ UNCHANGED stored /\ call'.pc = "idle"

LEMMA Moves ==
    ASSUME Folder!IInv, [JobsNext]_allVars
    PROVE  Move
<1>0. call \in CallSet
  BY CallFacts
<1>f. ASSUME NEW pc \in {"idle", "down"}, Finish(pc) PROVE call'.pc = pc
  BY <1>0, <1>f DEF Finish, CallSet
<1>1. ASSUME NEW j \in Jobs, Enqueue(j) \/ Claim(j) PROVE Move
  <2>1. UNCHANGED call
    BY <1>1 DEF Enqueue, Claim, vars
  <2> QED BY <1>1, <2>1 DEF Move
<1>2. ASSUME NEW j \in Jobs, Dispatch(j) PROVE Move
  BY <1>2 DEF Dispatch, At, Move
<1>3. ASSUME NEW j \in Jobs, PreserveReading(j) \/ Commit(j) PROVE Move
  <2>1. /\ j \in Serving /\ Closes(j, "done") /\ stored' = stored \cup {DocOf[j]} /\ call'.pc = "idle"
        /\ call.pc = "read" \/ DocOf[j] \in stored
    <3>1. CASE PreserveReading(j)
      BY <3>1 DEF PreserveReading, vars, At, SetJob, Closes
    <3>2. CASE Commit(j)
      BY <1>f, <3>2 DEF Commit, At, SetJob, Closes
    <3> QED BY <1>3, <3>1, <3>2
  <2> QED BY <2>1 DEF Move
<1>4. ASSUME NEW j \in Jobs, PreserveClosed(j) \/ HoldFailedJob(j) PROVE Move
  <2>1. PICK s \in {"closed", "failed"} : j \in Serving /\ Closes(j, s) /\ UNCHANGED stored /\ call'.pc = "idle"
    <3>1. CASE PreserveClosed(j)
      BY <3>1 DEF PreserveClosed, vars, At, SetJob, Closes
    <3>2. CASE HoldFailedJob(j)
      BY <1>f, <3>2 DEF HoldFailedJob, Hold, SetJob, Closes
    <3> QED BY <1>4, <3>1, <3>2
  <2> QED BY <2>1 DEF Move
<1>5. ASSUME NEW j \in Jobs, DeferForSource(j) \/ RejectAndPause(j) \/ RejectAndCount(j) PROVE Move
  <2>1. j \in Serving /\ call.pc \in {"download", "refused"} /\ call'.pc = "idle" /\ UNCHANGED stored
    BY <1>5, <1>f DEF DeferForSource, RejectAndPause, RejectAndCount, At
  <2>2. GiveBack(j) \/ Hold(j, "rejected")
    BY <1>5 DEF DeferForSource, RejectAndPause, RejectAndCount
  <2>3. CASE GiveBack(j)
    BY <2>1, <2>3 DEF GiveBack, SetJob, Refund, Move
  <2>4. CASE Hold(j, "rejected")
    BY <2>1, <2>4 DEF Hold, SetJob, Closes, Move
  <2> QED BY <2>2, <2>3, <2>4
<1>6. ASSUME NEW j \in Jobs, StopForAttention(j) PROVE Move
  <2>1. /\ j \in Serving /\ call'.pc = "down" /\ UNCHANGED attempts /\ UNCHANGED stored
        /\ UNCHANGED job \/ job' = [job EXCEPT ![j] = "pending"]
    BY <1>6, <1>f DEF StopForAttention
  <2> QED BY <2>1 DEF Closes, Move
<1>7. CASE CallProgress \/ Billing \/ EndPause \/ DeleteGuard \/ FreshFolder \/ UNCHANGED allVars
  <2>1. /\ UNCHANGED job /\ UNCHANGED attempts /\ UNCHANGED stored
        /\ CallStep \/ UNCHANGED call
    BY <1>7 DEF CallProgress, Billing, EndPause, DeleteGuard, FreshFolder, allVars, jobs, vars, ProviderCharges,
       RemoveGuard
  <2> QED BY <2>1 DEF Move
<1>8. CASE Die
  <2>1. UNCHANGED job /\ UNCHANGED attempts /\ UNCHANGED stored /\ call'.pc = "down"
    BY <1>8, <1>f DEF Die, Crash, jobs
  <2> QED BY <2>1 DEF Move
<1>9. CASE Start
  <2>1. call'.pc = "idle"
    BY <1>0, <1>9 DEF Start, Restart, Goto, CallSet
  <2> QED BY <1>9, <2>1 DEF Start, Move
<1> QED BY <1>1, <1>2, <1>3, <1>4, <1>5, <1>6, <1>7, <1>8, <1>9 DEF JobsNext, JobStep

\* Whatever the service does, what the folder knows keeps its invariant.
LEMMA FolderKeeps ==
    ASSUME FallbackStays, Folder!IInv, UnsentIsFree, [JobsNext]_allVars
    PROVE  Folder!IInv'
<1>1. [Next]_vars \/ FreshFolder
  BY JobsStepIsFolderStep
<1>2. CASE [Next]_vars
  <2>1. [Folder!Next]_Folder!vars
    BY <1>2, KnownStep
  <2>2. Folder!ReceiptsAssumption /\ Folder!FallbackStays
    BY ReceiptsAssumption DEF Folder!ReceiptsAssumption, Folder!FallbackStays, FallbackStays
  <2> QED BY <2>1, <2>2, Folder!NextKeeps
<1>3. CASE FreshFolder
  BY <1>3, FreshFolderKeeps
<1> QED BY <1>1, <1>2, <1>3

\* The words of Live, the calls of a job and what it may have sent.
LEMMA DispatchFacts ==
    ASSUME Folder!IInv, CallHasJob, SendsAreCounted, NEW j \in Serving, Dispatch(j), call.pc = "idle"
    PROVE  /\ DocOf[j] \in Documents /\ call'.pc # "idle" /\ call'.pc # "down" /\ call'.key.doc = DocOf[j]
           /\ BeginRecovery(DocOf[j]) \/ (BeginNew(DocOf[j]) /\ \A r \in Live : r.doc # DocOf[j])
<1>1. DocOf[j] \in Documents /\ j \in Jobs /\ job[j] = "claimed"
  BY JobsAssumption DEF Serving
<1>2. CASE BeginRecovery(DocOf[j])
  <2>1. PICK d \in Documents : d = DocOf[j]
    BY <1>1
  <2>2. PICK k \in ResolvedKeys(d) : call'.key = k /\ call'.pc \in {"read", "saved", "blocked", "download"}
    BY <1>2, <2>1, CallFacts DEF BeginRecovery, CallSet
  <2>3. k.doc = d
    BY <2>2, ResolvedFacts
  <2> QED BY <1>1, <1>2, <2>1, <2>2, <2>3
<1>3. CASE ~AttemptedBefore(j) /\ BeginNew(DocOf[j])
  <2>1. call'.pc = "download" /\ call'.key.doc = DocOf[j]
    BY <1>3, CallFacts DEF BeginNew, CallSet, Key
  <2>2. ASSUME NEW r \in Live, r.doc = DocOf[j] PROVE FALSE
    <3>1. PICK i \in Jobs : DocOf[i] = r.doc /\ Spent(i)
      BY DEF SendsAreCounted
    <3>2. attempts[i] \in Nat /\ attempts[j] \in Nat
      BY <1>1, JobsAssumption DEF CallHasJob
    <3>3. attempts[i] > 0
      BY <3>1, <3>2 DEF Spent
    <3>4. i = j
      BY <1>1, <1>3, <2>2, <3>1, <3>3 DEF AttemptedBefore, Siblings
    <3> QED BY <1>1, <1>3, <3>1, <3>2, <3>4 DEF Spent, AttemptedBefore
  <2> QED BY <1>1, <1>3, <2>1, <2>2
<1> QED BY <1>2, <1>3 DEF Dispatch

\* The claimed job leaves its state, and no job is claimed any more.
LEMMA JobLeaves ==
    ASSUME CallHasJob, NEW j \in Serving, NEW s \in JobStates \ {"claimed"}, job' = [job EXCEPT ![j] = s]
    PROVE  job' \in [Jobs -> JobStates] /\ Serving' = {} /\ j \in Jobs /\ job'[j] = s
           /\ \A i \in Jobs : i # j => job'[i] = job[i]
BY DEF CallHasJob, Serving

LEMMA RefundFacts ==
    ASSUME CallHasJob, NEW j \in Serving, Refund(j)
    PROVE  /\ attempts' \in [Jobs -> 0..MaxAttempts] /\ attempts'[j] = attempts[j] - 1
           /\ \A i \in Jobs : i # j => attempts'[i] = attempts[i]
<1>1. j \in Jobs /\ attempts[j] \in 0..MaxAttempts /\ attempts[j] >= 1
  BY DEF CallHasJob, Serving
<1>2. PICK n \in 0..MaxAttempts : n = attempts[j] /\ n >= 1
  BY <1>1
<1>3. attempts' = [attempts EXCEPT ![j] = IF n > 0 THEN n - 1 ELSE 0]
  BY <1>2 DEF Refund
<1>4. PICK m \in 0..MaxAttempts : m = n - 1 /\ m = (IF n > 0 THEN n - 1 ELSE 0)
  BY <1>2, JobsAssumption
<1>5. attempts' = [attempts EXCEPT ![j] = m]
  BY <1>3, <1>4
<1> QED BY <1>1, <1>2, <1>4, <1>5 DEF CallHasJob

LEMMA ClaimFacts ==
    ASSUME CallHasJob, NEW j \in Jobs, Claim(j)
    PROVE  /\ Serving = {} /\ Serving' = {j} /\ call.pc = "idle" /\ job' = [job EXCEPT ![j] = "claimed"]
           /\ attempts' \in [Jobs -> 0..MaxAttempts] /\ attempts'[j] >= 1 /\ attempts'[j] >= attempts[j]
           /\ attempts[j] > 0 => attempts'[j] > 1
           /\ \A i \in Jobs : i # j => attempts'[i] = attempts[i] /\ job'[i] = job[i]
<1>1. Serving = {} /\ call.pc = "idle" /\ job' = [job EXCEPT ![j] = "claimed"]
  BY DEF Claim, SetJob, At
<1>2. Serving' = {j} /\ \A i \in Jobs : i # j => job'[i] = job[i]
  BY <1>1 DEF Serving, CallHasJob
<1>3. PICK n \in 0..MaxAttempts : n = attempts[j]
  BY DEF CallHasJob
<1>4. PICK m \in 0..MaxAttempts : m = (IF n < MaxAttempts THEN n + 1 ELSE n)
  BY JobsAssumption
<1>5. attempts' = [attempts EXCEPT ![j] = m]
  BY <1>3, <1>4 DEF Claim
<1>6. m >= 1 /\ m >= n /\ (n > 0 => m > 1)
  BY <1>4, JobsAssumption
<1> QED BY <1>1, <1>2, <1>3, <1>5, <1>6 DEF CallHasJob

LEMMA CallHasJobKeeps ==
    ASSUME Folder!IInv, CallHasJob, SendsAreCounted, [JobsNext]_allVars
    PROVE  CallHasJob'
<1>0. Move
  BY Moves
<1>1. ASSUME NEW j \in Jobs, Enqueue(j), UNCHANGED call PROVE CallHasJob'
  <2>1. Serving = {} /\ job' = [job EXCEPT ![j] = "pending"] /\ UNCHANGED attempts
    BY <1>1 DEF Enqueue, SetJob
  <2>2. Serving' = {} /\ job' \in [Jobs -> JobStates]
    BY <2>1 DEF Serving, CallHasJob, JobStates
  <2> QED BY <1>1, <2>1, <2>2 DEF CallHasJob
<1>2. ASSUME NEW j \in Jobs, Claim(j), UNCHANGED call PROVE CallHasJob'
  <2>1. job' \in [Jobs -> JobStates]
    BY <1>2, ClaimFacts DEF CallHasJob, JobStates
  <2> QED BY <1>2, <2>1, ClaimFacts DEF CallHasJob
<1>3. ASSUME NEW j \in Serving, Dispatch(j), call.pc = "idle" PROVE CallHasJob'
  <2>1. UNCHANGED job /\ UNCHANGED attempts
    BY <1>3 DEF Dispatch, jobs
  <2>2. Serving' = Serving
    BY <2>1 DEF Serving
  <2> QED BY <1>3, <2>1, <2>2, DispatchFacts DEF CallHasJob
<1>4. ASSUME NEW j \in Serving, Refund(j), call'.pc = "idle" PROVE CallHasJob'
  <2>1. job' \in [Jobs -> JobStates] /\ Serving' = {}
    BY <1>4, JobLeaves DEF Refund, JobStates
  <2> QED BY <1>4, <2>1, RefundFacts DEF CallHasJob
<1>5. ASSUME NEW j \in Serving, NEW s \in JobStates \ {"claimed"}, Closes(j, s), call'.pc \in {"idle", "down"}
      PROVE  CallHasJob'
  <2>1. job' \in [Jobs -> JobStates] /\ Serving' = {} /\ UNCHANGED attempts
    BY <1>5, JobLeaves DEF Closes
  <2> QED BY <1>5, <2>1 DEF CallHasJob
<1>6. ASSUME UNCHANGED job, UNCHANGED attempts, CallStep \/ UNCHANGED call \/ call'.pc = "down" PROVE CallHasJob'
  <2>1. Serving' = Serving
    BY <1>6 DEF Serving
  <2>2. CASE CallStep
    BY <1>6, <2>1, <2>2, CallStepFacts DEF CallHasJob
  <2>3. CASE UNCHANGED call \/ call'.pc = "down"
    BY <1>6, <2>1, <2>3 DEF CallHasJob
  <2> QED BY <1>6, <2>2, <2>3
<1>7. ASSUME job' = [j \in Jobs |-> IF job[j] = "claimed" THEN "pending" ELSE job[j]],
             UNCHANGED attempts, call'.pc = "idle"
      PROVE  CallHasJob'
  <2>1. Serving' = {} /\ job' \in [Jobs -> JobStates]
    BY <1>7 DEF Serving, CallHasJob, JobStates
  <2> QED BY <1>7, <2>1 DEF CallHasJob
<1> QED BY <1>0, <1>1, <1>2, <1>3, <1>4, <1>5, <1>6, <1>7 DEF Move, JobStates

\* An attempt that may have sent something still may have in the new state.
LEMMA SpentStays ==
    ASSUME NEW i \in Jobs, Spent(i), attempts'[i] = attempts[i],
           job'[i] = job[i] \/ job'[i] # "claimed", call.pc = "idle" \/ call'.pc # "idle" \/ job'[i] # "claimed"
    PROVE  Spent(i)'
BY DEF Spent

LEMMA SendsAreCountedKeeps ==
    ASSUME Folder!IInv, CallHasJob, SendsAreCounted, UnsentIsFree, [JobsNext]_allVars
    PROVE  SendsAreCounted'
<1>0. Move /\ (Live' \subseteq Live \/ (Send /\ Live' = Live \cup {Request})) /\ call \in CallSet
  BY Moves, JobsStepIsFolderStep, MoneyFacts, CallFacts
<1>q. ASSUME ~Send, NEW r \in Live'
      PROVE  \E i \in Jobs : DocOf[i] = r.doc /\ Spent(i)
  BY <1>0, <1>q DEF SendsAreCounted
<1>p. ASSUME UNCHANGED call PROVE ~Send
  BY <1>0, <1>p DEF Send, At, Goto, CallSet
<1>s. ASSUME call'.pc \in {"idle", "down"} PROVE ~Send
  BY <1>0, <1>s DEF Send, At, Goto, CallSet
<1>1. ASSUME NEW j \in Jobs, Enqueue(j), UNCHANGED call PROVE SendsAreCounted'
  <2>1. job' = [job EXCEPT ![j] = "pending"] /\ UNCHANGED attempts /\ job[j] = "absent"
    BY <1>1 DEF Enqueue, SetJob
  <2>2. \A i \in Jobs : job'[i] = job[i] \/ job'[i] # "claimed"
    BY <2>1 DEF CallHasJob
  <2>3. \A i \in Jobs : Spent(i) => Spent(i)'
    BY <1>1, <2>1, <2>2 DEF Spent
  <2> QED BY <1>1, <1>p, <1>q, <2>3 DEF SendsAreCounted
<1>2. ASSUME NEW j \in Jobs, Claim(j), UNCHANGED call PROVE SendsAreCounted'
  <2>1. ASSUME NEW i \in Jobs, Spent(i) PROVE Spent(i)'
    <3>1. CASE i # j
      BY <1>2, <2>1, <3>1, ClaimFacts DEF Spent
    <3>2. CASE i = j
      <4>1. attempts[j] > 0
        BY <2>1, <3>2, JobsAssumption DEF Spent, CallHasJob
      <4> QED BY <1>2, <3>2, <4>1, ClaimFacts DEF Spent
    <3> QED BY <3>1, <3>2
  <2> QED BY <1>2, <1>p, <1>q, <2>1 DEF SendsAreCounted
<1>3. ASSUME NEW j \in Serving, Dispatch(j), call.pc = "idle" PROVE SendsAreCounted'
  <2>1. UNCHANGED job /\ UNCHANGED attempts /\ call'.pc # "idle"
    BY <1>3, DispatchFacts DEF Dispatch, jobs
  <2>2. \A i \in Jobs : Spent(i) => Spent(i)'
    BY <2>1 DEF Spent
  <2>3. ~Send
    BY <1>3 DEF Send, At
  <2> QED BY <1>q, <2>2, <2>3 DEF SendsAreCounted
<1>4. ASSUME NEW j \in Serving, call.pc \in {"download", "refused"}, Refund(j), call'.pc = "idle"
      PROVE  SendsAreCounted'
  <2>1. DocOf[j] = call.key.doc
    BY <1>4 DEF CallHasJob
  <2>2. \A r \in Live : r.doc # DocOf[j]
    BY <1>4, <2>1 DEF UnsentIsFree, Unsent
  <2>3. ~Send
    BY <1>4, <1>s
  <2>4. ASSUME NEW r \in Live' PROVE \E i \in Jobs : DocOf[i] = r.doc /\ Spent(i)'
    <3>1. r \in Live
      BY <1>0, <2>3
    <3>2. PICK i \in Jobs : DocOf[i] = r.doc /\ Spent(i)
      BY <1>q, <2>3
    <3>3. i # j
      BY <2>2, <3>1, <3>2
    <3>4. attempts'[i] = attempts[i] /\ (job'[i] = job[i] \/ job'[i] # "claimed")
      BY <1>4, <3>3, RefundFacts, JobLeaves DEF Refund, JobStates
    <3>5. job'[i] # "claimed"
      BY <1>4, <3>3, JobLeaves DEF Refund, JobStates, Serving
    <3> QED BY <3>2, <3>4, <3>5, SpentStays
  <2> QED BY <2>4 DEF SendsAreCounted
<1>5. ASSUME NEW j \in Serving, NEW s \in JobStates \ {"claimed"}, Closes(j, s), call'.pc \in {"idle", "down"}
      PROVE  SendsAreCounted'
  <2>1. Serving' = {} /\ UNCHANGED attempts
    BY <1>5, JobLeaves DEF Closes
  <2>2. \A i \in Jobs : Spent(i) => Spent(i)'
    BY <2>1 DEF Spent, Serving
  <2> QED BY <1>5, <1>s, <1>q, <2>2 DEF SendsAreCounted
<1>6. ASSUME UNCHANGED job, UNCHANGED attempts, CallStep \/ UNCHANGED call \/ call'.pc = "down"
      PROVE  SendsAreCounted'
  <2>1. UNCHANGED call \/ call'.pc # "idle"
    BY <1>6, CallStepFacts
  <2>2. \A i \in Jobs : Spent(i) => Spent(i)'
    BY <1>6, <2>1 DEF Spent
  <2>3. CASE Live' \subseteq Live
    BY <2>2, <2>3 DEF SendsAreCounted
  <2>4. CASE Send /\ Live' = Live \cup {Request}
    <3>1. call.pc = "sending" /\ call'.pc = "sent"
      BY <1>0, <2>4 DEF Send, At, Goto, CallSet
    <3>2. PICK j \in Serving : DocOf[j] = Request.doc
      BY <3>1 DEF CallHasJob, Request
    <3>3. j \in Jobs /\ attempts[j] >= 1 /\ attempts[j] \in 0..MaxAttempts
      BY DEF CallHasJob, Serving
    <3>4. Spent(j)'
      BY <1>6, <3>1, <3>3, JobsAssumption DEF Spent
    <3> QED BY <2>2, <2>4, <3>2, <3>3, <3>4 DEF SendsAreCounted
  <2> QED BY <1>0, <2>3, <2>4
<1>7. ASSUME job' = [j \in Jobs |-> IF job[j] = "claimed" THEN "pending" ELSE job[j]],
             UNCHANGED attempts, call'.pc = "idle"
      PROVE  SendsAreCounted'
  <2>1. \A i \in Jobs : job'[i] # "claimed"
    BY <1>7
  <2>2. \A i \in Jobs : Spent(i) => Spent(i)'
    BY <1>7, <2>1 DEF Spent
  <2> QED BY <1>7, <1>s, <1>q, <2>2 DEF SendsAreCounted
<1> QED BY <1>0, <1>1, <1>2, <1>3, <1>4, <1>5, <1>6, <1>7 DEF Move, JobStates

LEMMA DoneWasPaidKeeps ==
    ASSUME Folder!IInv, CallHasJob, DoneWasPaid, [JobsNext]_allVars
    PROVE  DoneWasPaid'
<1>0. Move /\ charged \subseteq charged'
  BY Moves, JobsStepIsFolderStep, MoneyFacts
<1>1. ASSUME UNCHANGED stored, \A i \in Jobs : job'[i] = "done" => job[i] = "done" PROVE DoneWasPaid'
  BY <1>0, <1>1 DEF DoneWasPaid
<1>2. ASSUME NEW j \in Jobs, Enqueue(j) \/ Claim(j) PROVE DoneWasPaid'
  <2>1. PICK s \in {"pending", "claimed"} : job' = [job EXCEPT ![j] = s] /\ UNCHANGED stored
    BY <1>2 DEF Enqueue, Claim, SetJob
  <2> QED BY <1>1, <2>1 DEF CallHasJob
<1>3. ASSUME NEW j \in Serving, Dispatch(j) PROVE DoneWasPaid'
  BY <1>1, <1>3 DEF Dispatch, jobs
<1>4. ASSUME NEW j \in Serving, NEW s \in JobStates \ {"claimed", "done"}, job' = [job EXCEPT ![j] = s],
             UNCHANGED stored
      PROVE  DoneWasPaid'
  BY <1>1, <1>4, JobLeaves
<1>5. ASSUME NEW j \in Serving, Closes(j, "done"), stored' = stored \cup {DocOf[j]},
             call.pc = "read" \/ DocOf[j] \in stored
      PROVE  DoneWasPaid'
  <2>1. \A i \in Jobs : job'[i] = "done" => DocOf[i] \in stored'
    BY <1>5, JobLeaves DEF Closes, JobStates, DoneWasPaid
  <2>2. \E r \in charged : r.doc = DocOf[j]
    <3>1. CASE call.pc = "read"
      BY <3>1, ReadIsPaid DEF CallHasJob
    <3>2. CASE DocOf[j] \in stored
      BY <3>2 DEF DoneWasPaid
    <3> QED BY <1>5, <3>1, <3>2
  <2> QED BY <1>0, <1>5, <2>1, <2>2 DEF DoneWasPaid
<1>6. ASSUME job' = [j \in Jobs |-> IF job[j] = "claimed" THEN "pending" ELSE job[j]], UNCHANGED stored
      PROVE  DoneWasPaid'
  BY <1>1, <1>6
<1> QED BY <1>0, <1>1, <1>2, <1>3, <1>4, <1>5, <1>6 DEF Move, Refund, Closes, JobStates

\* What the reading jobs keep, on any folder and through fresh ones.
JobsInv ==
    /\ Folder!IInv
    /\ PaidAtMostOnce
    /\ CallHasJob
    /\ SendsAreCounted
    /\ UnsentIsFree
    /\ DoneWasPaid

LEMMA InitJobsInv == JobsInit => JobsInv
<1> SUFFICES ASSUME JobsInit PROVE JobsInv
  OBVIOUS
<1>1. Init /\ call.pc = "down" /\ Live = {}
  BY DEF JobsInit, Init, Live
<1>2. KnownInflight = {} /\ KnownCharged = {}
  BY <1>1 DEF Live, KnownInflight, KnownCharged
<1>3. Folder!ReceiptsAssumption
  BY ReceiptsAssumption DEF Folder!ReceiptsAssumption
<1>4. Folder!Init
  BY <1>1, <1>2, FolderWords DEF Init, Folder!Init, Generations, Folder!Generations
<1>5. Folder!IInv
  BY <1>3, <1>4, Folder!InitIInv
<1>6. CallHasJob
  <2>1. Serving = {} /\ job \in [Jobs -> JobStates]
    BY DEF JobsInit, Serving, JobStates
  <2>2. attempts \in [Jobs -> 0..MaxAttempts]
    BY JobsAssumption DEF JobsInit
  <2> QED BY <1>1, <2>1, <2>2 DEF CallHasJob
<1>7. DoneWasPaid
  BY DEF JobsInit, DoneWasPaid
<1> QED BY <1>1, <1>5, <1>6, <1>7 DEF JobsInv, PaidAtMostOnce, SendsAreCounted, UnsentIsFree

LEMMA JobsInvKeeps ==
    ASSUME FallbackStays, JobsInv, [JobsNext]_allVars
    PROVE  JobsInv'
<1>1. Folder!IInv /\ PaidAtMostOnce /\ CallHasJob /\ SendsAreCounted /\ UnsentIsFree /\ DoneWasPaid
  BY DEF JobsInv
<1>2. [Next]_vars \/ FreshFolder
  BY JobsStepIsFolderStep
<1>3. Folder!IInv'
  BY <1>1, FolderKeeps
<1>4. PaidAtMostOnce'
  BY <1>1, <1>2, PaidKeeps
<1>5. CallHasJob' /\ SendsAreCounted' /\ DoneWasPaid'
  BY <1>1, CallHasJobKeeps, SendsAreCountedKeeps, DoneWasPaidKeeps
<1>6. UnsentIsFree'
  <2>1. Move
    BY <1>1, Moves
  <2>2. \/ UNCHANGED call \/ call'.pc \in {"idle", "down"} \/ CallStep
        \/ \E d \in Documents : BeginRecovery(d) \/ (BeginNew(d) /\ \A r \in Live : r.doc # d)
    BY <1>1, <2>1, DispatchFacts DEF Move
  <2> QED BY <1>1, <1>2, <1>3, <2>2, UnsentKeeps
<1> QED BY <1>3, <1>4, <1>5, <1>6 DEF JobsInv

\* The invariant holds in every behaviour of the coordinator.
THEOREM JobsInvariance == FallbackStays => (JobsSpec => []JobsInv)
<1> SUFFICES ASSUME FallbackStays PROVE JobsSpec => []JobsInv
  OBVIOUS
<1>1. JobsInv /\ [JobsNext]_allVars => JobsInv'
  BY JobsInvKeeps
<1> QED BY <1>1, InitJobsInv, PTL DEF JobsSpec

\* No document is paid twice, whatever happens to its jobs and to the service,
\* also when an operator gives the service a fresh folder: the attempts of the
\* job rows then stand in for the receipts (same_runtime_attempt).
THEOREM JobsPayOnce == FallbackStays => (JobsSpec => []PaidAtMostOnce)
<1>1. JobsInv => PaidAtMostOnce
  BY DEF JobsInv
<1> QED BY <1>1, JobsInvariance, PTL

\* A finished reading job has its extraction stored, and a billed request of
\* that very document stands behind every stored extraction (Commit).
THEOREM DoneWasAlwaysPaid == FallbackStays => (JobsSpec => []DoneWasPaid)
<1>1. JobsInv => DoneWasPaid
  BY DEF JobsInv
<1> QED BY <1>1, JobsInvariance, PTL

LEMMA RefundIsFree ==
    ASSUME JobsInv, [JobsNext]_allVars, NEW j \in Jobs, attempts'[j] < attempts[j], NEW r \in Live'
    PROVE  r.doc # DocOf[j]
<1>0. Folder!IInv /\ CallHasJob /\ UnsentIsFree /\ Move
  BY Moves DEF JobsInv
<1>1. attempts[j] \in Nat
  BY <1>0, JobsAssumption DEF CallHasJob
<1>2. ~UNCHANGED attempts
  BY <1>1
<1>3. \A i \in Jobs : ~Enqueue(i) /\ ~Dispatch(i)
  BY <1>2 DEF Enqueue, Dispatch, jobs
<1>4. \A i \in Jobs : Claim(i) => attempts'[j] >= attempts[j]
  BY <1>0, ClaimFacts
<1>5. PICK i \in Serving : call.pc \in {"download", "refused"} /\ call'.pc = "idle" /\ Refund(i)
  <2>1. \A i \in Jobs : ~Claim(i)
    <3>1. ASSUME NEW i \in Jobs, Claim(i) PROVE FALSE
      <4>1. attempts' \in [Jobs -> 0..MaxAttempts]
        BY <1>0, <3>1, ClaimFacts
      <4>2. attempts'[j] \in Nat
        BY <4>1, JobsAssumption
      <4> QED BY <1>1, <1>4, <3>1, <4>2
    <3> QED BY <3>1
  <2>2. \A i \in Serving : i \in Jobs
    BY DEF Serving
  <2> QED BY <1>0, <1>2, <1>3, <2>1, <2>2 DEF Move, Closes
<1>6. i = j
  BY <1>0, <1>1, <1>5, RefundFacts
<1>7. DocOf[j] = call.key.doc /\ \A s \in Live : s.doc # call.key.doc
  BY <1>0, <1>5, <1>6 DEF CallHasJob, UnsentIsFree, Unsent
<1>8. ~Send
  BY <1>0, <1>5 DEF Send, At
<1>9. Live' \subseteq Live
  BY <1>8, JobsStepIsFolderStep, MoneyFacts
<1> QED BY <1>7, <1>9

\* An attempt goes back to its job only when nothing of the document was sent
\* or can be billed any more (DEFER_FOR_SOURCE_SQL, reject_reading).
THEOREM RefundsAreAlwaysFree == FallbackStays => (JobsSpec => RefundsAreFree)
<1>1. JobsInv /\ [JobsNext]_allVars
        => [\A j \in Jobs : attempts'[j] < attempts[j] => \A r \in Live' : r.doc # DocOf[j]]_allVars
  BY RefundIsFree
<1> QED BY <1>1, JobsInvariance, PTL DEF JobsSpec, RefundsAreFree

-----------------------------------------------------------------------------
(* The rows and the order of the open jobs                                 *)

\* QueueAgrees, for a queue and rows that may be those of the next state.
Open(jb) == {j \in Jobs : jb[j] \in {"pending", "claimed"}}
Lists(q, S) ==
    /\ q \in Seq(Jobs)
    /\ \A i, k \in 1..Len(q) : q[i] = q[k] => i = k
    /\ \A j \in Jobs : j \in S <=> \E i \in 1..Len(q) : q[i] = j

LEMMA AddedLast ==
    ASSUME NEW q, NEW S, Lists(q, S), NEW j \in Jobs, j \notin S
    PROVE  Lists(Append(q, j), S \cup {j})
<1> DEFINE p == Append(q, j)
<1>1. /\ q \in Seq(Jobs) /\ Len(q) \in Nat /\ p \in Seq(Jobs) /\ Len(p) = Len(q) + 1 /\ p[Len(q) + 1] = j
      /\ \A i \in 1..Len(q) : p[i] = q[i] /\ q[i] \in Jobs /\ q[i] # j
  BY DEF Lists
<1> HIDE DEF p
<1>2. \A i \in 1..Len(p) : i \in 1..Len(q) \/ i = Len(q) + 1
  BY <1>1
<1>3. \A i, k \in 1..Len(p) : p[i] = p[k] => i = k
  BY <1>1, <1>2 DEF Lists
<1>4. \A n \in Jobs : n \in S \cup {j} <=> \E i \in 1..Len(p) : p[i] = n
  <2> TAKE n \in Jobs
  <2>1. ASSUME n = j PROVE \E i \in 1..Len(p) : p[i] = n
    BY <1>1, <2>1
  <2>2. ASSUME n \in S PROVE \E i \in 1..Len(p) : p[i] = n
    <3>1. PICK i \in 1..Len(q) : q[i] = n
      BY <2>2 DEF Lists
    <3>2. i \in 1..Len(p) /\ p[i] = n
      BY <1>1, <3>1
    <3> QED BY <3>2
  <2>3. ASSUME NEW i \in 1..Len(p), p[i] = n PROVE n \in S \cup {j}
    BY <1>1, <1>2, <2>3 DEF Lists
  <2> QED BY <2>1, <2>2, <2>3
<1>5. Lists(p, S \cup {j})
  BY <1>1, <1>3, <1>4 DEF Lists
<1> QED BY <1>5 DEF p

LEMMA AddedFirst ==
    ASSUME NEW q, NEW S, Lists(q, S), NEW j \in Jobs, j \notin S
    PROVE  Lists(<<j>> \o q, S \cup {j})
<1> DEFINE p == <<j>> \o q
<1>1. /\ q \in Seq(Jobs) /\ Len(q) \in Nat /\ p \in Seq(Jobs) /\ Len(p) = Len(q) + 1 /\ p[1] = j
      /\ \A i \in 1..Len(q) : p[i + 1] = q[i] /\ q[i] \in Jobs /\ q[i] # j
  BY DEF Lists
<1> HIDE DEF p
<1>2. \A i \in 1..Len(p) : i = 1 \/ (i - 1 \in 1..Len(q) /\ p[i] = q[i - 1])
  <2> TAKE i \in 1..Len(p)
  <2>1. ASSUME i # 1 PROVE i - 1 \in 1..Len(q) /\ (i - 1) + 1 = i
    BY <1>1, <2>1
  <2> QED BY <1>1, <2>1
<1>3. \A i, k \in 1..Len(p) : p[i] = p[k] => i = k
  <2> TAKE i, k \in 1..Len(p)
  <2> HAVE p[i] = p[k]
  <2>1. (i = 1) <=> (k = 1)
    BY <1>1, <1>2
  <2>2. CASE i # 1
    <3>1. i - 1 \in 1..Len(q) /\ k - 1 \in 1..Len(q) /\ q[i - 1] = q[k - 1]
      BY <1>2, <2>1, <2>2
    <3>2. i - 1 = k - 1
      BY <3>1 DEF Lists
    <3> QED BY <3>2
  <2> QED BY <2>1, <2>2
<1>4. \A n \in Jobs : n \in S \cup {j} <=> \E i \in 1..Len(p) : p[i] = n
  <2> TAKE n \in Jobs
  <2>1. ASSUME n = j PROVE \E i \in 1..Len(p) : p[i] = n
    <3>1. 1 \in 1..Len(p)
      BY <1>1
    <3> QED BY <1>1, <2>1, <3>1
  <2>2. ASSUME n \in S PROVE \E i \in 1..Len(p) : p[i] = n
    <3>1. PICK i \in 1..Len(q) : q[i] = n
      BY <2>2 DEF Lists
    <3>2. i + 1 \in 1..Len(p) /\ p[i + 1] = n
      BY <1>1, <3>1
    <3> QED BY <3>2
  <2>3. ASSUME NEW i \in 1..Len(p), p[i] = n PROVE n \in S \cup {j}
    BY <1>1, <1>2, <2>3 DEF Lists
  <2> QED BY <2>1, <2>2, <2>3
<1>5. Lists(p, S \cup {j})
  BY <1>1, <1>3, <1>4 DEF Lists
<1> QED BY <1>5 DEF p

LEMMA FirstLeaves ==
    ASSUME NEW q, NEW S, Lists(q, S), q # <<>>
    PROVE  Lists(Tail(q), S \ {Head(q)}) /\ Head(q) \in Jobs
<1> DEFINE p == Tail(q)
<1>1. /\ q \in Seq(Jobs) /\ Len(q) \in Nat /\ Len(q) >= 1 /\ p \in Seq(Jobs) /\ Len(p) = Len(q) - 1
      /\ Head(q) = q[1] /\ Head(q) \in Jobs /\ \A i \in 1..Len(p) : p[i] = q[i + 1]
  BY DEF Lists
<1> HIDE DEF p
<1>2. \A i \in 1..Len(p) : i + 1 \in 1..Len(q) /\ i + 1 # 1
  BY <1>1
<1>3. \A i, k \in 1..Len(p) : p[i] = p[k] => i = k
  <2> TAKE i, k \in 1..Len(p)
  <2> HAVE p[i] = p[k]
  <2>1. i + 1 = k + 1
    BY <1>1, <1>2 DEF Lists
  <2> QED BY <2>1
<1>4. \A n \in Jobs : n \in S \ {Head(q)} <=> \E i \in 1..Len(p) : p[i] = n
  <2> TAKE n \in Jobs
  <2>1. ASSUME n \in S, n # Head(q) PROVE \E i \in 1..Len(p) : p[i] = n
    <3>1. PICK i \in 1..Len(q) : q[i] = n
      BY <2>1 DEF Lists
    <3>2. i # 1
      BY <1>1, <2>1, <3>1
    <3>3. i - 1 \in 1..Len(p) /\ (i - 1) + 1 = i
      BY <1>1, <3>2
    <3> QED BY <1>1, <3>1, <3>3
  <2>2. ASSUME NEW i \in 1..Len(p), p[i] = n PROVE n \in S \ {Head(q)}
    <3>1. q[i + 1] = n /\ i + 1 \in 1..Len(q) /\ 1 \in 1..Len(q)
      BY <1>1, <1>2, <2>2
    <3>2. n # Head(q)
      BY <1>1, <1>2, <3>1 DEF Lists
    <3> QED BY <3>1, <3>2 DEF Lists
  <2> QED BY <2>1, <2>2
<1>5. Lists(p, S \ {Head(q)})
  BY <1>1, <1>3, <1>4 DEF Lists
<1> QED BY <1>1, <1>5 DEF p

\* The queue lists the open jobs, and the one in service is its first.
QueueLists == Lists(queue, Open(job)) /\ \A j \in Serving : queue # <<>> /\ Head(queue) = j

LEMMA ListsAgrees == ASSUME queue \in Seq(Jobs) PROVE QueueLists <=> QueueAgrees
<1>1. DOMAIN queue = 1..Len(queue)
  OBVIOUS
<1> QED BY <1>1 DEF QueueLists, QueueAgrees, Lists, Open

\* What a step does to the queue, beside what it does to the row.
QueueMove ==
    \/ \E j \in Jobs :
         /\ Serving = {} /\ job[j] = "absent" /\ job' = [job EXCEPT ![j] = "pending"]
         /\ queue' \in {<<j>> \o queue, Append(queue, j)}
    \/ \E j \in Jobs :
         /\ queue # <<>> /\ j = Head(queue) /\ Serving = {} /\ job' = [job EXCEPT ![j] = "claimed"]
         /\ UNCHANGED queue
    \/ \E j \in Serving :
         \/ \E s \in {"done", "closed", "rejected", "failed"} :
              job' = [job EXCEPT ![j] = s] /\ queue' = Tail(queue)
         \/ job' = [job EXCEPT ![j] = "pending"] /\ queue' = Append(Tail(queue), j)
         \/ job' = [job EXCEPT ![j] = "pending"] /\ UNCHANGED queue
    \/ job' = [j \in Jobs |-> IF job[j] = "claimed" THEN "pending" ELSE job[j]] /\ UNCHANGED queue
    \/ UNCHANGED job /\ UNCHANGED queue

LEMMA QueueMoves == ASSUME [JobsNext]_allVars PROVE QueueMove
<1>1. ASSUME NEW j \in Jobs, Enqueue(j) \/ Claim(j) PROVE QueueMove
  BY <1>1 DEF Enqueue, Claim, SetJob, QueueMove
<1>2. ASSUME NEW j \in Jobs, PreserveReading(j) \/ PreserveClosed(j) \/ Commit(j) PROVE QueueMove
  <2>1. \E s \in {"done", "closed"} : j \in Serving /\ job' = [job EXCEPT ![j] = s] /\ queue' = Tail(queue)
    BY <1>2 DEF PreserveReading, PreserveClosed, Commit, SetJob, Leave
  <2> QED BY <2>1 DEF QueueMove
<1>3. ASSUME NEW j \in Jobs, DeferForSource(j) \/ HoldFailedJob(j) \/ RejectAndPause(j) \/ RejectAndCount(j)
      PROVE  QueueMove
  <2>1. j \in Serving /\ (GiveBack(j) \/ Hold(j, "rejected") \/ Hold(j, "failed"))
    BY <1>3 DEF DeferForSource, HoldFailedJob, RejectAndPause, RejectAndCount
  <2>2. \/ \E s \in {"rejected", "failed"} : job' = [job EXCEPT ![j] = s] /\ queue' = Tail(queue)
        \/ job' = [job EXCEPT ![j] = "pending"] /\ queue' = Append(Tail(queue), j)
    BY <2>1 DEF GiveBack, Hold, SetJob, Leave, ToTheEnd
  <2> QED BY <2>1, <2>2 DEF QueueMove
<1>4. ASSUME NEW j \in Jobs, StopForAttention(j) PROVE QueueMove
  BY <1>4 DEF StopForAttention, QueueMove
<1>5. ASSUME NEW j \in Jobs, Dispatch(j) PROVE QueueMove
  BY <1>5 DEF Dispatch, jobs, QueueMove
<1>6. CASE CallProgress \/ Billing \/ EndPause \/ Die \/ DeleteGuard \/ FreshFolder \/ UNCHANGED allVars
  BY <1>6 DEF CallProgress, Billing, EndPause, Die, DeleteGuard, FreshFolder, allVars, jobs, QueueMove
<1>7. CASE Start
  BY <1>7 DEF Start, QueueMove
<1> QED BY <1>1, <1>2, <1>3, <1>4, <1>5, <1>6, <1>7 DEF JobsNext, JobStep

LEMMA QueueKeeps ==
    ASSUME CallHasJob, QueueLists, QueueMove
    PROVE  QueueLists'
<1>0. job \in [Jobs -> JobStates] /\ Lists(queue, Open(job)) /\ queue \in Seq(Jobs)
  BY DEF CallHasJob, QueueLists, Lists
<1>1. ASSUME NEW j \in Jobs, job[j] = "absent", Serving = {}, job' = [job EXCEPT ![j] = "pending"],
             queue' \in {<<j>> \o queue, Append(queue, j)}
      PROVE  QueueLists'
  <2>1. Open(job') = Open(job) \cup {j} /\ j \notin Open(job) /\ Serving' = {}
    BY <1>0, <1>1 DEF Open, Serving
  <2>2. Lists(<<j>> \o queue, Open(job) \cup {j}) /\ Lists(Append(queue, j), Open(job) \cup {j})
    BY <1>0, <2>1, AddedFirst, AddedLast, Zenon
  <2>3. Lists(queue', Open(job) \cup {j})
    <3> DEFINE p == <<j>> \o queue
               r == Append(queue, j)
    <3>1. Lists(p, Open(job) \cup {j}) /\ Lists(r, Open(job) \cup {j}) /\ (queue' = p \/ queue' = r)
      BY <1>1, <2>2, Zenon
    <3> HIDE DEF p, r
    <3> QED BY <3>1
  <2> QED BY <2>1, <2>3 DEF QueueLists, Open, Lists
<1>2. ASSUME NEW j \in Jobs, queue # <<>>, j = Head(queue), Serving = {},
             job' = [job EXCEPT ![j] = "claimed"], UNCHANGED queue
      PROVE  QueueLists'
  <2>1. 1 \in 1..Len(queue) /\ queue[1] = j
    BY <1>0, <1>2
  <2>2. j \in Open(job)
    BY <1>0, <2>1 DEF Lists
  <2>3. Open(job') = Open(job) /\ Serving' = {j}
    BY <1>0, <1>2, <2>2 DEF Open, Serving
  <2> QED BY <1>0, <1>2, <2>3 DEF QueueLists, Open, Lists
<1>3. ASSUME NEW j \in Serving, NEW s \in {"done", "closed", "rejected", "failed"},
             job' = [job EXCEPT ![j] = s], queue' = Tail(queue)
      PROVE  QueueLists'
  <2>1. queue # <<>> /\ Head(queue) = j
    BY DEF QueueLists
  <2>2. Open(job') = Open(job) \ {j} /\ Serving' = {}
    <3>1. Serving' = {} /\ j \in Jobs /\ job'[j] = s /\ \A i \in Jobs : i # j => job'[i] = job[i]
      BY <1>3, JobLeaves DEF JobStates
    <3> QED BY <3>1 DEF Open
  <2>3. Lists(queue', Open(job'))
    BY <1>0, <1>3, <2>1, <2>2, FirstLeaves
  <2> QED BY <2>2, <2>3 DEF QueueLists, Open, Lists
<1>4. ASSUME NEW j \in Serving, job' = [job EXCEPT ![j] = "pending"], queue' = Append(Tail(queue), j)
      PROVE  QueueLists'
  <2>1. queue # <<>> /\ Head(queue) = j
    BY DEF QueueLists
  <2>2. Serving' = {} /\ j \in Jobs /\ job[j] = "claimed" /\ job'[j] = "pending"
        /\ \A i \in Jobs : i # j => job'[i] = job[i]
    BY <1>4, JobLeaves DEF JobStates, Serving
  <2>3. Open(job') = (Open(job) \ {j}) \cup {j}
    BY <2>2 DEF Open
  <2>4. Lists(Tail(queue), Open(job) \ {j})
    BY <1>0, <2>1, FirstLeaves
  <2>5. Lists(queue', Open(job'))
    <3>1. Lists(Append(Tail(queue), j), (Open(job) \ {j}) \cup {j})
      <4>1. j \notin Open(job) \ {j}
        OBVIOUS
      <4> QED BY <2>2, <2>4, <4>1, AddedLast, Zenon
    <3> QED BY <1>4, <2>3, <3>1, Zenon
  <2> QED BY <2>2, <2>5 DEF QueueLists, Open, Lists
<1>5. ASSUME NEW j \in Serving, job' = [job EXCEPT ![j] = "pending"], UNCHANGED queue PROVE QueueLists'
  <2>1. Serving' = {} /\ j \in Jobs /\ job[j] = "claimed" /\ job'[j] = "pending"
        /\ \A i \in Jobs : i # j => job'[i] = job[i]
    BY <1>5, JobLeaves DEF JobStates, Serving
  <2>2. Open(job') = Open(job)
    BY <2>1 DEF Open
  <2> QED BY <1>0, <1>5, <2>1, <2>2 DEF QueueLists, Open, Lists
<1>6. ASSUME job' = [j \in Jobs |-> IF job[j] = "claimed" THEN "pending" ELSE job[j]], UNCHANGED queue
      PROVE  QueueLists'
  <2>1. Serving' = {} /\ Open(job') = Open(job)
    BY <1>6 DEF Serving, Open
  <2> QED BY <1>0, <1>6, <2>1 DEF QueueLists, Open, Lists
<1>7. ASSUME UNCHANGED job, UNCHANGED queue PROVE QueueLists'
  BY <1>7 DEF QueueLists, Open, Lists, Serving
<1> QED BY <1>1, <1>2, <1>3, <1>4, <1>5, <1>6, <1>7 DEF QueueMove

\* A job whose last allowed rejection was counted is under manual review for good.
RejectionsOK ==
    /\ rejections \in [Jobs -> 0..ProviderErrorLimit]
    /\ \A j \in Jobs : rejections[j] = ProviderErrorLimit => job[j] = "rejected"

LEMMA RejectionsKeep ==
    ASSUME CallHasJob, RejectionsOK, QueueLists, [JobsNext]_allVars
    PROVE  RejectionsOK'
<1>0. QueueMove /\ job \in [Jobs -> JobStates]
  BY QueueMoves DEF CallHasJob
<1>1. \A j \in Jobs : job[j] = "rejected" => job'[j] = "rejected"
  <2>1. ASSUME NEW j \in Jobs, job[j] = "absent", NEW s, job' = [job EXCEPT ![j] = s],
               NEW i \in Jobs, job[i] = "rejected"
        PROVE  job'[i] = "rejected"
    BY <1>0, <2>1
  <2>2. ASSUME NEW j \in Jobs, j = Head(queue), queue # <<>>, NEW s, job' = [job EXCEPT ![j] = s],
               NEW i \in Jobs, job[i] = "rejected"
        PROVE  job'[i] = "rejected"
    <3>1. queue \in Seq(Jobs) /\ 1 \in 1..Len(queue) /\ queue[1] = j
      BY <2>2 DEF QueueLists, Lists
    <3>2. job[j] # "rejected"
      BY <3>1 DEF QueueLists, Lists, Open
    <3> QED BY <1>0, <2>2, <3>2
  <2>3. ASSUME NEW j \in Serving, NEW s, job' = [job EXCEPT ![j] = s], NEW i \in Jobs, job[i] = "rejected"
        PROVE  job'[i] = "rejected"
    BY <1>0, <2>3 DEF Serving
  <2>4. CASE job' = [j \in Jobs |-> IF job[j] = "claimed" THEN "pending" ELSE job[j]]
    BY <2>4
  <2> QED BY <1>0, <2>1, <2>2, <2>3, <2>4 DEF QueueMove
<1>2. CASE UNCHANGED rejections
  BY <1>1, <1>2 DEF RejectionsOK
<1>3. ASSUME NEW j \in Jobs, RejectAndCount(j) PROVE RejectionsOK'
  <2>1. j \in Serving /\ job[j] = "claimed"
    BY <1>3 DEF RejectAndCount, Serving
  <2>2. PICK n \in 0..ProviderErrorLimit : n = rejections[j] /\ n # ProviderErrorLimit
    BY <2>1 DEF RejectionsOK
  <2>3. n + 1 \in 0..ProviderErrorLimit /\ (n + 1 >= ProviderErrorLimit <=> n + 1 = ProviderErrorLimit)
    BY <2>2, JobsAssumption
  <2>4. rejections' = [rejections EXCEPT ![j] = n + 1]
    BY <1>3, <2>2 DEF RejectAndCount
  <2>5. n + 1 = ProviderErrorLimit => job' = [job EXCEPT ![j] = "rejected"]
    BY <1>3, <2>2, <2>3 DEF RejectAndCount, Hold, SetJob
  <2>6. \A i \in Jobs : rejections'[i] = IF i = j THEN n + 1 ELSE rejections[i]
    BY <2>4 DEF RejectionsOK
  <2>7. n + 1 = ProviderErrorLimit => job'[j] = "rejected"
    BY <1>0, <2>5
  <2>8. rejections' \in [Jobs -> 0..ProviderErrorLimit]
    BY <2>3, <2>4 DEF RejectionsOK
  <2> QED BY <1>1, <2>6, <2>7, <2>8 DEF RejectionsOK
<1>4. UNCHANGED rejections \/ \E j \in Jobs : RejectAndCount(j)
  BY DEF JobsNext, JobStep, Enqueue, Claim, Dispatch, PreserveReading, PreserveClosed, Commit,
     StopForAttention, DeferForSource, HoldFailedJob, RejectAndPause, CallProgress, Billing, EndPause,
     Die, Start, DeleteGuard, FreshFolder, allVars, jobs
<1> QED BY <1>2, <1>3, <1>4

\* What else the types say.
RuntimeOK ==
    /\ stored \subseteq Documents
    /\ paused \in BOOLEAN /\ attention \in BOOLEAN
    /\ crashes \in 0..MaxCrashes /\ swaps \in 0..MaxFolderSwaps

LEMMA RuntimeKeeps == ASSUME RuntimeOK, [JobsNext]_allVars PROVE RuntimeOK'
<1>1. stored' \subseteq Documents
  <2>1. UNCHANGED stored \/ \E j \in Jobs : stored' = stored \cup {DocOf[j]}
    BY DEF JobsNext, JobStep, Enqueue, Claim, Dispatch, PreserveReading, PreserveClosed, Commit,
       StopForAttention, DeferForSource, HoldFailedJob, RejectAndPause, RejectAndCount, CallProgress, Billing,
       EndPause, Die, Start, DeleteGuard, FreshFolder, allVars, jobs
  <2> QED BY <2>1, JobsAssumption DEF RuntimeOK
<1>2. paused' \in BOOLEAN /\ attention' \in BOOLEAN
  <2>1. /\ UNCHANGED paused \/ paused' = TRUE \/ paused' = FALSE
        /\ UNCHANGED attention \/ attention' = TRUE \/ attention' = FALSE
    BY DEF JobsNext, JobStep, Enqueue, Claim, Dispatch, PreserveReading, PreserveClosed, Commit,
       StopForAttention, DeferForSource, HoldFailedJob, RejectAndPause, RejectAndCount, CallProgress, Billing,
       EndPause, Die, Start, DeleteGuard, FreshFolder, allVars, runtime
  <2> QED BY <2>1 DEF RuntimeOK
<1>3. crashes' \in 0..MaxCrashes /\ swaps' \in 0..MaxFolderSwaps
  <2>1. /\ UNCHANGED crashes \/ (crashes < MaxCrashes /\ crashes' = crashes + 1)
        /\ UNCHANGED swaps \/ (swaps < MaxFolderSwaps /\ swaps' = swaps + 1)
    BY DEF JobsNext, JobStep, Enqueue, Claim, Dispatch, PreserveReading, PreserveClosed, Commit,
       StopForAttention, DeferForSource, HoldFailedJob, RejectAndPause, RejectAndCount, CallProgress, Billing,
       EndPause, Die, Start, DeleteGuard, FreshFolder, allVars, runtime, bounds
  <2> QED BY <2>1, JobsAssumption DEF RuntimeOK
<1> QED BY <1>1, <1>2, <1>3 DEF RuntimeOK

LiveIsTyped == Live \subseteq Requests

LEMMA LiveKeeps ==
    ASSUME Folder!IInv, Folder!IInv', LiveIsTyped, [JobsNext]_allVars
    PROVE  LiveIsTyped'
<1>1. Live' \subseteq Live \/ (Send /\ Live' = Live \cup {Request})
  BY JobsStepIsFolderStep, MoneyFacts
<1>2. CASE Send
  <2>1. Known(Request.doc) /\ UNCHANGED started /\ UNCHANGED providerError /\ UNCHANGED response
        /\ UNCHANGED result /\ inflight' = inflight \cup {Request}
    BY <1>2, OwnIsKnown DEF Send, At, Request, receipts
  <2>2. Request \in KnownInflight'
    BY <2>1 DEF KnownInflight, Known, BlankKey, Answered
  <2>3. Request \in Requests
    BY <2>2 DEF Folder!IInv, Folder!TypeOK, Folder!Requests, Requests
  <2> QED BY <1>1, <2>3 DEF LiveIsTyped
<1> QED BY <1>1, <1>2 DEF LiveIsTyped

JobsTypes == QueueLists /\ RejectionsOK /\ RuntimeOK /\ LiveIsTyped

\* The rows, the order of claims and the counters of the coordinator have
\* their types: an open job is in the order once, and the one in service first.
THEOREM JobsTypeCorrectness == FallbackStays => (JobsSpec => []JobsTypeOK)
<1> SUFFICES ASSUME FallbackStays PROVE JobsSpec => []JobsTypeOK
  OBVIOUS
<1>1. JobsInit => JobsTypes
  <2> SUFFICES ASSUME JobsInit PROVE JobsTypes
    OBVIOUS
  <2>1. QueueLists
    BY DEF JobsInit, QueueLists, Lists, Open, Serving
  <2>2. RejectionsOK
    BY JobsAssumption DEF JobsInit, RejectionsOK
  <2>3. RuntimeOK
    <3>1. 0 \in 0..MaxCrashes /\ 0 \in 0..MaxFolderSwaps
      BY JobsAssumption
    <3> QED BY <3>1 DEF JobsInit, RuntimeOK
  <2>4. LiveIsTyped
    BY DEF JobsInit, Init, LiveIsTyped, Live
  <2> QED BY <2>1, <2>2, <2>3, <2>4 DEF JobsTypes
<1>2. JobsInv /\ JobsInv' /\ JobsTypes /\ [JobsNext]_allVars => JobsTypes'
  BY QueueMoves, QueueKeeps, RejectionsKeep, RuntimeKeeps, LiveKeeps DEF JobsInv, JobsTypes
<1>3. JobsInv /\ JobsTypes => JobsTypeOK
  <2> SUFFICES ASSUME JobsInv, JobsTypes PROVE JobsTypeOK
    OBVIOUS
  <2>1. TypeOK
    <3>1. Folder!TypeOK /\ inflight \subseteq Requests /\ charged \subseteq Requests
      BY DEF JobsInv, Folder!IInv, JobsTypes, LiveIsTyped, Live
    <3> QED BY <3>1, FolderWords DEF Folder!TypeOK, TypeOK, Folder!Generations, Generations,
          Folder!Steps, Steps, Folder!Ends, Ends, Folder!Answers, Answers
  <2>2. queue \in Seq(Jobs) /\ QueueAgrees
    BY ListsAgrees DEF JobsTypes, QueueLists, Lists
  <2> QED BY <2>1, <2>2 DEF JobsInv, CallHasJob, JobStates, JobsTypes, RejectionsOK, RuntimeOK, JobsTypeOK
<1> QED BY <1>1, <1>2, <1>3, JobsInvariance, PTL DEF JobsSpec

=============================================================================
