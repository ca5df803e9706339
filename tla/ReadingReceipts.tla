-------------------------- MODULE ReadingReceipts --------------------------
(***************************************************************************)
(* The receipt folder of GuardedGeminiExtractor (prod6/reading.py) and the *)
(* one paid Gemini call made under it.                                     *)
(*                                                                         *)
(* A request key is a document, a reading generation and a model.  For a   *)
(* key the folder may hold four files: started, provider_error, response   *)
(* and result; one guard.json closes the folder to new sends.  A call      *)
(* writes and removes those files one at a time, and the process can die   *)
(* between any two of them.  The folder is owned by the coordinator that   *)
(* holds the PostgreSQL advisory lock, and every call also holds the       *)
(* folder's file lock, so one call runs at a time.                         *)
(*                                                                         *)
(* Instants (started_at) are modelled by the number of the send, `clock`.  *)
(* A receipt field 0 means that the file does not exist.                   *)
(***************************************************************************)
EXTENDS Integers

CONSTANTS
    Documents,             \* documents, named by the SHA-256 of their bytes
    MaxSends,              \* bound on the sends of a behaviour
    FallbackMayBeDisabled  \* may an operator restart without the fallback
                           \* model after having run with it?

ASSUME ReceiptsAssumption ==
    /\ MaxSends \in Nat
    /\ FallbackMayBeDisabled \in BOOLEAN

Generations == {"quality", "legacy"}
Models      == {"main", "fallback"}
Keys        == [doc : Documents, gen : Generations, model : Models]
Requests    == [doc : Documents, stamp : 1..MaxSends]
Answers     == {"usable", "unusable"}

VARIABLES
    started,        \* started[k]: stamp of the started receipt of key k, or 0
    providerError,  \* providerError[k]: started_at copied in its receipt, or 0
    response,       \* response[k]: "none", or how the saved answer will parse
    result,         \* result[k]: the parsed result is on disk
    guard,          \* guard.json exists
    newest,         \* the newest generation of the deployed code
    fallbackOn,     \* a saturation fallback model is configured
    call,           \* the call that holds the folder's lock
    clock,          \* the number of sends so far
    inflight,       \* requests that left and that the provider can still bill
    charged         \* requests that the provider billed

receipts == <<started, providerError, response, result>>
config   == <<newest, fallbackOn>>
provider == <<inflight, charged>>
vars     == <<receipts, guard, config, call, clock, provider>>

-----------------------------------------------------------------------------
(* Reading the folder                                                      *)

GenerationsInUse == IF newest = "quality" THEN Generations ELSE {"legacy"}

Key(d, g, m) == [doc |-> d, gen |-> g, model |-> m]

Answered(k) == result[k] \/ response[k] # "none"

\* The keys _resolve_identity looks at, and the key it settles on: an answered
\* one if there is any (no document has two), or else the newest main request.
LookupKeys(d) ==
    {Key(d, g, m) : g \in GenerationsInUse,
                    m \in {"main"} \cup (IF fallbackOn THEN {"fallback"} ELSE {})}

ResolvedKeys(d) ==
    IF \E k \in LookupKeys(d) : Answered(k)
    THEN {k \in LookupKeys(d) : Answered(k)}
    ELSE {Key(d, newest, "main")}

\* _document_keys: every generation of one document for one model.
DocumentKeys(d, m) == {Key(d, g, m) : g \in GenerationsInUse}

\* _retry_after_provider_error: the last attempt was an HTTP error.
RetryAllowed(d, m) == \E k \in DocumentKeys(d, m) : providerError[k] # 0

\* A started receipt that _check_new_send does not hold against a new send.
Resolved(k) ==
    \/ result[k]
    \/ ~Answered(k) /\ providerError[k] # 0 /\ providerError[k] = started[k]

Unresolved == {k \in Keys : started[k] # 0 /\ ~Resolved(k)}

\* Faulty variant: only the guard file is trusted, started receipts are not read.
SendPermittedByGuard == ~guard

SendPermitted == ~guard /\ Unresolved = {}

\* _guard never replaces an open guard, and its own write may fail.
OpenGuard == guard' \in {TRUE, guard}

-----------------------------------------------------------------------------
(* The call in progress.  `pc` is the next receipt step; "read", "blocked" *)
(* and "refused" are its three ends: a reading, a GuardedReadingError, a   *)
(* ProviderRejectedError.                                                  *)

Ends == {"read", "blocked", "refused"}
Steps == {"download", "clearing", "pacing", "sending", "sent", "answered",
          "saved", "rejected", "unstarting", "rejection"}

At(pc) == call.pc = pc
Goto(pc) == call' = [call EXCEPT !.pc = pc]
GotoKey(k, pc) == call' = [call EXCEPT !.pc = pc, !.key = k]

\* The call is over and its local variables are gone.
Finish(pc) ==
    call' = [call EXCEPT !.pc = pc, !.key = Key(call.key.doc, "legacy", "main"),
                         !.allow = FALSE, !.answer = "unusable", !.saturated = FALSE]

Request == [doc |-> call.key.doc, stamp |-> clock]

\* A local failure: the guard is opened (or cannot be) and the call ends.
FailAndGuard == Goto("blocked") /\ OpenGuard

\* The head of _extract_locked for key k: replay what is known, or go on to
\* a new send if the folder and the caller's permission allow one.
ReplayOrSend(k) ==
    \/ /\ result[k]
       /\ GotoKey(k, "read") /\ UNCHANGED guard
    \/ /\ ~result[k] /\ response[k] # "none"
       /\ GotoKey(k, "saved") /\ UNCHANGED guard
    \/ /\ ~Answered(k) /\ ~SendPermitted
       /\ GotoKey(k, "blocked") /\ OpenGuard
    \/ /\ ~Answered(k) /\ SendPermitted
       /\ ~call.allow /\ ~RetryAllowed(k.doc, k.model)
       /\ GotoKey(k, "blocked") /\ UNCHANGED guard
    \/ /\ ~Answered(k) /\ SendPermitted
       /\ call.allow \/ RetryAllowed(k.doc, k.model)
       /\ GotoKey(k, "clearing") /\ UNCHANGED guard

-----------------------------------------------------------------------------
(* recover_before_download and the download                                *)

\* With permission to ask, recovery does nothing before the download.
BeginNew(d) ==
    /\ At("idle")
    /\ call' = [call EXCEPT !.pc = "download", !.allow = TRUE,
                            !.key = Key(d, newest, "main")]
    /\ UNCHANGED <<receipts, guard, config, clock, provider>>

\* A job that was attempted before: an exact durable response is replayed, an
\* HTTP error lets the download go on, anything else is blocked.
BeginRecovery(d) ==
    /\ At("idle")
    /\ \E k \in ResolvedKeys(d) :
        LET next(pc) == call' = [call EXCEPT !.pc = pc, !.allow = FALSE, !.key = k]
        IN  \/ /\ result[k]
               /\ next("read") /\ UNCHANGED guard
            \/ /\ ~result[k] /\ response[k] # "none"
               /\ next("saved") /\ UNCHANGED guard
            \/ /\ ~Answered(k) /\ ~SendPermitted
               /\ next("blocked") /\ OpenGuard
            \/ /\ ~Answered(k) /\ SendPermitted /\ RetryAllowed(d, k.model)
               /\ next("download") /\ UNCHANGED guard
            \/ /\ ~Answered(k) /\ SendPermitted /\ ~RetryAllowed(d, k.model)
               /\ next("blocked") /\ UNCHANGED guard
    /\ UNCHANGED <<receipts, config, clock, provider>>

\* The document is at hand; extract takes the lock and resolves the key again.
Extract ==
    /\ At("download")
    /\ \E k \in ResolvedKeys(call.key.doc) : ReplayOrSend(k)
    /\ UNCHANGED <<receipts, config, clock, provider>>

-----------------------------------------------------------------------------
(* The send                                                                *)

\* A new attempt consumes the earlier HTTP-error receipts of the document.
ClearProviderError ==
    /\ At("clearing")
    /\ \E k \in DocumentKeys(call.key.doc, call.key.model) :
        /\ providerError[k] # 0
        /\ providerError' = [providerError EXCEPT ![k] = 0]
    /\ UNCHANGED <<started, response, result, guard, config, call, clock, provider>>

Cleared ==
    /\ At("clearing")
    /\ ~RetryAllowed(call.key.doc, call.key.model)
    /\ Goto("pacing")
    /\ UNCHANGED <<receipts, guard, config, clock, provider>>

\* Faulty variant: the started receipt is left for after the send.
WriteStartedLate ==
    /\ At("pacing")
    /\ clock < MaxSends
    /\ clock' = clock + 1
    /\ Goto("sending")
    /\ UNCHANGED <<receipts, guard, config, provider>>

\* GEMINI_PACER.wait is over and the started receipt is written; the write can
\* fail after the file appeared, and then nothing is sent.
WriteStarted ==
    /\ At("pacing")
    /\ clock < MaxSends
    /\ clock' = clock + 1
    /\ started' = [started EXCEPT ![call.key] = clock + 1]
    /\ \/ Goto("sending") /\ UNCHANGED guard
       \/ FailAndGuard
    /\ UNCHANGED <<providerError, response, result, config, provider>>

\* Building the client, removing a receipt or writing one raised.
FailBeforeStarted ==
    /\ At("clearing") \/ At("pacing")
    /\ FailAndGuard
    /\ UNCHANGED <<receipts, config, clock, provider>>

Send ==
    /\ At("sending")
    /\ inflight' = inflight \cup {Request}
    /\ Goto("sent")
    /\ UNCHANGED <<receipts, guard, config, clock, charged>>

\* The provider bills a request, whether or not anybody still waits for it.
ProviderCharges(r) ==
    /\ inflight' = inflight \ {r}
    /\ charged' = charged \cup {r}
    /\ UNCHANGED <<receipts, guard, config, call, clock>>

ReceiveAnswer(a) ==
    /\ At("sent")
    /\ Request \in charged
    /\ call' = [call EXCEPT !.pc = "answered", !.answer = a]
    /\ UNCHANGED <<receipts, guard, config, clock, provider>>

\* An HTTP error answered by the provider proves that nothing is billed.
ReceiveRejection(saturated) ==
    /\ At("sent")
    /\ Request \in inflight
    /\ inflight' = inflight \ {Request}
    /\ call' = [call EXCEPT !.pc = "rejected", !.saturated = saturated]
    /\ UNCHANGED <<receipts, guard, config, clock, charged>>

\* Faulty variant: a timeout is retried, so its started receipt goes.
LoseReplyAndRetry ==
    /\ At("sent")
    /\ started' = [started EXCEPT ![call.key] = 0]
    /\ Goto("refused")
    /\ UNCHANGED <<providerError, response, result, guard, config, clock, provider>>

\* Timeout, dropped connection or interrupt: the request may be billed or not.
LoseReply ==
    /\ At("sent")
    /\ FailAndGuard
    /\ UNCHANGED <<receipts, config, clock, provider>>

-----------------------------------------------------------------------------
(* After the answer                                                        *)

WriteResponse ==
    /\ At("answered")
    /\ response' = [response EXCEPT ![call.key] = call.answer]
    /\ \/ Goto("saved") /\ UNCHANGED guard
       \/ FailAndGuard
    /\ UNCHANGED <<started, providerError, result, config, clock, provider>>

FailWriteResponse ==
    /\ At("answered")
    /\ FailAndGuard
    /\ UNCHANGED <<receipts, config, clock, provider>>

\* _parse_saved_response: a usable answer becomes the result.
Parse ==
    /\ At("saved")
    /\ response[call.key] = "usable"
    /\ result' = [result EXCEPT ![call.key] = TRUE]
    /\ \/ Goto("read") /\ UNCHANGED guard
       \/ FailAndGuard
    /\ UNCHANGED <<started, providerError, response, config, clock, provider>>

\* Faulty variant: an answer that does not parse is thrown away.
FailParseDiscarding ==
    /\ At("saved")
    /\ response' = [response EXCEPT ![call.key] = "none"]
    /\ FailAndGuard
    /\ UNCHANGED <<started, providerError, result, config, clock, provider>>

\* Unknown usage, a truncated or invalid answer, or a result not written.
FailParse ==
    /\ At("saved")
    /\ FailAndGuard
    /\ UNCHANGED <<receipts, config, clock, provider>>

\* _record_provider_error, first half: the receipt names this attempt.
WriteProviderError ==
    /\ At("rejected")
    /\ providerError' = [providerError EXCEPT ![call.key] = started[call.key]]
    /\ \/ Goto("unstarting") /\ UNCHANGED guard
       \/ FailAndGuard
    /\ UNCHANGED <<started, response, result, config, clock, provider>>

FailWriteProviderError ==
    /\ At("rejected")
    /\ FailAndGuard
    /\ UNCHANGED <<receipts, config, clock, provider>>

\* Second half: the started receipt goes; an OSError leaves it, resolved.
RemoveStarted ==
    /\ At("unstarting")
    /\ started' \in {started, [started EXCEPT ![call.key] = 0]}
    /\ Goto("rejection")
    /\ UNCHANGED <<providerError, response, result, guard, config, clock, provider>>

\* Saturation of the main model sends the reading once to the fallback.
MayFallBack ==
    /\ call.saturated /\ fallbackOn /\ call.key.model = "main"
    /\ call.allow \/ RetryAllowed(call.key.doc, "fallback")

FallBack ==
    /\ At("rejection")
    /\ MayFallBack
    /\ ReplayOrSend(Key(call.key.doc, newest, "fallback"))
    /\ UNCHANGED <<receipts, config, clock, provider>>

Refuse ==
    /\ At("rejection")
    /\ ~MayFallBack
    /\ Goto("refused")
    /\ UNCHANGED <<receipts, guard, config, clock, provider>>

-----------------------------------------------------------------------------
(* The process and its operator                                            *)

\* The caller takes the outcome; also a caller that fails before it has one.
Return ==
    /\ call.pc \in Ends \cup {"idle", "download"}
    /\ Finish("idle")
    /\ UNCHANGED <<receipts, guard, config, clock, provider>>

Crash ==
    /\ call.pc # "down"
    /\ Finish("down")
    /\ UNCHANGED <<receipts, guard, config, clock, provider>>

\* A restart may deploy the newer generation or change the fallback model.
Restart ==
    /\ At("down")
    /\ Goto("idle")
    /\ newest' \in {newest, "quality"}
    /\ fallbackOn' \in IF FallbackMayBeDisabled THEN BOOLEAN ELSE {fallbackOn, TRUE}
    /\ UNCHANGED <<receipts, guard, clock, provider>>

\* An operator deletes guard.json and nothing else.
RemoveGuard ==
    /\ guard
    /\ guard' = FALSE
    /\ UNCHANGED <<receipts, config, call, clock, provider>>

-----------------------------------------------------------------------------

Init ==
    /\ started = [k \in Keys |-> 0]
    /\ providerError = [k \in Keys |-> 0]
    /\ response = [k \in Keys |-> "none"]
    /\ result = [k \in Keys |-> FALSE]
    /\ guard = FALSE
    /\ newest \in Generations
    /\ fallbackOn \in BOOLEAN
    /\ call \in [pc : {"down"}, key : {k \in Keys : k.gen = "legacy" /\ k.model = "main"},
                 allow : {FALSE}, answer : {"unusable"}, saturated : {FALSE}]
    /\ clock = 0
    /\ inflight = {}
    /\ charged = {}

CallStep ==
    \/ Extract \/ ClearProviderError \/ Cleared \/ WriteStarted
    \/ FailBeforeStarted \/ Send \/ LoseReply
    \/ \E a \in Answers : ReceiveAnswer(a)
    \/ \E s \in BOOLEAN : ReceiveRejection(s)
    \/ WriteResponse \/ FailWriteResponse \/ Parse \/ FailParse
    \/ WriteProviderError \/ FailWriteProviderError \/ RemoveStarted
    \/ FallBack \/ Refuse

Next ==
    \/ \E d \in Documents : BeginNew(d) \/ BeginRecovery(d)
    \/ CallStep
    \/ \E r \in inflight : ProviderCharges(r)
    \/ Return \/ Crash \/ Restart \/ RemoveGuard

Spec == Init /\ [][Next]_vars

-----------------------------------------------------------------------------
(* Properties                                                              *)

TypeOK ==
    /\ started \in [Keys -> 0..MaxSends]
    /\ providerError \in [Keys -> 0..MaxSends]
    /\ response \in [Keys -> {"none"} \cup Answers]
    /\ result \in [Keys -> BOOLEAN]
    /\ guard \in BOOLEAN
    /\ newest \in Generations
    /\ fallbackOn \in BOOLEAN
    /\ call \in [pc : {"down", "idle"} \cup Steps \cup Ends, key : Keys,
                 allow : BOOLEAN, answer : Answers, saturated : BOOLEAN]
    /\ clock \in 0..MaxSends
    /\ inflight \subseteq Requests
    /\ charged \subseteq Requests

\* The requests that the provider has billed or can still bill.
Live == inflight \cup charged

\* The answer of request r is on disk.
Durable(r) == \E k \in Keys : k.doc = r.doc /\ started[k] = r.stamp /\ response[k] # "none"

\* No document is ever paid twice: at most one of its requests has been or can
\* still be billed, over every generation and model, through crashes at any
\* receipt step, lost replies, HTTP errors, and an operator who only deletes
\* the guard (the module docstring of reading.py).
PaidAtMostOnce == \A r, s \in Live : r.doc = s.doc => r = s

\* "An uncertain request blocks new sends": in the whole folder at most one
\* live request has no durable answer.
OneUncertainRequest ==
    \A r, s \in Live : ~Durable(r) /\ ~Durable(s) => r = s

\* Money that may have been spent is always visible in the folder: a started
\* receipt of that attempt is there and no HTTP-error receipt excuses it.
ChargesAreOnRecord ==
    \A r \in Live : \E k \in Keys :
        k.doc = r.doc /\ started[k] = r.stamp /\ providerError[k] # r.stamp

\* A call that ends with ProviderRejectedError (whose attempt the runtime gives
\* back to the job) leaves no request that can be billed for its document.
RefusalIsFree ==
    At("refused") => \A r \in Live : r.doc # call.key.doc

\* A reading is never made from thin air: the call that returns one has a paid
\* request of that very document behind it.
ReadingIsPaidFor ==
    At("read") => \E r \in charged : r.doc = call.key.doc /\ Durable(r)

\* No step replaces or removes a durable answer, whatever else fails.
AnswersAreKept ==
    [][\A k \in Keys : response[k] # "none" =>
          response'[k] = response[k] /\ started'[k] = started[k]]_vars

\* The abstract promise this folder keeps (module PaidCall).
Status ==
    [d \in Documents |->
        IF \E r \in charged : r.doc = d /\ Durable(r) THEN "kept"
        ELSE IF \E r \in charged : r.doc = d THEN "charged"
        ELSE IF \E r \in inflight : r.doc = d THEN "open"
        ELSE "unpaid"]

Promise == INSTANCE PaidCall WITH status <- Status

PromiseKept == Promise!Spec

-----------------------------------------------------------------------------
(* The inductive invariant that carries PaidAtMostOnce and the other       *)
(* safety properties; ReadingReceiptsProofs proves it.                     *)

BlankKey(k) == started[k] = 0 /\ providerError[k] = 0 /\ ~Answered(k)

\* Keys that the deployed configuration cannot name hold no receipt.
UnusedKeysAreBlank ==
    \A k \in Keys :
        (k.gen \notin GenerationsInUse \/ (k.model = "fallback" /\ ~fallbackOn))
            => BlankKey(k)

\* Stamps were all issued, each to one key.
StampsAreIssued ==
    /\ \A k \in Keys : started[k] <= clock /\ providerError[k] <= clock
    /\ \A r \in Live : r.stamp <= clock
    /\ \A k, j \in Keys : started[k] = started[j] /\ started[k] # 0 => k = j

\* An answer on disk answers a billed request of its key's document.
AnswersAreBilled ==
    \A k \in Keys :
        /\ result[k] => response[k] = "usable"
        /\ response[k] # "none" => [doc |-> k.doc, stamp |-> started[k]] \in charged

BeforeSend  == {"clearing", "pacing", "sending"}
AfterReject == {"rejected", "unstarting", "rejection"}
Waiting     == {"sent", "answered"}
Paying      == BeforeSend \cup Waiting \cup AfterReject

\* While a call pays, nothing of its document is answered, every other live
\* request is durably answered, and its own is the only one of its document.
PayingCall ==
    call.pc \in Paying =>
        /\ call.key.gen \in GenerationsInUse
        /\ (call.key.model = "fallback" => fallbackOn)
        /\ \A k \in Keys : k.doc = call.key.doc => ~Answered(k)
        /\ \A r \in Live :
              \/ (r = Request /\ call.pc \in Waiting)
              \/ (r.doc # call.key.doc /\ Durable(r))
        /\ call.pc \in Waiting \cup {"sending", "rejected"} =>
              /\ clock # 0
              /\ started[call.key] = clock
              /\ providerError[call.key] # clock
        /\ call.pc = "answered" => Request \in charged

FinishedCall ==
    /\ call.pc \in {"saved", "read"} => response[call.key] # "none"
    /\ call.pc = "refused" => \A r \in Live : r.doc # call.key.doc

IInv ==
    /\ TypeOK
    /\ inflight \cap charged = {}
    /\ UnusedKeysAreBlank
    /\ StampsAreIssued
    /\ AnswersAreBilled
    /\ ChargesAreOnRecord
    /\ PaidAtMostOnce
    /\ OneUncertainRequest
    /\ PayingCall
    /\ FinishedCall
=============================================================================
