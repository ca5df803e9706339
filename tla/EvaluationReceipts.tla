------------------------- MODULE EvaluationReceipts -------------------------
(***************************************************************************)
(* The receipt folder of GuardedMatchAnalyzer (prod6/evaluation_guard.py)  *)
(* and the one paid evaluation made under it.                              *)
(*                                                                         *)
(* A request key is a payload (company, contract and one reading of its    *)
(* documents) and a model.  For a key the folder may hold three files:     *)
(* started, provider_error and response; one guard file closes the folder  *)
(* to new sends.  It follows the rules of the reading receipts, with three *)
(* differences: there is no result file, a durable answer alone resolves   *)
(* its started receipt, and the started receipt is written outside the     *)
(* block that opens the guard, so a failure there only fails the job.      *)
(*                                                                         *)
(* Instants (started_at) are modelled by the number of the send, `clock`.  *)
(* A receipt field 0 means that the file does not exist.                   *)
(***************************************************************************)
EXTENDS Integers

CONSTANTS
    Payloads,              \* what can be evaluated
    MaxSends,              \* bound on the sends of a behaviour
    FallbackMayBeDisabled  \* may an operator restart without the fallback
                           \* model after having run with it?

ASSUME EvaluationAssumption ==
    /\ Payloads # {} /\ MaxSends \in Nat
    /\ FallbackMayBeDisabled \in BOOLEAN

Models   == {"main", "fallback"}
Keys     == [payload : Payloads, model : Models]
Sends    == [payload : Payloads, stamp : 1..MaxSends]

\* "mismatch": parses, but skips or reorders requirements (ModelOutputMismatch);
\* "unreadable": truncated, without usage or not the expected JSON.
Answers  == {"usable", "mismatch", "unreadable"}

VARIABLES
    started,        \* started[k]: stamp of the started receipt of key k, or 0
    providerError,  \* providerError[k]: started_at copied in its receipt, or 0
    response,       \* response[k]: "none", or what the saved answer is worth
    guard,          \* the guard file exists
    fallbackOn,     \* a saturation fallback model is configured
    call,           \* the evaluation that holds the folder's lock
    clock,          \* the number of sends so far
    inflight,       \* requests that left and that the provider can still bill
    charged         \* requests that the provider billed

receipts == <<started, providerError, response>>
provider == <<inflight, charged>>
vars     == <<receipts, guard, fallbackOn, call, clock, provider>>

-----------------------------------------------------------------------------
(* Reading the folder                                                      *)

Key(p, m) == [payload |-> p, model |-> m]

Answered(k) == response[k] # "none"

Rejected(k) == providerError[k] # 0

Resolved(k) == Answered(k) \/ (Rejected(k) /\ providerError[k] = started[k])

Unresolved == {k \in Keys : started[k] # 0 /\ ~Resolved(k)}

\* Faulty variant: only the guard file is trusted, started receipts are not read.
SendPermittedByGuard == ~guard

SendPermitted == ~guard /\ Unresolved = {}

\* _guard never replaces an open guard, and its own write may fail.
OpenGuard == guard' \in {TRUE, guard}

-----------------------------------------------------------------------------
(* The call in progress.  `pc` is the next receipt step; the four ends are *)
(* an answer, a GuardedReadingError, a ProviderRejectedError and any other *)
(* exception.                                                              *)

Ends  == {"parsed", "blocked", "refused", "failed"}
Steps == {"clearing", "pacing", "sending", "sent", "answered", "saved",
          "rejected", "unstarting", "rejection"}

NoCall == [pc |-> "idle", key |-> Key(CHOOSE p \in Payloads : TRUE, "main"),
           allow |-> FALSE, answer |-> "usable", saturated |-> FALSE]

At(pc)         == call.pc = pc
Goto(pc)       == call' = [call EXCEPT !.pc = pc]
Finish(pc)     == call' = [NoCall EXCEPT !.pc = pc]
Request        == [payload |-> call.key.payload, stamp |-> clock]
FailAndGuard   == Goto("blocked") /\ OpenGuard

\* The head of _send for key k: replay the saved answer, or go on to a new
\* send if the folder and the caller's permission allow one.
ReplayOrSend(k, allow) ==
    LET next(pc) == call' = [call EXCEPT !.pc = pc, !.key = k, !.allow = allow]
    IN  \/ /\ Answered(k)
           /\ next("saved") /\ UNCHANGED guard
        \/ /\ ~Answered(k) /\ ~SendPermitted
           /\ next("blocked") /\ OpenGuard
        \/ /\ ~Answered(k) /\ SendPermitted /\ ~allow /\ ~Rejected(k)
           /\ next("blocked") /\ UNCHANGED guard
        \/ /\ ~Answered(k) /\ SendPermitted /\ (allow \/ Rejected(k))
           /\ next("clearing") /\ UNCHANGED guard

\* _analyze_with_model: a fallback that already answered is replayed, anything
\* else starts with the main model.
Begin(p, allow) ==
    /\ At("idle")
    /\ LET model == IF fallbackOn /\ Answered(Key(p, "fallback")) THEN "fallback" ELSE "main"
       IN  ReplayOrSend(Key(p, model), allow)
    /\ UNCHANGED <<receipts, fallbackOn, clock, provider>>

-----------------------------------------------------------------------------
(* The send                                                                *)

\* A new attempt consumes the earlier HTTP-error receipt of its key.
ClearProviderError ==
    /\ At("clearing")
    /\ providerError' = [providerError EXCEPT ![call.key] = 0]
    /\ Goto("pacing")
    /\ UNCHANGED <<started, response, guard, fallbackOn, clock, provider>>

\* Faulty variant: the started receipt is left for after the send.
WriteStartedLate ==
    /\ At("pacing") /\ clock < MaxSends
    /\ clock' = clock + 1
    /\ Goto("sending")
    /\ UNCHANGED <<receipts, guard, fallbackOn, provider>>

\* GEMINI_PACER.wait is over and the started receipt is written; the write can
\* fail after the file appeared, and then nothing is sent and no guard opens.
WriteStarted ==
    /\ At("pacing") /\ clock < MaxSends
    /\ clock' = clock + 1
    /\ started' = [started EXCEPT ![call.key] = clock + 1]
    /\ Goto("sending") \/ Goto("failed")
    /\ UNCHANGED <<providerError, response, guard, fallbackOn, provider>>

\* Removing or writing a receipt raised before there was anything on disk.
FailBeforeStarted ==
    /\ At("clearing") \/ At("pacing")
    /\ Goto("failed")
    /\ UNCHANGED <<receipts, guard, fallbackOn, clock, provider>>

Send ==
    /\ At("sending")
    /\ inflight' = inflight \cup {Request}
    /\ Goto("sent")
    /\ UNCHANGED <<receipts, guard, fallbackOn, clock, charged>>

\* The provider bills a request, whether or not anybody still waits for it.
ProviderCharges(r) ==
    /\ inflight' = inflight \ {r}
    /\ charged' = charged \cup {r}
    /\ UNCHANGED <<receipts, guard, fallbackOn, call, clock>>

ReceiveAnswer(a) ==
    /\ At("sent") /\ Request \in charged
    /\ call' = [call EXCEPT !.pc = "answered", !.answer = a]
    /\ UNCHANGED <<receipts, guard, fallbackOn, clock, provider>>

\* An HTTP error answered by the provider proves that nothing is billed.
ReceiveRejection(saturated) ==
    /\ At("sent") /\ Request \in inflight
    /\ inflight' = inflight \ {Request}
    /\ call' = [call EXCEPT !.pc = "rejected", !.saturated = saturated]
    /\ UNCHANGED <<receipts, guard, fallbackOn, clock, charged>>

\* Timeout, dropped connection or interrupt: the request may be billed or not.
LoseReply ==
    /\ At("sent")
    /\ FailAndGuard
    /\ UNCHANGED <<receipts, fallbackOn, clock, provider>>

-----------------------------------------------------------------------------
(* After the answer                                                        *)

WriteResponse ==
    /\ At("answered")
    /\ response' = [response EXCEPT ![call.key] = call.answer]
    /\ (Goto("saved") /\ UNCHANGED guard) \/ FailAndGuard
    /\ UNCHANGED <<started, providerError, fallbackOn, clock, provider>>

FailWriteResponse ==
    /\ At("answered")
    /\ FailAndGuard
    /\ UNCHANGED <<receipts, fallbackOn, clock, provider>>

\* _parse: an answer that cannot be read is preserved and needs a review.
Parse ==
    /\ At("saved")
    /\ IF response[call.key] = "unreadable"
       THEN FailAndGuard
       ELSE Goto("parsed") /\ UNCHANGED guard
    /\ UNCHANGED <<receipts, fallbackOn, clock, provider>>

\* _record_provider_error, first half: the receipt names this attempt.
WriteProviderError ==
    /\ At("rejected")
    /\ providerError' = [providerError EXCEPT ![call.key] = started[call.key]]
    /\ (Goto("unstarting") /\ UNCHANGED guard) \/ FailAndGuard
    /\ UNCHANGED <<started, response, fallbackOn, clock, provider>>

FailWriteProviderError ==
    /\ At("rejected")
    /\ FailAndGuard
    /\ UNCHANGED <<receipts, fallbackOn, clock, provider>>

\* Second half: the started receipt goes; an OSError leaves it, resolved.
RemoveStarted ==
    /\ At("unstarting")
    /\ started' \in {started, [started EXCEPT ![call.key] = 0]}
    /\ Goto("rejection")
    /\ UNCHANGED <<providerError, response, guard, fallbackOn, clock, provider>>

\* Saturation of the main model sends the evaluation once to the fallback.
MayFallBack ==
    /\ call.saturated /\ fallbackOn /\ call.key.model = "main"
    /\ call.allow \/ Rejected(Key(call.key.payload, "fallback"))

FallBack ==
    /\ At("rejection") /\ MayFallBack
    /\ ReplayOrSend(Key(call.key.payload, "fallback"), call.allow)
    /\ UNCHANGED <<receipts, fallbackOn, clock, provider>>

Refuse ==
    /\ At("rejection") /\ ~MayFallBack
    /\ Goto("refused")
    /\ UNCHANGED <<receipts, guard, fallbackOn, clock, provider>>

-----------------------------------------------------------------------------
(* The process and its operator                                            *)

Crash ==
    /\ call.pc # "down"
    /\ Finish("down")
    /\ UNCHANGED <<receipts, guard, fallbackOn, clock, provider>>

\* A restart may change the configured fallback model.
Restart ==
    /\ At("down")
    /\ Goto("idle")
    /\ fallbackOn' \in IF FallbackMayBeDisabled THEN BOOLEAN ELSE {fallbackOn, TRUE}
    /\ UNCHANGED <<receipts, guard, clock, provider>>

\* An operator deletes the guard file and nothing else.
RemoveGuard ==
    /\ guard
    /\ guard' = FALSE
    /\ UNCHANGED <<receipts, fallbackOn, call, clock, provider>>

-----------------------------------------------------------------------------

Init ==
    /\ started = [k \in Keys |-> 0]
    /\ providerError = [k \in Keys |-> 0]
    /\ response = [k \in Keys |-> "none"]
    /\ guard = FALSE
    /\ fallbackOn \in BOOLEAN
    /\ call = [NoCall EXCEPT !.pc = "down"]
    /\ clock = 0
    /\ inflight = {} /\ charged = {}

CallStep ==
    \/ ClearProviderError \/ WriteStarted \/ FailBeforeStarted \/ Send \/ LoseReply
    \/ \E a \in Answers : ReceiveAnswer(a)
    \/ \E s \in BOOLEAN : ReceiveRejection(s)
    \/ WriteResponse \/ FailWriteResponse \/ Parse
    \/ WriteProviderError \/ FailWriteProviderError \/ RemoveStarted
    \/ FallBack \/ Refuse

ReceiptsTypeOK ==
    /\ started \in [Keys -> 0..MaxSends]
    /\ providerError \in [Keys -> 0..MaxSends]
    /\ response \in [Keys -> {"none"} \cup Answers]
    /\ guard \in BOOLEAN /\ fallbackOn \in BOOLEAN
    /\ call \in [pc : {"down", "idle"} \cup Steps \cup Ends, key : Keys,
                 allow : BOOLEAN, answer : Answers, saturated : BOOLEAN]
    /\ clock \in 0..MaxSends
    /\ inflight \subseteq Sends /\ charged \subseteq Sends

-----------------------------------------------------------------------------
(* What the folder promises                                                *)

\* The answer of request r is on disk.
Durable(r) == \E m \in Models :
    started[Key(r.payload, m)] = r.stamp /\ Answered(Key(r.payload, m))

Status ==
    [p \in Payloads |->
        IF \E r \in charged : r.payload = p /\ Durable(r) THEN "kept"
        ELSE IF \E r \in charged : r.payload = p THEN "charged"
        ELSE IF \E r \in inflight : r.payload = p THEN "open"
        ELSE "unpaid"]

\* Every evaluation is one paid call in the sense of PaidCall.
Promise == INSTANCE PaidCall WITH Documents <- Payloads, status <- Status
=============================================================================
