------------------------------ MODULE PaidCall ------------------------------
(***************************************************************************)
(* What the guarded reader promises about money, with no files, locks or   *)
(* processes in it.  A document is                                         *)
(*   "unpaid"   no request for it can have been billed,                    *)
(*   "open"     a request for it is out and its outcome is not known,      *)
(*   "charged"  the provider billed it and the answer is not on disk,      *)
(*   "kept"     the billed answer is on disk and can be replayed.          *)
(* A request leaves only for an unpaid document and only while no other    *)
(* document is open or charged: at most one request of the whole folder    *)
(* has an uncertain outcome, and a billed document is never asked again.   *)
(***************************************************************************)

CONSTANT Documents    \* the documents that can be read, by their SHA-256

VARIABLE status       \* status[d], as described above

States == {"unpaid", "open", "charged", "kept"}

Init == status = [d \in Documents |-> "unpaid"]

Send(d) ==
    /\ status[d] = "unpaid"
    /\ \A e \in Documents : status[e] \in {"unpaid", "kept"}
    /\ status' = [status EXCEPT ![d] = "open"]

\* The provider answered an HTTP error: nothing was billed.
Reject(d) ==
    /\ status[d] = "open"
    /\ status' = [status EXCEPT ![d] = "unpaid"]

Charge(d) ==
    /\ status[d] = "open"
    /\ status' = [status EXCEPT ![d] = "charged"]

Keep(d) ==
    /\ status[d] = "charged"
    /\ status' = [status EXCEPT ![d] = "kept"]

Next == \E d \in Documents : Send(d) \/ Reject(d) \/ Charge(d) \/ Keep(d)

Spec == Init /\ [][Next]_status
=============================================================================
