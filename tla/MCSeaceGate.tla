---------------------------- MODULE MCSeaceGate ----------------------------
(* One PROD6 cycle with three requests, and a web with two.                *)
EXTENDS SeaceGate, TLC

CONSTANTS prod6, a1, a2, a3, w1, w2

MCWorkers == {prod6}
MCWorkerRequests == {a1, a2, a3}
MCWebRequests == {w1, w2}
MCProcessOf == [r \in MCWorkerRequests |-> prod6]
MCBudget == (prod6 :> 2)
Symmetry == Permutations(MCWorkerRequests) \cup Permutations(MCWebRequests)
=============================================================================
