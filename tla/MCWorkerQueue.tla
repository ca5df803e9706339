---------------------------- MODULE MCWorkerQueue ----------------------------
(* Two runners, with two notices of one user, or with two sweeps of one    *)
(* key.                                                                    *)
EXTENDS WorkerQueue

CONSTANTS n1, n2, s1, s2, w1, w2

MCPopulations == {{n1, n2}, {s1, s2}}

MCKeyOf == [j \in Jobs |-> IF j = s2 THEN s1 ELSE j]

\* The build of w2 has no handler for the second sweep.
MCKnows == [w \in Workers |-> IF w = w2 THEN Jobs \ {s2} ELSE Jobs]
=============================================================================
