-------------------------- MODULE MCProd6Recovery --------------------------
(* One document with two reading jobs, and a folder that the operator      *)
(* replaces.  No symmetry: a liveness property is checked.                 *)
EXTENDS Prod6Reading

CONSTANTS d1, j1, j2

MCDocuments == {d1}
MCJobs == {j1, j2}
MCDocOf == [j \in MCJobs |-> d1]
=============================================================================
