--------------------------- MODULE MCProd2Payments ---------------------------
(* Two cases that share their affinity and are both read, one with a       *)
(* fallback model and one after the selection of its documents, with one   *)
(* slot for two threads or with two; or two cases that are rejected, both  *)
(* threads in their sections with one permit between them.                 *)
EXTENDS Prod2Payments

CONSTANTS c1, c2, c3, c4, a, b, d, s, x, y, z, t1, t2

MCCampaigns == [cases : {{c1, c3}}, model_workers : {1, 2}]
               \cup [cases : {{c2, c4}}, model_workers : {2}]

MCKind == [r \in Requests |->
    CASE r \in {a, b, d} -> "affinity" [] r = s -> "selector" [] r \in {x, y, z} -> "llm1"]

MCPlan == [c \in Cases |->
    CASE c = c1 -> <<a, x>> [] c = c2 -> <<b>> [] c = c3 -> <<a, s, z>> [] c = c4 -> <<d>>]

MCBackup == [r \in Requests |-> IF r = x THEN y ELSE None]

MCMaximum == [p \in Providers |-> IF p = "jev" THEN 1 ELSE 2]
=============================================================================
