------------------------ MODULE MCDiscoverySchedule ------------------------
(* Two companies with three streams together.  One stream is longer than   *)
(* MaxPages, and two streams need more than one sweep's limit.             *)
EXTENDS DiscoverySchedule

CONSTANTS s1, s2, k1

MCStreams == {s1, s2, k1}
MCKeywordStreams == {k1}
MCLists == {<<s1, s2, k1>>, <<s2, k1>>}
MCPages == [s \in MCStreams |-> IF s = s1 THEN 1 ELSE IF s = s2 THEN 3 ELSE 2]
=============================================================================
