------------------------- MODULE MCGradingRequests -------------------------
(* One pair, in behaviours with a replay and a second send of one reading,  *)
(* with two requests and a crash, with two readings and with a send for     *)
(* each of two readings.                                                   *)
EXTENDS GradingRequests

Behaviour(readings, sends, requested, crashes) ==
    [readings |-> readings, sends |-> sends, requests |-> requested, crashes |-> crashes]

MCBounds ==
    {Behaviour(1, 2, 1, 1), Behaviour(1, 1, 2, 0), Behaviour(2, 1, 1, 0), Behaviour(2, 2, 0, 1)}

MCPayloads == 1..2
=============================================================================
