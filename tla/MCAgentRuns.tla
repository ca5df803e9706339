---------------------------- MODULE MCAgentRuns ----------------------------
(* Two messages in one session, two people at its change sets.             *)
EXTENDS AgentRuns
=============================================================================
