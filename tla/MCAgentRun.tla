----------------------------- MODULE MCAgentRun -----------------------------
(* One run: two requests, two workers, two commands, a crash. *)
EXTENDS AgentRun, TLC
=============================================================================
