-------------------------- MODULE MCAgentDirector --------------------------
(* Instances of AgentDirector, and of AgentResilience within it, for TLC. *)
EXTENDS AgentDirector, TLC
=============================================================================
