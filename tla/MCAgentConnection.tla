------------------------- MODULE MCAgentConnection -------------------------
(* Instances of AgentConnection for TLC.                                   *)
EXTENDS AgentConnection
=============================================================================
