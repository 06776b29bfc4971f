-------------------------- MODULE MCAgentDispatch --------------------------
(* Instances of AgentDispatch for TLC.                                     *)
EXTENDS AgentDispatch

CONSTANTS a, b, d

\* Every invocation with a request id of its own.
Distinct == [c \in Call |-> c]
\* Two invocations for one request (it is submitted again), one for another.
Repeated == [c \in Call |-> IF c = b THEN a ELSE c]
=============================================================================
