------------------------------ MODULE AgentLease ------------------------------
(***************************************************************************)
(* What the runs of configuration tasks promise about an Agent, without    *)
(* rows, transactions, messages or outcomes: a lease.                      *)
(*                                                                         *)
(* A run looks for an Agent that no run has, and later takes the one it    *)
(* found, without looking again: of several that looked before the first   *)
(* of them took it, each may take it.  It keeps that one Agent and gives   *)
(* it back once: a run that is over neither takes an Agent again nor moves *)
(* to another.                                                             *)
(***************************************************************************)
CONSTANTS Run, Agent, NoAgent

VARIABLES
  phase,    \* of each run: "new", "looking", "leasing" or "over"
  on        \* the Agent each run has found, has, or had

leaseVars == <<phase, on>>

Init ==
  /\ phase = [r \in Run |-> "new"]
  /\ on = [r \in Run |-> NoAgent]

Leased(a) == \E r \in Run : phase[r] = "leasing" /\ on[r] = a

Becomes(r, next) == phase' = [phase EXCEPT ![r] = next]

Look(r, a) ==
  /\ phase[r] = "new" /\ ~Leased(a)
  /\ Becomes(r, "looking") /\ on' = [on EXCEPT ![r] = a]

Take(r) ==
  /\ phase[r] = "looking"
  /\ Becomes(r, "leasing") /\ UNCHANGED on

\* Requests die before they take what they found, several at once.
Drop(dead) ==
  /\ \A r \in dead : phase[r] = "looking"
  /\ phase' = [r \in Run |-> IF r \in dead THEN "over" ELSE phase[r]]
  /\ UNCHANGED on

GiveBack(r) ==
  /\ phase[r] = "leasing"
  /\ Becomes(r, "over") /\ UNCHANGED on

Next ==
  \/ \E r \in Run : (\E a \in Agent : Look(r, a)) \/ Take(r) \/ GiveBack(r)
  \/ \E dead \in SUBSET Run : Drop(dead)

Spec == Init /\ [][Next]_leaseVars
=============================================================================
