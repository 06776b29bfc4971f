------------------------------ MODULE AgentSlots ------------------------------
(***************************************************************************)
(* What the queue in front of an Agent promises its callers, without       *)
(* Redis, locks, leases or request ids: a pool of MaxConcurrent slots.     *)
(*                                                                         *)
(* A caller that is admitted works until it ends or is put back; nobody is *)
(* admitted while the pool is full.  A caller may end at any time, with or *)
(* without having been admitted (time limit, Agent offline, exception,     *)
(* death with the process), and whoever has ended stays so.                *)
(***************************************************************************)
EXTENDS Naturals, FiniteSets

CONSTANTS
  Call,           \* the callers
  MaxConcurrent   \* slots of the Agent

VARIABLE phase    \* of each caller: "new", "waiting", "working" or "ended"

Working == {c \in Call : phase[c] = "working"}

Init == phase = [c \in Call |-> "new"]

Move(c, from, to) ==
  /\ phase[c] \in from
  /\ phase' = [phase EXCEPT ![c] = to]

Enter(c)   == Move(c, {"new"}, "waiting")
Admit(c)   == /\ Cardinality(Working) < MaxConcurrent
              /\ Move(c, {"waiting"}, "working")
\* The caller could not be served: it waits again, its slot is free.
PutBack(c) == Move(c, {"working"}, "waiting")
End(c)     == Move(c, {"new", "waiting", "working"}, "ended")

\* Everybody who has entered ends at once.
Crash ==
  phase' = [c \in Call |-> IF phase[c] = "new" THEN "new" ELSE "ended"]

Next ==
  \/ \E c \in Call : Enter(c) \/ Admit(c) \/ PutBack(c) \/ End(c)
  \/ Crash

Spec == Init /\ [][Next]_phase
=============================================================================
