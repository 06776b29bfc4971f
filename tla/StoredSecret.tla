---------------------------- MODULE StoredSecret ----------------------------
(***************************************************************************)
(* What a stored credential promises, without locks, leases, transactions  *)
(* or the copies clients work on: one secret, which holds a session of the *)
(* target and the changes users have made.                                 *)
(*                                                                         *)
(* The target may open a session at any time, which ends the one before.   *)
(* A refresh puts the session the target accepts in place of one it has    *)
(* ended, and nothing else; a user's change is added to what is stored and *)
(* brings no ended session back.                                           *)
(***************************************************************************)
EXTENDS Naturals

VARIABLES
  session,    \* the target session in the secret
  changes,    \* how many user changes are in it
  revision,
  deleted,
  accepted    \* the session the target accepts

secretVars == <<session, changes, revision, deleted, accepted>>

Init ==
  /\ session = 1 /\ changes = 0
  /\ revision = 1 /\ deleted = FALSE
  /\ accepted = 1

OpenSession ==
  /\ accepted' = accepted + 1
  /\ UNCHANGED <<session, changes, revision, deleted>>

(* Every write takes a revision, and a deleted secret is not written.      *)
Write == ~deleted /\ revision' = revision + 1 /\ UNCHANGED <<deleted, accepted>>

Rotate == Write /\ session < accepted /\ session' = accepted /\ UNCHANGED changes
Change == Write /\ changes' = changes + 1 /\ UNCHANGED session
EditFields == Write /\ UNCHANGED <<session, changes>>

Delete ==
  /\ ~deleted /\ deleted' = TRUE
  /\ UNCHANGED <<session, changes, revision, accepted>>

Next == OpenSession \/ Rotate \/ Change \/ EditFields \/ Delete

Spec == Init /\ [][Next]_secretVars
=============================================================================
