------------------------ MODULE MCCredentialRefresh ------------------------
(* Instances of CredentialRefresh for TLC: two refreshes and a user.       *)
EXTENDS CredentialRefresh
=============================================================================
