---------------------------- MODULE MCTicketLogPull ----------------------------
(* Instances of TicketLogPull for TLC.                                     *)
EXTENDS TicketLogPull

CONSTANTS r1, r2

\* Nothing was left behind; or one record before its thread got to it, and
\* one in its submission.
Nothing == [r \in Record |-> "absent"]
BeforeAndAfter == [r \in Record |-> IF r = r1 THEN "created" ELSE "submitting"]
=============================================================================
