------------------------ MODULE MCTicketAiAnalysis ------------------------
(* Instances of TicketAiAnalysis for TLC: two tasks of one fingerprint.    *)
EXTENDS TicketAiAnalysis
=============================================================================
