----------------------------- MODULE MCCeleryJob -----------------------------
(* Instances of CeleryJob for TLC.                                         *)
EXTENDS CeleryJob, TLC

CONSTANTS once, cron, d1, d2, d3

None == {}
Interchangeable == Permutations(Delivery)
=============================================================================
