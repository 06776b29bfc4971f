--------------------------- MODULE MCConfigTaskRun ---------------------------
(* Instances of ConfigTaskRun for TLC: versions with one or two stages.    *)
EXTENDS ConfigTaskRun

\* The versions: a single step; one step per stage; two steps in
\* the first stage and one behind.
OneStep     == [i \in {1} |-> 1]
StepEach    == [i \in {1, 2} |-> i]
TwoAndOne   == [i \in {1, 2, 3} |-> IF i = 3 THEN 2 ELSE 1]

None == {}
All  == Run
Last == {Stages}
=============================================================================
