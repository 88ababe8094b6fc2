-------------------------- MODULE MCRecoveryManager --------------------------
(* Small instances of RecoveryManager for TLC.                             *)
EXTENDS RecoveryManager, TLC

CONSTANTS p, q, r1, r2

\* Stage names in the order of the pipeline, and against it, as
\* "disks_discovered" < "mounted" < "start".
InOrder == [s \in Stages |-> s]
Reversed == [s \in Stages |-> 0 - s]

Symmetry == Permutations(Managers) \cup Permutations(RunIds)
=============================================================================
