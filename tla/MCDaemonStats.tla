---------------------------- MODULE MCDaemonStats ----------------------------
(* Small instances of DaemonStats for TLC.                                 *)
EXTENDS DaemonStats, TLC

CONSTANTS m, w1, w2

WorkerSymmetry == Permutations({w1, w2})
=============================================================================
