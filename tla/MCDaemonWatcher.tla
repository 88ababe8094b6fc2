--------------------------- MODULE MCDaemonWatcher ---------------------------
(* Small instances of DaemonWatcher for TLC.                               *)
EXTENDS DaemonWatcher, TLC

CONSTANTS a1, a2, b1, a, b, w1, w2

\* Two files under one name and one of another name.
MCNameOf == (a1 :> a) @@ (a2 :> a) @@ (b1 :> b)
MCSizeOf == (a1 :> 1) @@ (a2 :> 1) @@ (b1 :> 1)

\* One name only.
MCOneNameOf == (a1 :> a) @@ (a2 :> a)
MCOneSizeOf == (a1 :> 1) @@ (a2 :> 1)

WorkerSymmetry == Permutations(Workers)

=============================================================================
