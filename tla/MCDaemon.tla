------------------------------- MODULE MCDaemon -------------------------------
(* Small instances of the daemon and its statistics for TLC.                   *)
EXTENDS Daemon, MCDaemonWatcher

===============================================================================
