-------------------------------- MODULE Daemon --------------------------------
(* The daemon, and its statistics alone with threads of their own: a behaviour *)
(* is about one of the two, and the other stands still.  (DaemonWatcher knows  *)
(* of the statistics that their lock may be held for ever: statsHeld.)         *)
EXTENDS DaemonWatcher

CONSTANTS Main,       \* the thread that runs the daemon
          JobNames,   \* file names of jobs
          NoThread, Triggers, MaxStarts

VARIABLES part,       \* which of the two a behaviour is about
          lock, pc, name, running, current, totals, due, started

statsVars == <<lock, pc, name, running, current, totals, due, started>>

Threads == Workers \cup {Main}
Stats == INSTANCE DaemonStats WITH Names <- JobNames

ASSUME ServiceAssumption == Stats!StatsAssumption

WatcherInit ==
    /\ part = "watcher" /\ Init
    /\ Stats!Init /\ name = [t \in Threads |-> CHOOSE n \in JobNames : TRUE]
StatsInit ==
    part = "stats" /\ Stats!Init /\ Init /\ \A i \in Items : place[i] = "away"

WatcherNext == part = "watcher" /\ Next /\ UNCHANGED <<part, statsVars>>
StatsNext == part = "stats" /\ Stats!Next /\ UNCHANGED <<part, vars>>

daemonVars == <<part, vars, statsVars>>
DaemonSpec == (WatcherInit \/ StatsInit) /\ [][WatcherNext \/ StatsNext]_daemonVars

\* The daemon alone.
WatcherSpec == WatcherInit /\ [][WatcherNext]_daemonVars

\* The fairness of each, for the steps of its own behaviours: threads that can
\* run do run.  (The monitoring loop and its retries need none here.)
FairDaemon ==
    /\ DaemonSpec
    /\ WF_vars(part = "watcher" /\ ObserverStep)
    /\ WF_vars(part = "watcher" /\ MainStep)
    /\ \A w \in Workers : WF_vars(part = "watcher" /\ WorkerStep(w))
    /\ \A t \in Threads : SF_statsVars(part = "stats" /\ Stats!Step(t))

\* DaemonStats!Accounting: a job that was started is counted once.
Accounting == Stats!Accounting

\* DaemonStats!CallsReturn: a call returns, unless it asks twice for the lock.
CallsReturn == Stats!CallsReturn
===============================================================================
