----------------------------- MODULE DaemonStats -----------------------------
(***************************************************************************)
(* DaemonStatistics (src/hyper2kvm/daemon/stats.py): the counters and the  *)
(* table of current jobs, guarded by one threading.Lock.  Workers start    *)
(* and complete jobs, any thread asks for the summary, the main thread     *)
(* saves when it stops and prints the summary on SIGUSR1, wherever the     *)
(* signal finds it.  The lock is not re-entrant and the methods call each  *)
(* other while they hold it, so a call is the sequence of its              *)
(* acquisitions.  What save() does after it has called get_summary() is    *)
(* not modelled: no execution gets there.                                  *)
(***************************************************************************)
EXTENDS Naturals, FiniteSets

CONSTANTS
    Threads,    \* threads that call the object
    Main,       \* the one that runs DaemonWatcher.run
    Names,      \* file names of jobs, the keys of current_jobs
    NoThread,   \* the owner of a free lock
    MaxStarts,  \* bound: jobs started
    Triggers    \* which of "minute", "stop", "signal" can happen

\* What is assumed of the constants.
StatsAssumption ==
    /\ Main \in Threads /\ NoThread \notin Threads /\ MaxStarts \in Nat
    /\ Triggers \subseteq {"minute", "stop", "signal"}

VARIABLES
    lock,       \* owner of self.lock
    pc,         \* what each thread is about to do
    name,       \* the name of the file a thread works on
    running,    \* threads between job_started and job_completed
    current,    \* keys of self.current_jobs
    totals,     \* total_processed and total_failed
    due,        \* time.time() - _last_save > _save_interval
    started     \* jobs started so far

vars == <<lock, pc, name, running, current, totals, due, started>>

Wanting == {"job_started", "job_completed", "get_summary", "save"}
Inside == {"starting", "completing", "leave"}

\* __init__ and _load on an output directory without stats.json.
Init ==
    /\ lock = NoThread /\ pc = [t \in Threads |-> "idle"]
    /\ name \in [Threads -> Names] /\ running = {} /\ current = {}
    /\ totals = [processed |-> 0, failed |-> 0]
    /\ due = FALSE /\ started = 0

Goto(t, p) == pc' = [pc EXCEPT ![t] = p]

\* Lock.acquire() goes through when nobody, the caller included, is the owner.
Free == lock = NoThread

MinutePasses ==
    /\ "minute" \in Triggers /\ ~due /\ due' = TRUE
    /\ UNCHANGED <<lock, pc, name, running, current, totals, started>>

CallJobStarted(t) ==
    /\ pc[t] = "idle" /\ t # Main /\ t \notin running /\ started < MaxStarts
    /\ Goto(t, "job_started")
    /\ UNCHANGED <<lock, name, running, current, totals, due, started>>

CallJobCompleted(t) ==
    /\ pc[t] = "idle" /\ t \in running /\ Goto(t, "job_completed")
    /\ UNCHANGED <<lock, name, running, current, totals, due, started>>

\* The status command and the hourly report.
CallGetSummary(t) ==
    /\ pc[t] = "idle" /\ Goto(t, "get_summary")
    /\ UNCHANGED <<lock, name, running, current, totals, due, started>>

\* stop() ends with save(force=True).
CallSave ==
    /\ "stop" \in Triggers /\ pc[Main] = "idle" /\ Goto(Main, "save")
    /\ UNCHANGED <<lock, name, running, current, totals, due, started>>

\* SIGUSR1 while the main thread holds the lock: the handler wants it as well.
Signal ==
    /\ "signal" \in Triggers /\ lock = Main /\ pc[Main] = "leave"
    /\ Goto(Main, "get_summary")
    /\ UNCHANGED <<lock, name, running, current, totals, due, started>>

Acquire(t) ==
    /\ pc[t] \in Wanting /\ Free /\ lock' = t
    /\ Goto(t, CASE pc[t] = "job_started" -> "starting"
                 [] pc[t] = "job_completed" -> "completing"
                 [] pc[t] = "get_summary" -> "leave"
                 [] pc[t] = "save" -> "get_summary")
    /\ UNCHANGED <<name, running, current, totals, due, started>>

JobStarted(t) ==
    /\ pc[t] = "starting" /\ Goto(t, "leave")
    /\ running' = running \cup {t} /\ current' = current \cup {name[t]}
    /\ started' = started + 1
    /\ UNCHANGED <<lock, name, totals, due>>

\* Which counter a finished job increments.  (Weaker form: success
\* only.)
CountSuccess(ok) == IF ok THEN [totals EXCEPT !.processed = @ + 1] ELSE totals
Count(ok) == IF ok THEN [totals EXCEPT !.processed = @ + 1]
             ELSE [totals EXCEPT !.failed = @ + 1]

\* job_completed calls save() with the lock held when a minute has passed.
SaveIfDue == IF due THEN "save" ELSE "leave"

\* The early return leaves the with block.  (Weaker form: with the lock.)
ReturnLocked(t) == Goto(t, "idle")
ReturnEarly(t) == Goto(t, "leave")

\* del current_jobs[filename].
Unlist(t) == current \ {name[t]}

\* A name nobody lists any more is not counted.
JobCompleted(t) ==
    /\ pc[t] = "completing" /\ running' = running \ {t}
    /\ IF name[t] \in current
       THEN /\ \E ok \in BOOLEAN : totals' = Count(ok)
            /\ current' = Unlist(t) /\ Goto(t, SaveIfDue)
       ELSE ReturnEarly(t) /\ UNCHANGED <<current, totals>>
    /\ UNCHANGED <<lock, name, due, started>>

\* The outermost with block ends.
Release(t) ==
    /\ pc[t] = "leave" /\ lock' = NoThread /\ Goto(t, "idle")
    /\ UNCHANGED <<name, running, current, totals, due, started>>

Step(t) == Acquire(t) \/ JobStarted(t) \/ JobCompleted(t) \/ Release(t)

Next ==
    \/ MinutePasses \/ CallSave \/ Signal
    \/ \E t \in Threads : \/ CallJobStarted(t) \/ CallJobCompleted(t)
                          \/ CallGetSummary(t) \/ Step(t)

Spec == Init /\ [][Next]_vars

\* A thread that can go on does; a waiter gets a lock that is free again and
\* again.
FairSpec == Spec /\ \A t \in Threads : SF_vars(Step(t))

-----------------------------------------------------------------------------

TypeOK ==
    /\ lock \in Threads \cup {NoThread}
    /\ pc \in [Threads -> {"idle"} \cup Wanting \cup Inside]
    /\ name \in [Threads -> Names]
    /\ running \subseteq Threads /\ current \subseteq Names
    /\ totals \in [processed : Nat, failed : Nat]
    /\ due \in BOOLEAN /\ started \in Nat

\* Whenever no call is in progress every job that was started is counted once:
\* as processed, as failed or as current.  When two threads work on files of one
\* name the table keeps one of them, and jobs go uncounted, never counted twice.
Accounting ==
    LET counted == totals.processed + totals.failed + Cardinality(current)
        distinct == \A t, u \in Threads \ {Main} : t # u => name[t] # name[u]
    IN  lock = NoThread => counted <= started /\ (distinct => counted = started)

\* A thread that wants the lock it holds: nothing can free it.
Jammed == \E t \in Threads : lock = t /\ pc[t] \in Wanting

\* Every call returns, unless some thread asks again for the lock it holds; in
\* particular while no minute passes, nothing stops and no signal comes.
CallsReturn ==
    [](\A t \in Threads : pc[t] # "idle" => <>(pc[t] = "idle" \/ Jammed))

\* (Violated.)  "Stats are automatically: Saved every 60 seconds": a save that
\* begins ends.
SavesFinish == \A t \in Threads : pc[t] = "save" ~> pc[t] = "idle"

=============================================================================
