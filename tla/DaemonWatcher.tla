---------------------------- MODULE DaemonWatcher ----------------------------
(***************************************************************************)
(* The watch-directory daemon (src/hyper2kvm/daemon): the watchdog        *)
(* observer thread with VMFileHandler, the start-up scan and monitoring   *)
(* loop of the main thread, the worker pool, RetryManager, the             *)
(* FileDeduplicator table, the job table and lock of DaemonStatistics, and *)
(* the pause, drain and stop requests of DaemonControl.                    *)
(*                                                                         *)
(* An item is one file somebody drops; two items of one name are two       *)
(* contents that arrive under the same path at different times.  Threads   *)
(* know paths (names); directories hold items.                             *)
(***************************************************************************)
EXTENDS Integers, Sequences, FiniteSets

CONSTANTS
    Items,              \* files that may be dropped into watch_dir
    Names,              \* paths in watch_dir
    NameOf,             \* NameOf[i]: the name item i is dropped under
    SizeOf,             \* SizeOf[i]: its size, the other half of the dedup key
    Workers,            \* the max_workers threads running _worker_loop
    MaxRetries,         \* retry_policy.max_retries
    NoName,             \* a thread that holds no path
    MaxCrashes,         \* bound: kills of the daemon process
    ArrivalsDuringScan, \* may a file be dropped before the scan is over?
    Withdrawals,        \* items somebody may remove from watch_dir
    Copies,             \* items that are copied there; the others are moved
    Requests,           \* what an operator may ask: pause, drain, stop, sigterm
    HandlerFaults,      \* may the error handler of _process_file itself fail?
    SaveDue             \* may 60 s pass between two stats.save?

ASSUME NamesAssumption == NoName \notin Names
ASSUME ItemsAssumption == /\ NameOf \in [Items -> Names]
                          /\ SizeOf \in [Items -> Nat \ {0}]
ASSUME BoundsAssumption == /\ MaxRetries \in Nat /\ MaxCrashes \in Nat
                           /\ Requests \subseteq {"pause", "drain", "stop", "sigterm"}
ASSUME FlagsAssumption == /\ ArrivalsDuringScan \in BOOLEAN
                          /\ Withdrawals \subseteq Items /\ Copies \subseteq Items
                          /\ HandlerFaults \in BOOLEAN /\ SaveDue \in BOOLEAN

VARIABLES
    place,      \* where each item is; watch_dir, .processed, .errors persist
    partial,    \* items that somebody is still copying
    db,         \* rows of processed_files, at most one per <<name, size>>
    lost,       \* history: items whose last row was not written, or with a size
                \* they did not keep
    early,      \* history: items let through with a size they did not keep
    main,       \* the main thread, or why the process is not running
    scanLeft,   \* names the start-up glob has not reached
    events,     \* watchdog events not yet dispatched
    observer,   \* the observer thread inside _queue_file
    queue,      \* self.queue
    unfinished, \* queue.unfinished_tasks
    processing, \* handler.processing
    processed,  \* handler.processed
    worker,     \* each worker thread: its place in _process_file, its path
    retryq,     \* retry_manager.retry_queue
    submitted,  \* retries waiting in the executor for a free thread
    jobs,       \* keys of stats.current_jobs
    statsHeld,  \* stats.lock held by a thread that will never release it
    stopEvent, pauseEvent,
    draining,   \* DaemonControl.draining
    crashes

vars == <<place, partial, db, lost, early, main, scanLeft, events, observer, queue, unfinished,
          processing, processed, worker, retryq, submitted, jobs, statsHeld,
          stopEvent, pauseEvent, draining, crashes>>
disk == <<place, partial, db, lost, early, crashes>>
table == <<db, lost>>
intake == <<events, observer, scanLeft>>
books == <<processing, processed, queue, unfinished>>
control == <<stopEvent, pauseEvent, draining>>

Places == {"away", "watch", "processed", "errors", "gone"}
Idle == [pc |-> "idle", name |-> NoName]      \* a worker: blocked in queue.get
Unborn == [pc |-> "unborn", name |-> NoName]  \* no executor yet
Ended == [pc |-> "ended", name |-> NoName]    \* _worker_loop has returned
NoRetry == [known |-> FALSE, attempts |-> 0, due |-> FALSE]

InDir(n, d) == \E i \in Items : NameOf[i] = n /\ place[i] = d
InWatch(n) == InDir(n, "watch")

\* rename(2) of name n between two directories: a file already there under
\* that name is replaced when over holds.
Rename(n, from, to, over) ==
    place' = [i \in Items |->
        IF NameOf[i] = n /\ place[i] = from THEN to
        ELSE IF NameOf[i] = n /\ place[i] = to /\ over THEN "gone"
        ELSE place[i]]

\* What lies in watch_dir under n (at most one item).
Now(n) == {i \in Items : NameOf[i] = n /\ place[i] = "watch"}

\* What stat may say of the size of n: of a file being copied, whatever is
\* there by now; 0 stands for a file that is gone.
SizesOf(i) == IF i \in partial THEN 0..SizeOf[i] ELSE {SizeOf[i]}
SizesIn(n) == IF InWatch(n) THEN UNION {SizesOf(i) : i \in Now(n)} ELSE {0}

Row(n, s) == \E r \in db : r.name = n /\ r.size = s

\* FileDeduplicator.is_duplicate: any row of the key, whatever its status.
\* (Weaker forms: no lookup at all; a lookup that forgets the size.)
NeverDuplicate(n, s) == FALSE
DuplicateByName(n, s) == \E r \in db : r.name = n
IsDuplicate(n, s) == Row(n, s)

\* The lookup let n through with size s.
LetThrough(n, s) ==
    early' = {i \in early \cup Now(n) : i \in Now(n) => SizeOf[i] # s}

\* FileDeduplicator.mark_processed: INSERT OR REPLACE of one row; the size of
\* a file that is no longer there is recorded as 0.  An INSERT that fails is
\* logged and the caller goes on.  (Weaker form: the row is forgotten.)
Written(n, s) == lost' = {i \in lost \cup Now(n) : i \in Now(n) => SizeOf[i] # s}
RowLost(n) == lost' = lost \cup Now(n) /\ UNCHANGED db
MarkForgotten(n, st) == UNCHANGED table
MarkProcessed(n, st) ==
    \/ \E s \in SizesIn(n) :
          /\ db' = {r \in db : r.name # n \/ r.size # s}
                      \cup {[name |-> n, size |-> s, status |-> st]}
          /\ Written(n, s)
    \/ RowLost(n)

\* Queue.put.
Put(n) == queue' = Append(queue, n) /\ unfinished' = unfinished + 1

\* The test of _is_valid_file under handler.lock.  (Weaker form: only finished
\* paths are refused.)
Finished(n) == n \in processed
Known(n) == n \in processing \cup processed

\* stats.job_completed: the job leaves the table.  (Weaker form: it stays.)
KeepJob(n) == UNCHANGED jobs
EndJob(n) == jobs' = jobs \ {n}

Init ==
    /\ place \in [Items -> {"away", "watch"}]
    /\ \A i, j \in Items : place[i] = "watch" /\ place[j] = "watch"
                              /\ NameOf[i] = NameOf[j] => i = j
    /\ partial = {} /\ db = {} /\ lost = {} /\ early = {}
    /\ main = "down" /\ crashes = 0
    /\ scanLeft = {} /\ events = <<>> /\ observer = Idle
    /\ queue = <<>> /\ unfinished = 0 /\ processing = {} /\ processed = {}
    /\ worker = [w \in Workers |-> Unborn]
    /\ retryq = [n \in Names |-> NoRetry] /\ submitted = <<>>
    /\ jobs = {} /\ statsHeld = FALSE
    /\ stopEvent = FALSE /\ pauseEvent = FALSE /\ draining = FALSE

-----------------------------------------------------------------------------
(* The directory: what people do to it, and the events it causes.          *)

Alive == main \notin {"down", "exited"}

\* A file appears in watch_dir: moved there in one piece, or created by a copy
\* that goes on.  Overwriting a file that is still in watch_dir is left out.
Drop(i) ==
    /\ place[i] = "away" /\ ~InWatch(NameOf[i])
    /\ main = "scanning" => ArrivalsDuringScan
    /\ place' = [place EXCEPT ![i] = "watch"]
    /\ partial' = partial \cup ({i} \cap Copies)
    /\ events' = IF Alive /\ observer.pc # "dead"
                 THEN Append(events, NameOf[i]) ELSE events
    /\ UNCHANGED <<table, early, main, scanLeft, observer, books, worker,
                   retryq, submitted, jobs, statsHeld, control, crashes>>

\* The copy of a file is complete, wherever the daemon has moved it meanwhile.
Copied(i) ==
    /\ i \in partial /\ partial' = partial \ {i}
    /\ UNCHANGED <<place, table, early, main, intake, books, worker, retryq,
                   submitted, jobs, statsHeld, control, crashes>>

\* Somebody takes a file away again.
Withdraw(i) ==
    /\ i \in Withdrawals /\ place[i] = "watch"
    /\ place' = [place EXCEPT ![i] = "gone"]
    /\ UNCHANGED <<partial, table, early, main, intake, books, worker, retryq, submitted, jobs,
                   statsHeld, control, crashes>>

-----------------------------------------------------------------------------
(* The observer thread: on_created / on_moved run _queue_file.             *)

\* _is_valid_file under handler.lock.
ObserverTake ==
    /\ Alive /\ ~stopEvent /\ observer = Idle /\ events # <<>>
    /\ events' = Tail(events)
    /\ observer' = IF InWatch(Head(events))
                      /\ ~Known(Head(events))
                   THEN [pc |-> "dedup", name |-> Head(events)] ELSE Idle
    /\ UNCHANGED <<disk, main, scanLeft, books, worker, retryq, submitted,
                   jobs, statsHeld, control>>

\* is_duplicate; stat of a file that has gone raises in the observer thread,
\* which nothing catches: the thread ends.
ObserverDedup ==
    /\ Alive /\ observer.pc = "dedup"
    /\ \/ /\ ~InWatch(observer.name)
          /\ observer' = [pc |-> "dead", name |-> NoName]
          /\ events' = <<>> /\ UNCHANGED <<processed, early>>
       \/ /\ InWatch(observer.name)
          /\ \E s \in SizesIn(observer.name) : IsDuplicate(observer.name, s)
          /\ processed' = processed \cup {observer.name}
          /\ observer' = Idle /\ UNCHANGED <<events, early>>
       \/ /\ InWatch(observer.name)
          /\ \E s \in SizesIn(observer.name) : /\ ~IsDuplicate(observer.name, s)
                                               /\ LetThrough(observer.name, s)
          /\ observer' = [observer EXCEPT !.pc = "settle"]
          /\ UNCHANGED <<processed, events>>
    /\ UNCHANGED <<place, partial, table, crashes, main, scanLeft, processing,
                   queue, unfinished, worker, retryq, submitted, jobs,
                   statsHeld, control>>

\* _wait_for_file_stable, which takes a copy that stands still for three checks
\* for a complete file; then processing.add and queue.put.
ObserverPut ==
    /\ Alive /\ observer.pc = "settle" /\ InWatch(observer.name)
    /\ processing' = processing \cup {observer.name}
    /\ Put(observer.name)
    /\ observer' = Idle
    /\ UNCHANGED <<disk, main, scanLeft, events, processed, worker, retryq,
                   submitted, jobs, statsHeld, control>>

\* The file disappeared or kept growing for file_stable_timeout checks.
ObserverGiveUp ==
    /\ Alive /\ observer.pc = "settle"
    /\ Now(observer.name) \subseteq partial \cup early
    /\ observer' = Idle
    /\ UNCHANGED <<disk, main, scanLeft, events, books, worker, retryq,
                   submitted, jobs, statsHeld, control>>

-----------------------------------------------------------------------------
(* The main thread: start, scan, monitoring loop, stop.                    *)

\* __init__ and run up to observer.start().
Start ==
    /\ main = "down"
    /\ main' = "scanning" /\ scanLeft' = Names
    /\ UNCHANGED <<disk, events, observer, books, worker, retryq, submitted,
                   jobs, statsHeld, control>>

\* _scan_existing_files for one glob result: dedup, queue.put, processing.add,
\* whether the file is complete or not; it does not look at handler.processing
\* or handler.processed.
Scan(n) ==
    /\ main = "scanning" /\ n \in scanLeft
    /\ scanLeft' = scanLeft \ {n}
    /\ \/ /\ InWatch(n) => \E s \in SizesIn(n) : IsDuplicate(n, s)
          /\ UNCHANGED <<books, early>>
       \/ /\ InWatch(n)
          /\ \E s \in SizesIn(n) : ~IsDuplicate(n, s) /\ LetThrough(n, s)
          /\ Put(n)
          /\ processing' = processing \cup {n} /\ UNCHANGED processed
    /\ UNCHANGED <<place, partial, table, crashes, main, events, observer,
                   worker, retryq, submitted, jobs, statsHeld, control>>

\* The executor gets its worker loops, run enters the monitoring loop.
ScanDone ==
    /\ main = "scanning" /\ scanLeft = {}
    /\ main' = "running"
    /\ worker' = [w \in Workers |-> IF stopEvent THEN Ended ELSE Idle]
    /\ UNCHANGED <<disk, intake, books, retryq, submitted, jobs, statsHeld,
                   control>>

\* Time passes next_retry.
RetryDue(n) ==
    /\ Alive /\ retryq[n].known /\ ~retryq[n].due
    /\ retryq' = [retryq EXCEPT ![n].due = TRUE]
    /\ UNCHANGED <<disk, main, intake, books, worker, submitted, jobs,
                   statsHeld, control>>

\* _process_retries for one pending entry: only a file found in .errors is
\* renamed back and submitted; every pool thread runs a worker loop, so the
\* submission waits for one of them to end.
ProcessRetry(n) ==
    /\ main = "running" /\ ~stopEvent
    /\ retryq[n].due /\ retryq[n].attempts < MaxRetries /\ InDir(n, "errors")
    /\ Rename(n, "errors", "watch", TRUE)
    /\ events' = IF observer.pc # "dead" THEN Append(events, n) ELSE events
    /\ submitted' = Append(submitted, n)
    /\ UNCHANGED <<partial, table, early, main, scanLeft, observer, books,
                   worker, retryq, jobs, statsHeld, control, crashes>>

Pause ==
    /\ "pause" \in Requests /\ Alive /\ pauseEvent' = TRUE
    /\ UNCHANGED <<disk, main, intake, books, worker, retryq, submitted, jobs,
                   statsHeld, stopEvent, draining>>

Resume ==
    /\ Alive /\ pauseEvent /\ pauseEvent' = FALSE
    /\ UNCHANGED <<disk, main, intake, books, worker, retryq, submitted, jobs,
                   statsHeld, stopEvent, draining>>

\* The drain request sets DaemonControl.draining; nothing reads it, and
\* DaemonWatcher.drain_mode stays FALSE.
Drain ==
    /\ "drain" \in Requests /\ Alive /\ draining' = TRUE
    /\ UNCHANGED <<disk, main, intake, books, worker, retryq, submitted, jobs,
                   statsHeld, stopEvent, pauseEvent>>

\* stop() in the main thread, from the SIGTERM handler.
StopSignal ==
    /\ "sigterm" \in Requests /\ main \in {"scanning", "running"}
    /\ stopEvent' = TRUE /\ main' = "stopping"
    /\ UNCHANGED <<disk, intake, books, worker, retryq, submitted, jobs,
                   statsHeld, pauseEvent, draining>>

\* stop() in the control thread, from the stop request.
StopCommand ==
    /\ "stop" \in Requests /\ main \in {"scanning", "running"}
    /\ stopEvent' = TRUE
    /\ UNCHANGED <<disk, main, intake, books, worker, retryq, submitted, jobs,
                   statsHeld, pauseEvent, draining>>

WorkersEnded == /\ \A w \in Workers : worker[w] \in {Unborn, Ended}
                /\ submitted = <<>>

\* The signal handler after executor.shutdown(wait=True): queue.join() when
\* files are left, then stats.save, whose get_summary takes the lock that save
\* holds: the thread waits for itself.
StopSave ==
    /\ main = "stopping" /\ WorkersEnded /\ ~statsHeld
    /\ queue # <<>> => unfinished = 0
    /\ statsHeld' = TRUE /\ main' = "saving"
    /\ UNCHANGED <<disk, intake, books, worker, retryq, submitted, jobs,
                   control>>

\* After a stop request the control thread fails to join itself, and the rest
\* of stop() is skipped; run() sees stop_event and returns.
Exit ==
    /\ main = "running" /\ stopEvent /\ WorkersEnded
    /\ main' = "exited"
    /\ UNCHANGED <<disk, intake, books, worker, retryq, submitted, jobs,
                   statsHeld, control>>

\* The process is killed, or started again after it has exited.
Crash ==
    /\ main # "down" /\ crashes < MaxCrashes
    /\ crashes' = crashes + 1
    /\ main' = "down" /\ scanLeft' = {} /\ events' = <<>> /\ observer' = Idle
    /\ queue' = <<>> /\ unfinished' = 0 /\ processing' = {} /\ processed' = {}
    /\ worker' = [w \in Workers |-> Unborn]
    /\ retryq' = [n \in Names |-> NoRetry] /\ submitted' = <<>>
    /\ jobs' = {} /\ statsHeld' = FALSE
    /\ stopEvent' = FALSE /\ pauseEvent' = FALSE /\ draining' = FALSE
    /\ early' = {} /\ UNCHANGED <<place, partial, table>>

-----------------------------------------------------------------------------
(* A worker thread: _worker_loop and _process_file.                        *)

At(w, pc) == worker[w].pc = pc
Goto(w, pc) == worker' = [worker EXCEPT ![w].pc = pc]
\* Back at the test of the while loop.
LoopTest(w) ==
    worker' = [worker EXCEPT ![w] = IF stopEvent THEN Ended ELSE Idle]

\* queue.get(timeout=1.0): a thread already waiting takes an item even when
\* stop_event has been set meanwhile ...
WorkerGet(w) ==
    /\ Alive /\ worker[w] = Idle /\ queue # <<>>
    /\ worker' = [worker EXCEPT ![w] = [pc |-> "taken", name |-> Head(queue)]]
    /\ queue' = Tail(queue)
    /\ UNCHANGED <<disk, main, intake, processing, processed, unfinished,
                   retryq, submitted, jobs, statsHeld, control>>

\* ... or its wait times out and it sees stop_event.
WorkerEnd(w) ==
    /\ Alive /\ worker[w] = Idle /\ stopEvent
    /\ LoopTest(w)
    /\ UNCHANGED <<disk, main, intake, books, retryq, submitted, jobs,
                   statsHeld, control>>

\* The pause loop, the stop check, stat, stats.job_started.
WorkerBegin(w) ==
    /\ At(w, "taken") /\ Alive
    /\ \/ /\ stopEvent /\ Goto(w, "done") /\ UNCHANGED jobs
       \/ /\ ~stopEvent /\ ~pauseEvent /\ ~InWatch(worker[w].name)
          /\ Goto(w, "failed") /\ UNCHANGED jobs
       \/ /\ ~stopEvent /\ ~pauseEvent /\ InWatch(worker[w].name) /\ ~statsHeld
          /\ Goto(w, "converting") /\ jobs' = jobs \cup {worker[w].name}
    /\ UNCHANGED <<disk, main, intake, books, retryq, submitted, statsHeld,
                   control>>

\* Orchestrator.run returns: dedup success row, clear_retry.
ConvertOK(w) ==
    /\ At(w, "converting") /\ Alive
    /\ MarkProcessed(worker[w].name, "success")
    /\ retryq' = [retryq EXCEPT ![worker[w].name] = NoRetry]
    /\ Goto(w, "converted")
    /\ UNCHANGED <<place, partial, early, main, intake, books, submitted, jobs, statsHeld,
                   control, crashes>>

\* Orchestrator.run raises.
ConvertFail(w) ==
    /\ At(w, "converting") /\ Alive
    /\ Goto(w, "failed")
    /\ UNCHANGED <<disk, main, intake, books, retryq, submitted, jobs,
                   statsHeld, control>>

\* rename into .processed/<date>: an archive of the same day is replaced; a
\* file that has gone, or a directory that cannot be made, makes it raise.
Archive(w) ==
    /\ At(w, "converted") /\ Alive
    /\ \/ /\ InWatch(worker[w].name)
          /\ \E sameDay \in BOOLEAN :
                Rename(worker[w].name, "watch", "processed", sameDay)
          /\ Goto(w, "done")
       \/ Goto(w, "failed") /\ UNCHANGED place
    /\ UNCHANGED <<partial, table, early, main, intake, books, retryq,
                   submitted, jobs, statsHeld, control, crashes>>

\* RetryManager.should_retry and, when it answers yes, record_retry.
ShouldRetry(n) ==
    ~retryq[n].known \/ (retryq[n].attempts < MaxRetries /\ retryq[n].due)

\* record_retry counts up from 0.
NextAttempt(n) == retryq[n].attempts + 1

\* The except branch that schedules a retry: the file stays where it is.
FailRetry(w) ==
    LET n == worker[w].name IN
    /\ At(w, "failed") /\ Alive /\ ShouldRetry(n)
    /\ retryq' = [retryq EXCEPT ![n] = [known |-> TRUE, due |-> FALSE,
                                        attempts |-> NextAttempt(n)]]
    /\ Goto(w, "done")
    /\ UNCHANGED <<disk, main, intake, books, submitted, jobs, statsHeld,
                   control>>

\* The except branch that gives up: a failed row, then the move to .errors.
FailMark(w) ==
    /\ At(w, "failed") /\ Alive /\ ~ShouldRetry(worker[w].name)
    /\ MarkProcessed(worker[w].name, "failed")
    /\ Goto(w, "rejected")
    /\ UNCHANGED <<place, partial, early, main, intake, books, retryq, submitted, jobs,
                   statsHeld, control, crashes>>

\* A rename that fails is logged.
FailMove(w) ==
    /\ At(w, "rejected") /\ Alive
    /\ \/ Rename(worker[w].name, "watch", "errors", InWatch(worker[w].name))
       \/ UNCHANGED place
    /\ Goto(w, "done")
    /\ UNCHANGED <<partial, table, early, main, intake, books, retryq,
                   submitted, jobs, statsHeld, control, crashes>>

\* The finally clause (stats.job_completed, with its periodic save), then
\* mark_completed(success=True) and task_done in _worker_loop.
Finish(w) ==
    /\ At(w, "done") /\ Alive /\ ~statsHeld
    /\ EndJob(worker[w].name)
    /\ \/ /\ processing' = processing \ {worker[w].name}
          /\ processed' = processed \cup {worker[w].name}
          /\ unfinished' = unfinished - 1
          /\ LoopTest(w)
          /\ UNCHANGED statsHeld
       \/ /\ SaveDue /\ worker[w].name \in jobs
          /\ statsHeld' = TRUE
          /\ Goto(w, "stuck")
          /\ UNCHANGED <<processing, processed, unfinished>>
    /\ UNCHANGED <<disk, main, intake, queue, retryq, submitted, control>>

\* The error handler itself raises (no room for the error report or for
\* .errors): finally
\* runs, _worker_loop catches, mark_completed and task_done are skipped.
HandlerError(w) ==
    /\ HandlerFaults /\ (At(w, "failed") \/ At(w, "rejected")) /\ Alive /\ ~statsHeld
    /\ EndJob(worker[w].name)
    /\ LoopTest(w)
    /\ UNCHANGED <<disk, main, intake, books, retryq, submitted, statsHeld,
                   control>>

\* A pool thread whose loop has ended runs a submitted retry, which sees
\* stop_event and returns at once.
RunSubmitted(w) ==
    /\ Alive /\ worker[w] = Ended /\ submitted # <<>> /\ ~statsHeld
    /\ submitted' = Tail(submitted)
    /\ EndJob(Head(submitted))
    /\ UNCHANGED <<disk, main, intake, books, worker, retryq, statsHeld,
                   control>>

-----------------------------------------------------------------------------

WorkerStep(w) ==
    \/ WorkerGet(w) \/ WorkerEnd(w) \/ WorkerBegin(w)
    \/ ConvertOK(w) \/ ConvertFail(w) \/ Archive(w)
    \/ FailRetry(w) \/ FailMark(w) \/ FailMove(w) \/ Finish(w)
    \/ HandlerError(w) \/ RunSubmitted(w)
ObserverStep == ObserverTake \/ ObserverDedup \/ ObserverPut \/ ObserverGiveUp
MainStep == Start \/ (\E n \in Names : Scan(n)) \/ ScanDone \/ StopSave \/ Exit

Next ==
    \/ \E i \in Items : Drop(i) \/ Copied(i) \/ Withdraw(i)
    \/ ObserverStep \/ MainStep
    \/ \E n \in Names : RetryDue(n) \/ ProcessRetry(n)
    \/ Pause \/ Resume \/ Drain \/ StopSignal \/ StopCommand \/ Crash
    \/ \E w \in Workers : WorkerStep(w)

Spec == Init /\ [][Next]_vars

\* Threads that can run do run; time passes; the monitoring loop is periodic;
\* a service manager starts the daemon again.
Fairness ==
    /\ WF_vars(ObserverStep) /\ WF_vars(MainStep)
    /\ \A n \in Names : WF_vars(RetryDue(n)) /\ WF_vars(ProcessRetry(n))
    /\ \A w \in Workers : WF_vars(WorkerStep(w))

FairSpec == Spec /\ Fairness

-----------------------------------------------------------------------------
(* Properties.                                                             *)

Busy == {"taken", "converting", "converted", "failed", "rejected", "done", "stuck"}
WorkerStates == [pc : Busy, name : Names] \cup {Unborn, Idle, Ended}
ObserverStates == [pc : {"dedup", "settle"}, name : Names]
                      \cup {Idle, [pc |-> "dead", name |-> NoName]}

Rows == [name : Names, size : Nat, status : {"success", "failed"}]
RetryEntries == [known : BOOLEAN, attempts : Nat, due : BOOLEAN]

TypeOK ==
    /\ place \in [Items -> Places] /\ db \subseteq Rows
    /\ partial \subseteq Items /\ lost \subseteq Items /\ early \subseteq Items
    /\ main \in {"down", "scanning", "running", "stopping", "saving", "exited"}
    /\ scanLeft \subseteq Names /\ events \in Seq(Names)
    /\ observer \in ObserverStates
    /\ queue \in Seq(Names) /\ unfinished \in Int
    /\ processing \subseteq Names /\ processed \subseteq Names
    /\ worker \in [Workers -> WorkerStates]
    /\ retryq \in [Names -> RetryEntries]
    /\ submitted \in Seq(Names) /\ jobs \subseteq Names
    /\ statsHeld \in BOOLEAN /\ stopEvent \in BOOLEAN
    /\ pauseEvent \in BOOLEAN /\ draining \in BOOLEAN
    /\ crashes \in Nat

\* No two workers are ever inside _process_file with the same path: the
\* processing and processed sets, the scan and the observer's checks together
\* keep a path from being queued twice in one run of the daemon.
OneWorkerPerFile ==
    \A v, w \in Workers :
        v # w /\ worker[v].pc \in Busy /\ worker[w].pc \in Busy
            => worker[v].name # worker[w].name

\* Whatever crash or restart came between, a file in .processed has a success
\* row and a file in .errors a failed one: the row is written before the rename.
\* Unless the INSERT of that row failed, which mark_processed hides from its
\* caller, or the file was still being copied when it was recorded.
OutcomeRecorded ==
    \A i \in Items \ lost : \A d \in {"processed", "errors"} :
        place[i] = d => \E r \in db : /\ r.name = NameOf[i]
                                      /\ r.size = SizeOf[i]
                                      /\ (r.status = "success") = (d = "processed")

\* No job stays in stats.current_jobs after its worker has left it, whichever
\* way the worker left.
NoGhostJobs ==
    \A n \in jobs : \E w \in Workers :
        /\ worker[w].name = n
        /\ worker[w].pc \in {"converting", "converted", "failed", "rejected",
                             "done"}

\* A conversion never starts on a file whose name and size already have a
\* success row, in this run of the daemon or after a restart, unless the file
\* was looked up while somebody was still copying it: _queue_file asks
\* is_duplicate before it waits for the size to stand still.
NoRepeatConversion ==
    [][\A w \in Workers : \A i \in Items \ early :
         worker'[w].pc = "converting" /\ worker[w].pc # "converting"
           /\ i \in Now(worker'[w].name)
             => ~ \E r \in db : /\ r.name = NameOf[i] /\ r.size = SizeOf[i]
                                /\ r.status = "success"]_vars

\* A path that was claimed and is neither queued nor held: its worker left it
\* when the error handler raised.
Abandoned(n) ==
    /\ n \in processing /\ \A k \in 1..Len(queue) : queue[k] # n
    /\ \A w \in Workers : worker[w].pc \in Busy => worker[w].name # n

\* A complete file that is in watch_dir before the start-up scan comes to it,
\* and not yet recorded, is eventually recorded, given a retry or moved out of
\* watch_dir, across crashes: unless the daemon is asked to stop, its minute
\* save has jammed stats.lock, or the error handler failed on that path.
LeftoversHandled ==
    [](\A i \in Items :
         (/\ NameOf[i] \in scanLeft /\ place[i] = "watch" /\ i \notin partial
          /\ ~Row(NameOf[i], SizeOf[i]))
         => <>(\/ Row(NameOf[i], SizeOf[i]) \/ retryq[NameOf[i]].known
               \/ place[i] # "watch"
               \/ stopEvent \/ statsHeld \/ Abandoned(NameOf[i])))

\* (Violated.) a failed conversion with a scheduled retry is tried again.
RetryHappens ==
    \A n \in Names :
        (retryq[n].known /\ retryq[n].attempts < MaxRetries)
            ~> (~retryq[n].known \/ \E w \in Workers :
                   worker[w] = [pc |-> "converting", name |-> n])

-----------------------------------------------------------------------------
(* Why OneWorkerPerFile holds when no file arrives during the scan.        *)

Queued(n) == \E k \in 1..Len(queue) : queue[k] = n
Starting == main \in {"down", "scanning"}

\* Before the workers exist nothing is in the observer's hands, and what the
\* scan still has to visit is not queued.
QuietStart ==
    Starting => /\ events = <<>> /\ observer = Idle
                /\ \A w \in Workers : worker[w] = Unborn
                /\ \A n \in scanLeft : ~Queued(n)
EmptyWhenDown == main = "down" => queue = <<>>

\* A path is queued or held by a worker only while it is in processing, the
\* observer queues only paths that are not, and no path has two holders.
Claimed ==
    /\ \A k \in 1..Len(queue) : queue[k] \in processing
    /\ \A w \in Workers : worker[w].pc \in Busy => worker[w].name \in processing
ObserverHoldsFresh ==
    observer.pc \in {"dedup", "settle"} => observer.name \notin processing
QueueDistinct ==
    \A k, l \in 1..Len(queue) : k # l => queue[k] # queue[l]
QueueNotBusy ==
    \A w \in Workers : worker[w].pc \in Busy => ~Queued(worker[w].name)

SingleHolder ==
    /\ QuietStart /\ EmptyWhenDown /\ Claimed /\ ObserverHoldsFresh
    /\ QueueDistinct /\ QueueNotBusy /\ OneWorkerPerFile

=============================================================================
