--------------------------- MODULE RecoveryManager ---------------------------
(***************************************************************************)
(* RecoveryManager (src/hyper2kvm/core/recovery_manager.py): checkpoints   *)
(* of the stages of a run, kept as files of a work directory, with the     *)
(* manifest run.json, the pointer latest_completed.json and a lock file.   *)
(* Managers are the processes that open one directory, one after another   *)
(* or at the same time; each may crash at any step and be started again    *)
(* under the same run_id or another one.  Each file is replaced atomically *)
(* (_atomic_write_text), the files one after another.                      *)
(* Scopes, steps, the event index and progress bars are left out.          *)
(***************************************************************************)
EXTENDS Integers, Sequences, FiniteSets

CONSTANTS
    Managers,       \* processes
    NoManager,      \* the holder of a free lock
    NoCheckpoint,   \* what a pointer that was never written names
    RunIds,         \* run_id values
    Stages,         \* stage names, the numbers of stage_order
    AlphaRank,      \* place of a stage in the order of file names
    Unsafe,         \* stages whose StageDef forbids resuming
    MaxTime,        \* bound: seconds the clock counts (U.now_ts)
    MaxSaves,       \* bound: checkpoints saved
    KeepTotal,      \* keep_newest_total
    SameSecond,     \* may a stage be saved twice in one second?
    Faults          \* may a write fail?

ASSUME RecoveryAssumption ==
    /\ NoManager \notin Managers /\ Stages \subseteq Int
    /\ AlphaRank \in [Stages -> Int]
    /\ \A s, t \in Stages : AlphaRank[s] = AlphaRank[t] => s = t
    /\ MaxTime \in Nat \ {0} /\ MaxSaves \in Nat /\ KeepTotal \in Nat
    /\ SameSecond \in BOOLEAN /\ Faults \in BOOLEAN

\* checkpoint_<run>_<stage>_<timestamp>.json
Checkpoints == [run : RunIds, stage : Stages, ts : 1..MaxTime]

ASSUME NoCheckpointAssumption == NoCheckpoint \notin Checkpoints

NoManifest == [by |-> NoManager, status |-> "none"]

VARIABLES
    clock,
    pc,         \* what each process is doing
    rid,        \* its run_id
    mem,        \* self.checkpoints, oldest first
    arg,        \* the checkpoint an unfinished call is about
    doomed,     \* files an unfinished cleanup will unlink
    lock,       \* the process that holds the flock
    files,      \* checkpoint files: "none", "open" or "completed"
    pointer,    \* latest_completed.json
    manifest,   \* run.json: whose it is, and its status
    newest,     \* history: per run and stage, time of the last completed
    saves       \* history: checkpoints saved

process == <<pc, rid, mem, arg, doomed>>
directory == <<files, pointer, manifest>>
vars == <<clock, process, lock, directory, newest, saves>>

Init ==
    /\ clock = 1 /\ pc = [m \in Managers |-> "down"]
    /\ rid \in [Managers -> RunIds] /\ mem = [m \in Managers |-> <<>>]
    /\ arg = [m \in Managers |-> NoCheckpoint] /\ doomed = [m \in Managers |-> {}]
    /\ lock = NoManager /\ files = [c \in Checkpoints |-> "none"]
    /\ pointer = NoCheckpoint /\ manifest = NoManifest
    /\ newest = [r \in RunIds |-> [s \in Stages |-> 0]]
    /\ saves = 0

\* U.now_ts counts seconds.
Tick == /\ clock < MaxTime /\ clock' = clock + 1
        /\ UNCHANGED <<process, lock, directory, newest, saves>>

-----------------------------------------------------------------------------
(* Queries.                                                                *)

\* The loader sorts by file name: by stage name, then by time.
After(c, d) == \/ AlphaRank[c.stage] > AlphaRank[d.stage]
               \/ c.stage = d.stage /\ c.ts > d.ts

Loaded(r) == {c \in Checkpoints : c.run = r /\ files[c] # "none"}
Completed(r) == {c \in Loaded(r) : files[c] = "completed"}

\* _eligible_for_recovery with a stage_order, allow_later_stage=False.
Eligible(c, stage) == c.stage \notin Unsafe /\ c.stage <= stage

\* describe_recovery(stage) with its default arguments, as a set of at most one
\* checkpoint.  (Weaker form of Decision: a stale pointer is the end of it.)
ByPointer(r, stage) ==
    {c \in Completed(r) : pointer = c /\ c.stage # stage /\ Eligible(c, stage)}
Candidates(r, stage) ==
    {c \in Completed(r) : c.stage # stage /\ Eligible(c, stage)}
ByName(r, stage) ==
    {c \in Candidates(r, stage) : \A d \in Candidates(r, stage) : ~After(d, c)}
PointerOnly(r, stage) == ByPointer(r, stage)
Decision(r, stage) ==
    IF ByPointer(r, stage) # {} THEN ByPointer(r, stage) ELSE ByName(r, stage)

-----------------------------------------------------------------------------
(* Opening and closing the directory.                                      *)

Goto(m, p) == pc' = [pc EXCEPT ![m] = p]

\* __init__ writes the manifest before it asks for the lock.
Create(m, r) ==
    /\ pc[m] = "down" /\ Goto(m, "locking")
    /\ rid' = [rid EXCEPT ![m] = r]
    /\ manifest' = [by |-> m, status |-> "running"]
    /\ UNCHANGED <<clock, mem, arg, doomed, lock, files, pointer, newest, saves>>

\* flock LOCK_EX | LOCK_NB: RecoveryError(LOCK_FAILED) when somebody holds it.
AcquireLock(m) ==
    /\ pc[m] = "locking"
    /\ IF lock = NoManager THEN lock' = m /\ Goto(m, "idle")
                           ELSE UNCHANGED lock /\ Goto(m, "down")
    /\ UNCHANGED <<clock, rid, mem, arg, doomed, directory, newest, saves>>

\* close(), or the process ends at any point: the lock goes with it.
Exit(m) ==
    /\ pc[m] # "down" /\ Goto(m, "down")
    /\ lock' = IF lock = m THEN NoManager ELSE lock
    /\ mem' = [mem EXCEPT ![m] = <<>>] /\ doomed' = [doomed EXCEPT ![m] = {}]
    /\ arg' = [arg EXCEPT ![m] = NoCheckpoint]
    /\ UNCHANGED <<clock, rid, directory, newest, saves>>

\* mark_run_success, mark_run_failed.
MarkRun(m, status) ==
    /\ pc[m] = "idle"
    /\ manifest' = [by |-> m, status |-> status]
    /\ UNCHANGED <<clock, process, lock, files, pointer, newest, saves>>

-----------------------------------------------------------------------------
(* Saving and completing.                                                  *)

\* save_checkpoint: the list in memory first ...
Save(m, s) ==
    LET c == [run |-> rid[m], stage |-> s, ts |-> clock]
    IN  /\ pc[m] = "idle" /\ saves < MaxSaves
        /\ SameSecond \/ files[c] = "none"
        /\ mem' = [mem EXCEPT ![m] =
                        Append(@, [stage |-> s, ts |-> clock, completed |-> FALSE])]
        /\ arg' = [arg EXCEPT ![m] = c] /\ Goto(m, "saving")
        /\ saves' = saves + 1
        /\ UNCHANGED <<clock, rid, doomed, lock, directory, newest>>

\* ... then the file, which replaces one of the same name.
WriteCheckpoint(m) ==
    /\ pc[m] = "saving" /\ Goto(m, "idle")
    /\ arg' = [arg EXCEPT ![m] = NoCheckpoint]
    /\ \/ files' = [files EXCEPT ![arg[m]] = "open"]
       \/ Faults /\ UNCHANGED files
    /\ UNCHANGED <<clock, rid, mem, doomed, lock, pointer, manifest, newest, saves>>

\* The file is rewritten as completed, in one step (_atomic_write_text): a crash
\* leaves the old file or the new one.
SetCompleted(c) ==
    /\ files' = [files EXCEPT ![c] = "completed"]
    /\ newest' = [newest EXCEPT ![c.run][c.stage] = IF @ < c.ts THEN c.ts ELSE @]

IsOpen(m, s, i) == mem[m][i].stage = s /\ ~mem[m][i].completed

\* mark_checkpoint_complete, first loop: the last open entry in memory; its
\* file is rewritten if it exists.
CompleteInMemory(m, s) ==
    /\ pc[m] = "idle"
    /\ \E i \in DOMAIN mem[m] :
        LET c == [run |-> rid[m], stage |-> s, ts |-> mem[m][i].ts]
        IN  /\ IsOpen(m, s, i)
            /\ \A j \in DOMAIN mem[m] : IsOpen(m, s, j) => j <= i
            /\ mem' = [mem EXCEPT ![m][i].completed = TRUE]
            /\ \/ /\ Goto(m, "pointing") /\ arg' = [arg EXCEPT ![m] = c]
                  /\ \/ files[c] # "none" /\ SetCompleted(c)
                     \/ files[c] = "none" /\ UNCHANGED <<files, newest>>
               \/ /\ Faults /\ files[c] # "none"
                  /\ UNCHANGED <<pc, arg, files, newest>>
    /\ UNCHANGED <<clock, rid, doomed, lock, pointer, manifest, saves>>

\* Nothing open in memory: the last file of that stage by name.
CompleteFile(m, s) ==
    /\ pc[m] = "idle" /\ \A i \in DOMAIN mem[m] : ~IsOpen(m, s, i)
    /\ \E c \in Loaded(rid[m]) :
        /\ c.stage = s
        /\ \A d \in Loaded(rid[m]) : d.stage = s => d.ts <= c.ts
        /\ SetCompleted(c)
        /\ arg' = [arg EXCEPT ![m] = c] /\ Goto(m, "pointing")
    /\ UNCHANGED <<clock, rid, mem, doomed, lock, pointer, manifest, saves>>

\* _write_latest_completed; its failure is swallowed.
WritePointer(m) ==
    /\ pc[m] = "pointing" /\ Goto(m, "idle")
    /\ arg' = [arg EXCEPT ![m] = NoCheckpoint]
    /\ pointer' = arg[m] \/ (Faults /\ UNCHANGED pointer)
    /\ UNCHANGED <<clock, rid, mem, doomed, lock, files, manifest, newest, saves>>

-----------------------------------------------------------------------------
(* cleanup_old_checkpoints() with its default arguments.                   *)

KeepNewest(r) ==
    {c \in Loaded(r) : Cardinality({d \in Loaded(r) : After(d, c)}) < KeepTotal}

\* The last completed checkpoint of every stage.  (Weaker form: of the run.)
KeepLastOfRun(r) ==
    {c \in Completed(r) : \A d \in Completed(r) : ~After(d, c)}
KeepPerStage(r) ==
    {c \in Completed(r) : \A d \in Completed(r) :
        d.stage = c.stage => ~After(d, c)}

\* keep_last_failed_run: nothing is removed when run.json says "failed".
Cleanup(m) ==
    /\ pc[m] = "idle" /\ manifest.status # "failed"
    /\ doomed' = [doomed EXCEPT ![m] =
            Loaded(rid[m]) \ (KeepNewest(rid[m]) \cup KeepPerStage(rid[m]))]
    /\ Goto(m, "cleaning")
    /\ UNCHANGED <<clock, rid, mem, arg, lock, directory, newest, saves>>

\* The files go one by one, the last by name first.
Unlink(m) ==
    /\ pc[m] = "cleaning"
    /\ \E c \in doomed[m] :
        /\ \A d \in doomed[m] : ~After(d, c)
        /\ files' = [files EXCEPT ![c] = "none"]
        /\ doomed' = [doomed EXCEPT ![m] = @ \ {c}]
    /\ UNCHANGED <<clock, pc, rid, mem, arg, lock, pointer, manifest, newest, saves>>

CleanupEnd(m) ==
    /\ pc[m] = "cleaning" /\ doomed[m] = {} /\ Goto(m, "idle")
    /\ UNCHANGED <<clock, rid, mem, arg, doomed, lock, directory, newest, saves>>

-----------------------------------------------------------------------------

Next ==
    \/ Tick
    \/ \E m \in Managers :
        \/ \E r \in RunIds : Create(m, r)
        \/ AcquireLock(m) \/ Exit(m)
        \/ \E status \in {"success", "failed"} : MarkRun(m, status)
        \/ \E s \in Stages : Save(m, s) \/ CompleteInMemory(m, s) \/ CompleteFile(m, s)
        \/ WriteCheckpoint(m) \/ WritePointer(m)
        \/ Cleanup(m) \/ Unlink(m) \/ CleanupEnd(m)

Spec == Init /\ [][Next]_vars

-----------------------------------------------------------------------------

Entries == [stage : Stages, ts : 1..MaxTime, completed : BOOLEAN]

TypeOK ==
    /\ clock \in 1..MaxTime
    /\ pc \in [Managers -> {"down", "locking", "idle", "saving", "pointing", "cleaning"}]
    /\ rid \in [Managers -> RunIds] /\ mem \in [Managers -> Seq(Entries)]
    /\ arg \in [Managers -> Checkpoints \cup {NoCheckpoint}]
    /\ \A m \in Managers : pc[m] \in {"saving", "pointing"} => arg[m] \in Checkpoints
    /\ doomed \in [Managers -> SUBSET Checkpoints]
    /\ lock \in Managers \cup {NoManager}
    /\ files \in [Checkpoints -> {"none", "open", "completed"}]
    /\ pointer \in Checkpoints \cup {NoCheckpoint}
    /\ manifest \in [by : Managers \cup {NoManager},
                     status : {"none", "running", "success", "failed"}]
    /\ newest \in [RunIds -> [Stages -> 0..MaxTime]]
    /\ saves \in Nat

\* The last completed checkpoint of every stage of every run stays on disk,
\* completed, through crashes, restarts, later saves and cleanups.
LastCompletedKept ==
    \A r \in RunIds, s \in Stages :
        newest[r][s] > 0 =>
            files[[run |-> r, stage |-> s, ts |-> newest[r][s]]] = "completed"

\* A run that has completed a stage that is safe to resume can be recovered: a
\* later stage finds a checkpoint to go on from, whatever happened to the
\* pointer, and the checkpoint is of a stage that was completed.
RecoveryFound ==
    \A r \in RunIds, s, t \in Stages :
        /\ newest[r][s] > 0 /\ s \notin Unsafe /\ s < t
        => \E c \in Decision(r, t) :
            newest[r][c.stage] > 0 /\ c.stage < t /\ c.stage \notin Unsafe

\* No two processes work in the directory at once, and only the process that
\* works there has a cleanup or a write under way.
OneAtWork ==
    \A m \in Managers : pc[m] \notin {"down", "locking"} => lock = m

=============================================================================
