---------------------------- MODULE HttpDownload ----------------------------
(***************************************************************************)
(* HTTPDownloadManager.download_files and HTTPDownloadClient.download_file *)
(* (src/hyper2kvm/vmware/transports/http_client.py): a batch of datastore  *)
(* files is fetched from the /folder endpoint of a vCenter, one after the  *)
(* other or by a pool of threads.  A download that finds part of the file  *)
(* asks for the rest (Range), writes beside the file and replaces it at    *)
(* the end (atomic) or appends to it, and is retried by download_file and  *)
(* again by the manager.  VsphereMode._download_vm_files_with_progress is  *)
(* the same loop with atomic, resume and no second kind of retry.          *)
(*                                                                         *)
(* A file is a sequence of blocks; a block is <<position, version>>.  The  *)
(* process may be killed at any step and the batch asked for again; in     *)
(* between the guest may have changed the remote file, not its size.       *)
(* External: the HTTP server and requests.  Not here: progress, panels.    *)
(***************************************************************************)
EXTENDS Naturals, FiniteSets, Sequences

CONSTANTS
    N,          \* files of the batch
    Size,       \* blocks of each file
    MaxRuns,    \* bound: how often the batch is asked for
    ShortReads, \* a response may end early without an exception
    Choices     \* the options a batch may have

Options ==
    [atomic : BOOLEAN, resume : BOOLEAN,    \* HTTPDownloadOptions
     retries : Nat,                         \* of download_file
     maxRetries : Nat,                      \* of the manager
     workers : Nat \ {0},                   \* 1: no pool
     failOnError : BOOLEAN]

Files == 1..N
Runs == 1..MaxRuns
Block == (1..Size) \X Runs

ASSUME HttpAssumption ==
    /\ N \in Nat \ {0} /\ Size \in Nat \ {0} /\ MaxRuns \in Nat \ {0}
    /\ ShortReads \in BOOLEAN /\ Choices \subseteq Options

VARIABLES
    opt,        \* the options
    run,        \* which call of download_files this is
    phase,      \* where the calling thread is
    pc,         \* where the task of a file is
    call,       \* which download_file the manager makes of it
    attempt,    \* which attempt within download_file
    start,      \* start_byte
    range,      \* "Range" in headers
    next,       \* the block the response sends next
    result,     \* the entry of the file in results
    remote,     \* the version of the files on the datastore
    exists,     \* is there something under local_path
    local,      \* what, block by block
    part        \* what the temporary file of the attempt holds

vars == <<opt, run, phase, pc, call, attempt, start, range, next, result,
          remote, exists, local, part>>
batch == <<opt, run, remote>>
request == <<start, range>>
disk == <<exists, local>>

Goto(f, p) == pc' = [pc EXCEPT ![f] = p]

\* A download without atomic that was interrupted may have left its part.
Init ==
    /\ opt \in Choices /\ run = 1 /\ remote = 1 /\ phase = "batch"
    /\ pc = [f \in Files |-> "queued"]
    /\ call = [f \in Files |-> 1] /\ attempt = [f \in Files |-> 1]
    /\ start = [f \in Files |-> 0] /\ range = [f \in Files |-> FALSE]
    /\ next = [f \in Files |-> 1] /\ result = [f \in Files |-> "none"]
    /\ exists \in [Files -> BOOLEAN]
    /\ local = [f \in Files |-> IF exists[f] THEN <<(<<1, 1>>)>> ELSE <<>>]
    /\ part = [f \in Files |-> <<>>]

-----------------------------------------------------------------------------
(* One call of download_file.                                              *)

Active == {"decide", "prepare", "request", "stream"}
Busy == {f \in Files : pc[f] \in Active}

\* A thread of the pool takes the first queued task; without a pool a file
\* waits for the result of the one before it.
Begin(f) ==
    /\ phase = "batch" /\ pc[f] = "queued" /\ Goto(f, "decide")
    /\ IF opt.workers > 1
       THEN /\ \A e \in 1..(f - 1) : pc[e] # "queued"
            /\ Cardinality(Busy) < opt.workers
       ELSE \A e \in 1..(f - 1) : result[e] # "none"
    /\ UNCHANGED <<batch, phase, call, attempt, request, next, result, disk, part>>

\* Part of the file is there.
Resumable(f) == opt.resume /\ exists[f] /\ Len(local[f]) \in 1..(Size - 1)

\* get_file_size may not know.
Decide(f) ==
    /\ pc[f] = "decide"
    /\ \E known \in BOOLEAN :
        IF known /\ opt.resume /\ exists[f] /\ Len(local[f]) = Size
        THEN Goto(f, "done") /\ UNCHANGED <<request, attempt>>
        ELSE /\ Goto(f, "prepare") /\ attempt' = [attempt EXCEPT ![f] = 1]
             /\ range' = [range EXCEPT ![f] = known /\ Resumable(f)]
             /\ start' = [start EXCEPT ![f] = IF known /\ Resumable(f)
                                             THEN Len(local[f]) ELSE 0]
    /\ UNCHANGED <<batch, phase, call, next, result, disk, part>>

\* The temporary file begins with the part that is there.  (Weaker form: it
\* begins with all there is.)
AllThere(f) == local[f]
Seed(f) == SubSeq(local[f], 1, start[f])

\* Without atomic, and nothing to resume, the old file is removed.  (Weaker
\* form: with atomic too.)
AlwaysRemoves(f) == start[f] = 0
Removes(f) == ~opt.atomic /\ start[f] = 0

Prepare(f) ==
    /\ pc[f] = "prepare" /\ Goto(f, "request")
    /\ part' = [part EXCEPT ![f] = IF opt.atomic THEN Seed(f) ELSE <<>>]
    /\ IF Removes(f)
       THEN /\ exists' = [exists EXCEPT ![f] = FALSE]
            /\ local' = [local EXCEPT ![f] = <<>>]
       ELSE UNCHANGED disk
    /\ UNCHANGED <<batch, phase, call, attempt, request, next, result>>

\* The response: the rest if asked for (206), else all of it (200).  The file
\* written is opened for appending.
Respond(f) ==
    /\ pc[f] = "request" /\ Goto(f, "stream")
    /\ next' = [next EXCEPT ![f] = IF range[f] THEN start[f] + 1 ELSE 1]
    /\ exists' = [exists EXCEPT ![f] = exists[f] \/ ~opt.atomic]
    /\ UNCHANGED <<batch, phase, call, attempt, request, result, local, part>>

Receive(f) ==
    /\ pc[f] = "stream" /\ next[f] <= Size
    /\ next' = [next EXCEPT ![f] = @ + 1]
    /\ IF opt.atomic
       THEN /\ part' = [part EXCEPT ![f] = Append(@, <<next[f], remote>>)]
            /\ UNCHANGED local
       ELSE /\ local' = [local EXCEPT ![f] = Append(@, <<next[f], remote>>)]
            /\ UNCHANGED part
    /\ UNCHANGED <<batch, phase, pc, call, attempt, request, result, exists>>

\* The stream is at its end.
Ended(f) == next[f] > Size \/ ShortReads

\* os.replace of the temporary file.
Complete(f) ==
    /\ pc[f] = "stream" /\ Ended(f) /\ Goto(f, "done")
    /\ IF opt.atomic
       THEN /\ local' = [local EXCEPT ![f] = part[f]]
            /\ exists' = [exists EXCEPT ![f] = TRUE]
            /\ part' = [part EXCEPT ![f] = <<>>]
       ELSE UNCHANGED <<disk, part>>
    /\ UNCHANGED <<batch, phase, call, attempt, request, next, result>>

\* Attempts are counted from 1.
Another(f) == attempt[f] <= opt.retries

\* The end of an attempt: the temporary file is removed; another attempt,
\* another call of download_file (with a delay), or the end of the task.
Retry(f) ==
    /\ part' = [part EXCEPT ![f] = <<>>]
    /\ IF Another(f)
       THEN /\ attempt' = [attempt EXCEPT ![f] = @ + 1] /\ Goto(f, "prepare")
            /\ UNCHANGED call
       ELSE IF call[f] <= opt.maxRetries
            THEN /\ call' = [call EXCEPT ![f] = @ + 1] /\ Goto(f, "decide")
                 /\ UNCHANGED attempt
            ELSE Goto(f, "error") /\ UNCHANGED <<call, attempt>>

\* The request fails, or the stream breaks.
Break(f) ==
    /\ pc[f] \in {"request", "stream"} /\ Retry(f)
    /\ UNCHANGED <<batch, phase, request, next, result, disk>>

\* The server answers 200 to a Range: no more resuming in this call.
RangeIgnored(f) ==
    /\ pc[f] = "request" /\ range[f] /\ Retry(f)
    /\ range' = [range EXCEPT ![f] = FALSE] /\ start' = [start EXCEPT ![f] = 0]
    /\ UNCHANGED <<batch, phase, next, result, disk>>

-----------------------------------------------------------------------------
(* The batch.                                                              *)

\* The failures that end a batch.
Fatal(f) == pc[f] = "error" /\ opt.failOnError

\* The first failure ends a batch with fail_on_error; a pool cancels what has
\* not begun.
Collect(f) ==
    /\ phase = "batch" /\ pc[f] \in {"done", "error"} /\ result[f] = "none"
    /\ IF Fatal(f)
       THEN /\ phase' = "raising" /\ result' = [result EXCEPT ![f] = "failed"]
            /\ pc' = [e \in Files |-> IF opt.workers > 1 /\ pc[e] = "queued"
                                      THEN "cancelled" ELSE pc[e]]
       ELSE /\ result' = [result EXCEPT ![f] = IF pc[f] = "done" THEN "ok" ELSE "failed"]
            /\ UNCHANGED <<phase, pc>>
    /\ UNCHANGED <<batch, call, attempt, request, next, disk, part>>

\* as_completed has given every file.  (Weaker form: waits for successes.)
AllOk == \A f \in Files : result[f] = "ok"
Settled == \A f \in Files : result[f] # "none"

Return ==
    /\ phase = "batch" /\ Settled
    /\ phase' = "returned"
    /\ UNCHANGED <<batch, pc, call, attempt, request, next, result, disk, part>>

\* The executor's __exit__: the exception waits.
PoolIdle == Busy = {}

Raise ==
    /\ phase = "raising" /\ PoolIdle /\ phase' = "raised"
    /\ UNCHANGED <<batch, pc, call, attempt, request, next, result, disk, part>>

\* Killed at any step, or over: the files are asked for again.  A temporary
\* file left behind has a name of its own and is not looked at again.
Rerun ==
    /\ run < MaxRuns /\ run' = run + 1 /\ remote' \in {remote, remote + 1}
    /\ phase' = "batch" /\ pc' = [f \in Files |-> "queued"]
    /\ call' = [f \in Files |-> 1] /\ attempt' = [f \in Files |-> 1]
    /\ start' = [f \in Files |-> 0] /\ range' = [f \in Files |-> FALSE]
    /\ next' = [f \in Files |-> 1] /\ result' = [f \in Files |-> "none"]
    /\ part' = [f \in Files |-> <<>>] /\ UNCHANGED <<opt, disk>>

Task(f) ==
    \/ Begin(f) \/ Decide(f) \/ Prepare(f) \/ Respond(f) \/ Receive(f) \/ Complete(f)
    \/ Break(f) \/ RangeIgnored(f)

Manage == Return \/ Raise \/ \E f \in Files : Collect(f)

Next == Manage \/ Rerun \/ \E f \in Files : Task(f)

Spec == Init /\ [][Next]_vars

\* Threads run on; a request is answered, breaks or times out.
FairSpec == Spec /\ WF_vars(Manage) /\ \A f \in Files : WF_vars(Task(f))

-----------------------------------------------------------------------------

TypeOK ==
    /\ opt \in Options /\ run \in Runs /\ remote \in Runs
    /\ phase \in {"batch", "raising", "returned", "raised"}
    /\ pc \in [Files -> Active \cup {"queued", "done", "error", "cancelled"}]
    /\ call \in [Files -> 1..(opt.maxRetries + 1)]
    /\ attempt \in [Files -> 1..(opt.retries + 1)]
    /\ start \in [Files -> 0..Size] /\ range \in [Files -> BOOLEAN]
    /\ next \in [Files -> 1..(Size + 1)]
    /\ result \in [Files -> {"none", "ok", "failed"}]
    /\ exists \in [Files -> BOOLEAN]
    /\ local \in [Files -> Seq(Block)] /\ part \in [Files -> Seq(Block)]

\* Every block once, in its place.
Whole(f) == /\ exists[f] /\ Len(local[f]) = Size
            /\ \A i \in 1..Size : local[f][i][1] = i

\* With an append in place of a temporary file, what a broken attempt has
\* appended is not taken back before the next one.
Sound == ~ShortReads /\ (opt.atomic \/ opt.retries = 0)

\* "Correct resume support (Range + 206 enforcement)": a download that returns
\* has left the whole file, whatever was there, broke, was ignored or retried.
Correct == Sound => \A f \in Files : pc[f] = "done" => Whole(f)

\* A file fetched from its first block is of one version, the present one.
OneVersion ==
    [][\A f \in Files :
         Sound /\ pc[f] = "stream" /\ pc'[f] = "done" /\ start[f] = 0
           => \A i \in 1..Size : local'[f][i] = <<i, remote>>]_vars

\* With fail_on_error a batch that returns has every file.
Strict ==
    Sound /\ phase = "returned" /\ opt.failOnError => \A f \in Files : Whole(f)

\* No thread writes a file once download_files has returned or raised.
NoneLeftRunning == phase \in {"returned", "raised"} => Busy = {}

\* A batch returns or raises.
BatchEnds == phase = "batch" ~> phase \in {"returned", "raised"}

\* What an atomic batch promises (FileDelivery): files appear whole, stay, and
\* are reported only when they are there.
Promise ==
    INSTANCE FileDelivery
    WITH whole <- IF opt.atomic THEN {f \in Files : Whole(f)} ELSE {},
         outcome <- [f \in Files |-> IF opt.atomic THEN result[f] ELSE "none"]
Delivery == Promise!Spec
=============================================================================
