---------------------------- MODULE DiskPipeline ----------------------------
(***************************************************************************)
(* One invocation of hyper2kvm outside daemon mode: Orchestrator.run       *)
(* (src/hyper2kvm/orchestrator/orchestrator.py) finds the disks, has them  *)
(* converted by virt-v2v or by DiskProcessor (flatten, offline fixes,      *)
(* convert), tests the result, removes the temporary directory and lists   *)
(* the images.  With parallel_processing the disks are handled by a pool   *)
(* of threads that share the work directory, where Flatten names its files *)
(* after the second in which it starts.  The file system maps names to     *)
(* inodes, so that a file renamed or unlinked under its writer is told     *)
(* from the one that replaces it.  An invocation may die at any step and   *)
(* be started again: it begins from the start and finds the files of the   *)
(* earlier one.                                                            *)
(*                                                                         *)
(* External: qemu-img, libguestfs and virt-v2v succeed or fail.  Not here: *)
(* dry runs, reports, checkpoints (RecoveryManager), domain XML.           *)
(***************************************************************************)
EXTENDS Naturals, FiniteSets, Sequences

CONSTANTS
    N,          \* disks of the machine
    Workers,    \* threads of the pool
    MaxRuns,    \* bound: invocations on one output directory
    SameSecond, \* two flattenings may start within one second
    Choices,    \* the settings the invocation may have
    NoFile      \* what a name denotes that does not exist

Settings ==
    [extract : BOOLEAN,   \* the disks are unpacked into temp_dir (OVA, OVF, ...)
     parallel : BOOLEAN,  \* parallel_processing
     flatten : BOOLEAN, toOutput : BOOLEAN,
     v2v : {"no", "one", "many"},    \* use_v2v; "many": with v2v_parallel
     post : {"no", "one", "many"}]   \* post_v2v

Disks == 1..N
Runs == 1..MaxRuns
Stamps == 0..N * MaxRuns
Attempts == 1..2

\* Which disk a file holds, whether all of it, and whether it was fixed.
Contents == [of : Disks, whole : BOOLEAN, fixed : BOOLEAN]

\* A file is written once: by whom, for which disk, in which invocation.
Inodes == {"input", "first", "second", "out", "v2v", "post", "jobs"} \X Disks \X Runs

\* A name tells the disk or, of a working file, the second it was made in; a
\* job of virt-v2v after the pipeline has a directory of its own, by its number.
Paths == ({"input", "part", "out", "v2v", "post"} \X Disks)
         \cup ({"tmp", "flat"} \X Stamps)
         \cup ({"jobs"} \X Disks \X Disks)

ASSUME PipelineAssumption ==
    /\ N \in Nat \ {0, 1} /\ Workers \in Nat \ {0} /\ MaxRuns \in Nat \ {0}
    /\ SameSecond \in BOOLEAN /\ Choices \subseteq Settings
    /\ \A s \in Choices : s.v2v = "no" \/ s.post = "no"
    /\ NoFile \notin Inodes

VARIABLES
    opt,        \* self.args
    run,        \* which invocation on the output directory this is
    phase,      \* where Orchestrator.run is
    pc,         \* where process_single_disk is, for each disk
    try,        \* the qemu-img attempt a disk is at
    stamp,      \* the second in the names of a disk's working files
    now,        \* the last second a working file was named after
    working,    \* the image a disk is processed in, then its result
    outputs,    \* out_images
    files,      \* the file system: the inode of each name
    data        \* what an inode holds: which disk, all of it, fixed

vars == <<opt, run, phase, pc, try, stamp, now, working, outputs, files, data>>
worker == <<pc, try, stamp, now, working>>
store == <<files, data>>

Fresh(d) == [of |-> d, whole |-> FALSE, fixed |-> FALSE]
Source(d) == [of |-> d, whole |-> TRUE, fixed |-> FALSE]
Exists(p) == files[p] # NoFile
Image(p) == data[files[p]]

\* A fresh set of workers.
Idle ==
    /\ pc = [d \in Disks |-> "queued"] /\ try = [d \in Disks |-> 1]
    /\ stamp = [d \in Disks |-> 0] /\ working = [d \in Disks |-> <<"input", d>>]
    /\ outputs = <<>>

\* Disks given by path (local, vSphere and Azure exports) may be missing.
Init ==
    /\ opt \in Choices /\ run = 1 /\ phase = "discover" /\ now = 0
    /\ Idle
    /\ \E here \in SUBSET Disks :
        /\ opt.extract => here = {}
        /\ files = [p \in Paths |-> IF p[1] = "input" /\ p[2] \in here
                                    THEN <<"input", p[2], 1>> ELSE NoFile]
    /\ data = [f \in Inodes |-> IF f[1] = "input" THEN Source(f[2])
                                                  ELSE Fresh(f[2])]

Goto(d, p) == pc' = [pc EXCEPT ![d] = p]
Enter(p) == phase' = p /\ UNCHANGED <<opt, run>>

-----------------------------------------------------------------------------
(* Discovery, and virt-v2v before or after the internal pipeline.          *)

\* _discover_disks: local files are taken as they are, archives unpacked.
Discover ==
    /\ phase = "discover" /\ Enter("pre")
    /\ IF opt.extract
       THEN /\ files' = [p \in Paths |-> IF p[1] = "input"
                                         THEN <<"input", p[2], run>> ELSE files[p]]
            /\ UNCHANGED data
       ELSE UNCHANGED store
    /\ UNCHANGED <<worker, outputs>>

DiscoverFail ==
    /\ phase = "discover" /\ Enter("aborted")
    /\ UNCHANGED <<worker, outputs, store>>

\* The disks of S one after the other (the set has one element).
Increasing(S) ==
    {s \in [1..Cardinality(S) -> S] : \A i, j \in DOMAIN s : i < j => s[i] < s[j]}

Of(kind) == {p \in Paths : p[1] = kind}

\* virt-v2v leaves images under the names of W.
V2vWrites(W) ==
    /\ files' = [p \in Paths |-> IF p \in W THEN <<p[1], p[2], run>> ELSE files[p]]
    /\ data' = [f \in Inodes |->
                  IF \E p \in W : f = <<p[1], p[2], run>>
                  THEN [of |-> f[2], whole |-> TRUE, fixed |-> TRUE]
                  ELSE data[f]]

\* Job after job, and by name in its directory.
Before(p, q) ==
    IF p[1] = "jobs" THEN p[3] < q[3] \/ (p[3] = q[3] /\ p[2] < q[2]) ELSE p[2] < q[2]

\* VirtV2VConverter.convert returns all images it finds in its directory,
\* whoever left them there.
Images(P) ==
    LET found == {p \in P : files'[p] # NoFile}
    IN  {s \in [1..Cardinality(found) -> found] :
            \A i, j \in DOMAIN s : i < j => Before(s[i], s[j])}

\* One virt-v2v writes where the conversions do.  The jobs of a pool are those
\* of all disks, so that the directory of a number is that of the disk.
PreResults(S) ==
    IF opt.v2v = "one" THEN {u \o v : u \in Images(Of("v2v")), v \in Images(Of("out"))}
                       ELSE Images({p \in Of("v2v") : p[2] \in S})

\* _run_pre_v2v: images replace the internal pipeline, no images lead to it.
PreV2v ==
    /\ phase = "pre"
    /\ \E S \in SUBSET {d \in Disks : Exists(<<"input", d>>)} :
        /\ opt.v2v = "no" => S = {}
        /\ opt.v2v = "one" => S \in {{}, Disks}
        /\ V2vWrites({"v2v"} \X S)
        /\ outputs' \in IF S = {} THEN {<<>>} ELSE PreResults(S)
        /\ Enter(IF S = {} THEN "process" ELSE "post")
    /\ UNCHANGED worker

\* The only virt-v2v fails, or lacks an input: run() ends with an exception.
PreV2vFail ==
    /\ phase = "pre" /\ opt.v2v = "one" /\ Enter("aborted")
    /\ UNCHANGED <<worker, outputs, store>>

\* One image needs no pool.  Its result is in post-v2v itself, that of a job of
\* the pool in the directory of its number, which is the place of the disk among
\* those that were converted.
PostKind == IF opt.post = "many" /\ Len(outputs) < 2 THEN "one" ELSE opt.post
PostImage(k) ==
    LET d == Image(outputs[k]).of
    IN  IF PostKind = "one" THEN <<"post", d>> ELSE <<"jobs", d, k>>
PostResults(S) ==
    IF PostKind = "one" THEN Images(Of("post"))
                        ELSE Images({p \in Of("jobs") : p[3] \in S})

\* _run_post_v2v: without new images the fixed ones are the result.
PostV2v ==
    /\ phase = "post"
    /\ LET given == {k \in DOMAIN outputs : Exists(outputs[k])}
       IN  \E S \in SUBSET given :
            /\ opt.post = "no" => S = {}
            /\ PostKind = "one" => S \in {{}, given}
            /\ V2vWrites({PostImage(k) : k \in S})
            /\ outputs' \in IF S = {} THEN {outputs} ELSE PostResults(S)
    /\ Enter("test") /\ UNCHANGED worker

PostV2vFail ==
    /\ phase = "post" /\ PostKind = "one" /\ outputs # <<>> /\ Enter("aborted")
    /\ UNCHANGED <<worker, outputs, store>>

-----------------------------------------------------------------------------
(* process_single_disk, run by the main thread or by a pool of threads.    *)

Over(d) == pc[d] \in {"done", "failed"}
Busy == {d \in Disks : pc[d] # "queued" /\ ~Over(d)}

\* One after the other in the order of the disks, or as many as the pool has.
MayStart(d) ==
    /\ phase = "process" /\ pc[d] = "queued" /\ \A e \in 1..(d - 1) : pc[e] # "queued"
    /\ IF opt.parallel THEN Cardinality(Busy) < Workers
                       ELSE \A e \in 1..(d - 1) : pc[e] = "done"

\* The names of the working file: only the second tells them apart.  (Weaker
\* form: written under its final name.)
NotAside(d) == <<"flat", stamp[d]>>
Tmp(d) == <<"tmp", stamp[d]>>
Flat(d) == <<"flat", stamp[d]>>

Start(d) ==
    /\ MayStart(d) /\ Exists(<<"input", d>>)
    /\ IF opt.flatten
       THEN /\ now' \in {now, now + 1} \cap Stamps /\ (SameSecond \/ now' > now)
            /\ stamp' = [stamp EXCEPT ![d] = now'] /\ Goto(d, "attempt")
       ELSE Goto(d, "fix") /\ UNCHANGED <<now, stamp>>
    /\ UNCHANGED <<opt, run, phase, try, working, outputs, store>>

\* U.die of the loop, of Flatten or of the fixer.
Missing(d) ==
    /\ MayStart(d) /\ ~Exists(<<"input", d>>) /\ Goto(d, "failed")
    /\ UNCHANGED <<opt, run, phase, try, stamp, now, working, outputs, store>>

\* The file an attempt of Flatten writes.
Copy(d) == <<IF try[d] = 1 THEN "first" ELSE "second", d, run>>

\* _unlink_quiet(tmp_dst), then qemu-img convert creates the file.
FlattenBegin(d) ==
    /\ pc[d] = "attempt" /\ Exists(<<"input", d>>) /\ Goto(d, "copying")
    /\ files' = [files EXCEPT ![Tmp(d)] = Copy(d)]
    /\ data' = [data EXCEPT ![Copy(d)] = [Image(<<"input", d>>) EXCEPT !.whole = FALSE]]
    /\ UNCHANGED <<opt, run, phase, try, stamp, now, working, outputs>>

FlattenEnd(d) ==
    /\ pc[d] = "copying" /\ Goto(d, "replace")
    /\ data' = [data EXCEPT ![Copy(d)].whole = TRUE]
    /\ UNCHANGED <<opt, run, phase, try, stamp, now, working, outputs, files>>

\* There are two commands to try.
TryAgain(d) == try[d] < 2

\* The second failure removes the file and raises.
FlattenFail(d) ==
    /\ pc[d] = "copying"
    /\ IF TryAgain(d)
       THEN /\ try' = [try EXCEPT ![d] = @ + 1] /\ Goto(d, "attempt")
            /\ UNCHANGED files
       ELSE /\ files' = [files EXCEPT ![Tmp(d)] = NoFile] /\ Goto(d, "failed")
            /\ UNCHANGED try
    /\ UNCHANGED <<opt, run, phase, stamp, now, working, outputs, data>>

\* tmp_dst.replace(final_dst) raises when another disk took the file.
Publish(d) ==
    /\ pc[d] = "replace"
    /\ IF Exists(Tmp(d))
       THEN /\ files' = [files EXCEPT ![Flat(d)] = files[Tmp(d)], ![Tmp(d)] = NoFile]
            /\ working' = [working EXCEPT ![d] = Flat(d)] /\ Goto(d, "fix")
       ELSE Goto(d, "failed") /\ UNCHANGED <<files, working>>
    /\ UNCHANGED <<opt, run, phase, try, stamp, now, outputs, data>>

\* The image the fixer opens.  (Weaker form: the one handed in.)
OnSource(d) == <<"input", d>>
Target(d) == working[d]

\* OfflineFSFix works in place.
Fix(d) ==
    /\ pc[d] = "fix" /\ Exists(Target(d))
    /\ data' = [data EXCEPT ![files[Target(d)]].fixed = TRUE]
    /\ Goto(d, IF opt.toOutput THEN "convert" ELSE "done")
    /\ UNCHANGED <<opt, run, phase, try, stamp, now, working, outputs, files>>

\* No image, no root file system, or a critical stage fails half way.
FixFail(d) ==
    /\ pc[d] = "fix" /\ Goto(d, "failed")
    /\ UNCHANGED <<opt, run, phase, try, stamp, now, working, outputs, store>>

\* The image is written aside.  (Weaker form: under its final name.)
Directly(d) == <<"out", d>>
Part(d) == <<"part", d>>

\* _resolve_output_path: the index of the disk is part of the name.  (Weaker
\* form: it is not.)
OneName(d) == <<"out", 1>>
Out(d) == <<"out", d>>
OutInode(d) == <<"out", d, run>>

\* convert_image_with_progress opens the working image and writes .part.
ConvertBegin(d) ==
    /\ pc[d] = "convert" /\ Exists(working[d]) /\ Goto(d, "converting")
    /\ files' = [files EXCEPT ![Part(d)] = OutInode(d)]
    /\ data' = [data EXCEPT ![OutInode(d)] = [Image(working[d]) EXCEPT !.whole = FALSE]]
    /\ UNCHANGED <<opt, run, phase, try, stamp, now, working, outputs>>

\* What process_single_disk returns.  (Weaker form: the working image.)
Unconverted(d) == working[d]
Result(d) == Out(d)

\* The .part file takes its name; validation only warns.
ConvertEnd(d) ==
    /\ pc[d] = "converting" /\ Goto(d, "done")
    /\ data' = [data EXCEPT ![OutInode(d)].whole = TRUE]
    /\ files' = [files EXCEPT ![Out(d)] = files[Part(d)], ![Part(d)] = NoFile]
    /\ working' = [working EXCEPT ![d] = Result(d)]
    /\ UNCHANGED <<opt, run, phase, try, stamp, now, outputs>>

\* The last entry of the plan of options fails.
ConvertFail(d) ==
    /\ pc[d] = "converting" /\ Goto(d, "failed")
    /\ files' = [files EXCEPT ![Part(d)] = NoFile]
    /\ UNCHANGED <<opt, run, phase, try, stamp, now, working, outputs, data>>

-----------------------------------------------------------------------------
(* The end of an invocation.                                               *)

\* The disks that have a result.
Finished == {d \in Disks : pc[d] = "done"}

\* The pool reports failures and drops them; in sequence they end run().
\* (Weaker form: every result is awaited.)
AllDone == \A d \in Disks : pc[d] = "done"
Settled == \A d \in Disks : pc[d] = "done" \/ (opt.parallel /\ pc[d] = "failed")

Collect ==
    /\ phase = "process" /\ Settled
    /\ \E s \in Increasing(Finished) : outputs' = [i \in DOMAIN s |-> working[s[i]]]
    /\ Enter("post") /\ UNCHANGED <<worker, store>>

DieOnFailure ==
    /\ phase = "process" /\ ~opt.parallel /\ \E d \in Disks : pc[d] = "failed"
    /\ Enter("aborted") /\ UNCHANGED <<worker, outputs, store>>

\* The first image boots, or run() ends with an exception.
Test == phase = "test" /\ Enter("cleanup") /\ UNCHANGED <<worker, outputs, store>>

TestFail ==
    /\ phase = "test" /\ outputs # <<>> /\ Enter("aborted")
    /\ UNCHANGED <<worker, outputs, store>>

\* rmtree(temp_dir), then the list of generated images.
Cleanup ==
    /\ phase = "cleanup" /\ Enter("done")
    /\ files' = [p \in Paths |-> IF opt.extract /\ p[1] = "input" THEN NoFile
                                                                 ELSE files[p]]
    /\ UNCHANGED <<worker, outputs, data>>

\* The process dies, or ended, and hyper2kvm is run again: from the start.
Rerun ==
    /\ run < MaxRuns /\ run' = run + 1 /\ phase' = "discover"
    /\ pc' = [d \in Disks |-> "queued"] /\ try' = [d \in Disks |-> 1]
    /\ stamp' = [d \in Disks |-> 0] /\ working' = [d \in Disks |-> <<"input", d>>]
    /\ outputs' = <<>> /\ UNCHANGED <<opt, now, store>>

Process(d) ==
    \/ Start(d) \/ Missing(d) \/ FlattenBegin(d) \/ FlattenEnd(d) \/ FlattenFail(d)
    \/ Publish(d) \/ Fix(d) \/ FixFail(d)
    \/ ConvertBegin(d) \/ ConvertEnd(d) \/ ConvertFail(d)

Orchestrate ==
    \/ Discover \/ DiscoverFail \/ PreV2v \/ PreV2vFail
    \/ Collect \/ DieOnFailure \/ PostV2v \/ PostV2vFail
    \/ Test \/ TestFail \/ Cleanup

Next == Orchestrate \/ Rerun \/ \E d \in Disks : Process(d)

Spec == Init /\ [][Next]_vars

\* The main thread and the threads of the pool go on, and qemu-img, guestfish
\* and virt-v2v end.
FairSpec == Spec /\ WF_vars(Orchestrate) /\ \A d \in Disks : WF_vars(Process(d))

-----------------------------------------------------------------------------

StateOK ==
    /\ opt \in Settings /\ run \in Runs
    /\ phase \in {"discover", "pre", "process", "post", "test", "cleanup",
                  "done", "aborted"}
    /\ pc \in [Disks -> {"queued", "attempt", "copying", "replace", "fix",
                         "convert", "converting", "done", "failed"}]
    /\ try \in [Disks -> Attempts] /\ stamp \in [Disks -> Stamps] /\ now \in Stamps
    /\ working \in [Disks -> Paths]
    /\ files \in [Paths -> Inodes \cup {NoFile}]
    /\ data \in [Inodes -> Contents]

TypeOK == StateOK /\ outputs \in Seq(Paths)

\* An image an earlier invocation left, and the directories that are searched for
\* images, where virt-v2v may list one.
Stale(p) == files[p][1] # "input" /\ files[p][3] # run
Searched(p) == p[1] \in {"post", "jobs"} \/ opt.v2v = "one"

\* A file that has its final name is complete, also while others write, fail,
\* die and start again ("Flatten ... atomic output stays", flatten.py).
Published ==
    \A p \in Paths : p[1] \in {"flat", "out"} /\ Exists(p) => Image(p).whole

\* The images a run lists are complete, went through the fixer or virt-v2v,
\* and are of different disks in the order of the disks, but for those of earlier
\* runs, which are listed from nowhere but the directories virt-v2v wrote to.
OwnImages ==
    phase = "done" =>
        \A i \in DOMAIN outputs : Exists(outputs[i]) =>
            IF Stale(outputs[i])
            THEN Searched(outputs[i])
            ELSE /\ Image(outputs[i]).whole /\ Image(outputs[i]).fixed
                 /\ \A j \in 1..(i - 1) : Exists(outputs[j]) /\ ~Stale(outputs[j]) =>
                        Image(outputs[j]).of < Image(outputs[i]).of

\* The settings with which the result is not in the temporary directory.
Elsewhere == ~opt.extract \/ opt.flatten \/ opt.toOutput

\* An image the run lists is there once the temporary directory is gone.  (With
\* the other settings it was in that directory, and is not.)
Delivered ==
    phase = "done" /\ Elsewhere => \A i \in DOMAIN outputs : Exists(outputs[i])

\* (Violated.)  "Error isolation per-disk": the result of a disk is of that disk.
Isolated ==
    \A d \in Disks : pc[d] = "done" => Image(working[d]).of = d

KeepSources ==
    \A d \in Disks :
        LET p == <<"input", d>>
        IN  Exists(p) /\ ~opt.extract =>
                /\ files'[p] = files[p]
                /\ opt.flatten => data'[files[p]] = data[files[p]]

\* Disks that were not unpacked are never removed or replaced, and with flatten
\* they stay as they were: the fixer gets at nothing but the copies.
SourcesKept == [][KeepSources]_vars

\* What is promised of the images in the output directory, which invocations share
\* (FileDelivery): they appear whole, a later invocation replaces one by a whole
\* one or leaves it, and a disk is done only when its image is there.
Promise ==
    INSTANCE FileDelivery
    WITH Files <- Disks, whole <- {d \in Disks : Exists(Out(d)) /\ Image(Out(d)).whole},
         outcome <- [d \in Disks |-> IF ~opt.toOutput THEN "none"
                                     ELSE IF pc[d] = "done" THEN "ok"
                                     ELSE IF pc[d] = "failed" THEN "failed" ELSE "none"]
Delivery == Promise!Spec

\* An invocation ends, whatever fails in it.
RunEnds == <>[](phase \in {"done", "aborted"})

=============================================================================
