----------------------------- MODULE AzureExport -----------------------------
(***************************************************************************)
(* AzureSourceProvider.fetch (src/hyper2kvm/azure/source.py) from the      *)
(* pool of exports on, with download_with_resume (azure/download.py) and   *)
(* the az calls (azure/cli.py).  A disk is exported from itself, from a    *)
(* snapshot or from a temporary disk made of the snapshot: a SAS is        *)
(* granted, the VHD is downloaded with retries into a .part file and       *)
(* renamed, and whatever happened the SAS is revoked and what was made is  *)
(* deleted, best effort.  A call may fail and have had its effect.  The    *)
(* process may be killed and fetch asked for again; with a run tag given   *)
(* by the user it then finds the files of the earlier run.                 *)
(*                                                                         *)
(* A VHD is a sequence of blocks; a block is <<position, run>>: the        *)
(* snapshots of two runs differ.  External: az and the blob server, which  *)
(* answers a Range with 206, or 416 when nothing is left.  Not here: the   *)
(* choice of VMs, shutting them down, progress.                            *)
(***************************************************************************)
EXTENDS Naturals, FiniteSets, Sequences

CONSTANTS
    N,          \* disks selected
    Size,       \* blocks of each VHD
    Workers,    \* download.parallel
    MaxRuns,    \* bound: how often fetch is called
    ShortReads, \* a response may end early without an exception
    Choices     \* the configurations fetch may have

Configs ==
    [snapshots : BOOLEAN, stage : BOOLEAN,      \* use_snapshots, stage_disk_from_snapshot
     keep : SUBSET {"snapshot", "disk"},        \* keep_snapshots, keep_temp_disks
     resume : BOOLEAN, retries : Nat \ {0},
     strict : BOOLEAN,                          \* verify_size and strict_verify
     userTag : BOOLEAN]                         \* export.run_tag is given

Disks == 1..N
Runs == 1..MaxRuns
Block == (1..Size) \X Runs
Resources == {"source", "snapshot", "disk"} \X Disks

ASSUME AzureAssumption ==
    /\ N \in Nat \ {0} /\ Size \in Nat \ {0} /\ Workers \in Nat \ {0}
    /\ MaxRuns \in Nat \ {0} /\ ShortReads \in BOOLEAN /\ Choices \subseteq Configs

VARIABLES
    opt,        \* cfg
    run,        \* which call of fetch this is
    phase,      \* has it returned?
    pc,         \* where _export_one of a disk is
    item,       \* the kinds of resource whose id it knows
    sas,        \* sas_url is set
    ok,         \* item.ok
    attempt,    \* of download_with_resume
    start,      \* start_byte
    next,       \* the block the response sends next
    result,     \* what fetch has learnt of a disk
    cloud,      \* resources this run has made and that exist
    access,     \* resources with a SAS of this run
    doubtful,   \* history: resources about which a call has failed
    report,     \* created_resource_ids and deleted_resource_ids
    exists,     \* local_vhd exists
    local,      \* what it holds
    part        \* what the .part file holds; <<>> also when there is none

vars == <<opt, run, phase, pc, item, sas, ok, attempt, start, next, result,
          cloud, access, doubtful, report, exists, local, part>>
fetch == <<opt, run, phase, result, report>>
download == <<attempt, start, next>>
files == <<exists, local, part>>
azure == <<cloud, access, doubtful>>

Goto(d, p) == pc' = [pc EXCEPT ![d] = p]

Init ==
    /\ opt \in Choices /\ run = 1 /\ phase = "exporting"
    /\ pc = [d \in Disks |-> "queued"] /\ item = [d \in Disks |-> {}]
    /\ sas = [d \in Disks |-> FALSE] /\ ok = [d \in Disks |-> FALSE]
    /\ attempt = [d \in Disks |-> 1] /\ start = [d \in Disks |-> 0]
    /\ next = [d \in Disks |-> 1] /\ result = [d \in Disks |-> "none"]
    /\ cloud = {} /\ access = {} /\ doubtful = {}
    /\ report = [created |-> {}, deleted |-> {}]
    /\ exists = [d \in Disks |-> FALSE]
    /\ local = [d \in Disks |-> <<>>] /\ part = [d \in Disks |-> <<>>]

-----------------------------------------------------------------------------
(* What a disk is exported from.                                           *)

Active == {"snapshot", "stage", "grant", "open", "request", "stream",
           "revoke", "unstage", "unsnap"}
Busy == {d \in Disks : pc[d] \in Active}

\* The pool takes the queued exports in order.
Begin(d) ==
    /\ phase = "exporting" /\ pc[d] = "queued"
    /\ \A e \in 1..(d - 1) : pc[e] # "queued"
    /\ Cardinality(Busy) < Workers
    /\ Goto(d, IF opt.snapshots THEN "snapshot" ELSE "grant")
    /\ UNCHANGED <<fetch, item, sas, ok, download, azure, files>>

\* snapshot_create and disk_create_from_snapshot.
Create(d, here, kind, then) ==
    /\ pc[d] = here /\ Goto(d, then)
    /\ cloud' = cloud \cup {<<kind, d>>}
    /\ item' = [item EXCEPT ![d] = @ \cup {kind}]
    /\ UNCHANGED <<fetch, sas, ok, download, access, doubtful, files>>

\* The call fails, with or without effect; nobody learns the id.
CreateFail(d, here, kind) ==
    /\ pc[d] = here /\ Goto(d, "revoke")
    /\ cloud' \in {cloud, cloud \cup {<<kind, d>>}}
    /\ doubtful' = doubtful \cup {<<kind, d>>}
    /\ UNCHANGED <<fetch, item, sas, ok, download, access, files>>

Snapshot(d) ==
    \/ Create(d, "snapshot", "snapshot", IF opt.stage THEN "stage" ELSE "grant")
    \/ CreateFail(d, "snapshot", "snapshot")
Stage(d) == Create(d, "stage", "disk", "grant") \/ CreateFail(d, "stage", "disk")

\* export_id
Exported(d) == CASE ~opt.snapshots -> <<"source", d>>
                 [] opt.snapshots /\ ~opt.stage -> <<"snapshot", d>>
                 [] OTHER -> <<"disk", d>>

Grant(d) ==
    /\ pc[d] = "grant" /\ Goto(d, "open")
    /\ access' = access \cup {Exported(d)} /\ sas' = [sas EXCEPT ![d] = TRUE]
    /\ UNCHANGED <<fetch, item, ok, download, cloud, doubtful, files>>

GrantFail(d) ==
    /\ pc[d] = "grant" /\ Goto(d, "revoke")
    /\ access' \in {access, access \cup {Exported(d)}}
    /\ doubtful' = doubtful \cup {Exported(d)}
    /\ UNCHANGED <<fetch, item, sas, ok, download, cloud, files>>

-----------------------------------------------------------------------------
(* download_with_resume.                                                   *)

\* The size of the .part file.
Resumed(d) == IF opt.resume THEN Len(part[d]) ELSE 0

Open(d) ==
    /\ pc[d] = "open" /\ Goto(d, "request")
    /\ attempt' = [attempt EXCEPT ![d] = 1] /\ start' = [start EXCEPT ![d] = Resumed(d)]
    /\ UNCHANGED <<fetch, item, sas, ok, next, azure, files>>

\* The file is opened for appending, or truncated.
Opened(d) == IF start[d] > 0 THEN part[d] ELSE <<>>

Respond(d) ==
    /\ pc[d] = "request" /\ start[d] < Size /\ Goto(d, "stream")
    /\ next' = [next EXCEPT ![d] = start[d] + 1]
    /\ part' = [part EXCEPT ![d] = Opened(d)]
    /\ UNCHANGED <<fetch, item, sas, ok, attempt, start, azure, exists, local>>

Receive(d) ==
    /\ pc[d] = "stream" /\ next[d] <= Size
    /\ next' = [next EXCEPT ![d] = @ + 1]
    /\ part' = [part EXCEPT ![d] = Append(@, <<next[d], run>>)]
    /\ UNCHANGED <<fetch, pc, item, sas, ok, attempt, start, azure, exists, local>>

Short(d) == next[d] <= Size

\* The size is as expected, or a mismatch is only a warning.
Renamed(d) ==
    /\ pc[d] = "stream" /\ (Short(d) => ShortReads /\ ~opt.strict)
    /\ Goto(d, "revoke") /\ ok' = [ok EXCEPT ![d] = TRUE]
    /\ local' = [local EXCEPT ![d] = part[d]] /\ exists' = [exists EXCEPT ![d] = TRUE]
    /\ part' = [part EXCEPT ![d] = <<>>]
    /\ UNCHANGED <<fetch, item, sas, download, azure>>

\* strict_verify: the file goes, and there is no other attempt.
Mismatch(d) ==
    /\ pc[d] = "stream" /\ Short(d) /\ ShortReads /\ opt.strict
    /\ Goto(d, "revoke") /\ part' = [part EXCEPT ![d] = <<>>]
    /\ UNCHANGED <<fetch, item, sas, ok, download, azure, exists, local>>

\* The Range of the next attempt.  (Weaker form: the last one's.)
Stays(d) == start[d]
Continued(d) == IF opt.resume THEN Len(part[d]) ELSE start[d]

\* Attempts are counted from 1.
Another(d) == attempt[d] < opt.retries

\* The request fails, the stream breaks, or the file cannot be renamed; the
\* next attempt resumes, until there is none.
Break(d) ==
    /\ pc[d] \in {"request", "stream"}
    /\ IF Another(d)
       THEN /\ Goto(d, "request") /\ attempt' = [attempt EXCEPT ![d] = @ + 1]
            /\ start' = [start EXCEPT ![d] = Continued(d)] /\ UNCHANGED part
       ELSE /\ Goto(d, "revoke") /\ part' = [part EXCEPT ![d] = <<>>]
            /\ UNCHANGED <<attempt, start>>
    /\ UNCHANGED <<fetch, item, sas, ok, next, azure, exists, local>>

-----------------------------------------------------------------------------
(* The finally clause.                                                     *)

\* Also of an export that failed.  (Weaker form: only of a good one.)
OnlyGood(d) == sas[d] /\ ok[d]
Granted(d) == sas[d]

Revoke(d) ==
    /\ pc[d] = "revoke" /\ Goto(d, "unstage")
    /\ \/ ~Granted(d) /\ UNCHANGED azure
       \/ /\ Granted(d) /\ access' = access \ {Exported(d)} /\ UNCHANGED <<cloud, doubtful>>
       \/ /\ Granted(d) /\ access' \in {access, access \ {Exported(d)}}
          /\ doubtful' = doubtful \cup {Exported(d)} /\ UNCHANGED cloud
    /\ UNCHANGED <<fetch, item, sas, ok, download, files>>

\* What is known and not kept.  (Weaker form: of a good export.)
OfGood(d, kind) == ok[d] /\ kind \in item[d] \ opt.keep
Doomed(d, kind) == kind \in item[d] \ opt.keep

\* resource_delete_by_id.
Delete(d, here, kind, then) ==
    /\ pc[d] = here /\ Goto(d, then)
    /\ \/ ~Doomed(d, kind) /\ UNCHANGED <<cloud, doubtful>>
       \/ /\ Doomed(d, kind)
          /\ cloud' = cloud \ {<<kind, d>>} /\ UNCHANGED doubtful
       \/ /\ Doomed(d, kind)
          /\ cloud' \in {cloud, cloud \ {<<kind, d>>}}
          /\ doubtful' = doubtful \cup {<<kind, d>>}
    /\ UNCHANGED <<fetch, item, sas, ok, download, access, files>>

Unstage(d) == Delete(d, "unstage", "disk", "unsnap")
Unsnap(d) == Delete(d, "unsnap", "snapshot", IF ok[d] THEN "done" ELSE "error")

-----------------------------------------------------------------------------
(* fetch.                                                                  *)

\* What of a disk's resources goes into the report as deleted: the calls that
\* succeeded.  (Weaker form: the calls made.)
Called(d) == {<<k, d>> : k \in item[d] \ opt.keep}
Gone(d) == Called(d) \ doubtful

\* as_completed: the lists of an export that raised are lost.
Collect(d) ==
    /\ phase = "exporting" /\ pc[d] \in {"done", "error"} /\ result[d] = "none"
    /\ IF pc[d] = "done"
       THEN /\ result' = [result EXCEPT ![d] = "ok"]
            /\ report' = [created |-> report.created \cup {<<k, d>> : k \in item[d]},
                          deleted |-> report.deleted \cup Gone(d)]
       ELSE /\ result' = [result EXCEPT ![d] = "failed"] /\ UNCHANGED report
    /\ UNCHANGED <<opt, run, phase, pc, item, sas, ok, download, azure, files>>

\* (Weaker form: waits for artifacts only.)
AllGood == \A d \in Disks : result[d] = "ok"
Settled == \A d \in Disks : result[d] # "none"

Return ==
    /\ phase = "exporting" /\ Settled /\ phase' = "returned"
    /\ UNCHANGED <<opt, run, pc, item, sas, ok, download, result, azure, report, files>>

\* A run tag given by the user is a directory that runs share; one made of the
\* time is a directory of its own.  (Weaker form: always shared.)
OneDirectory == TRUE
Shared == opt.userTag

\* Killed at any step, or over.  Names of resources are unique: what a
\* killed run has left in the cloud nobody looks for, and it is no longer
\* counted here.
Rerun ==
    /\ run < MaxRuns /\ run' = run + 1 /\ phase' = "exporting"
    /\ pc' = [d \in Disks |-> "queued"] /\ item' = [d \in Disks |-> {}]
    /\ sas' = [d \in Disks |-> FALSE] /\ ok' = [d \in Disks |-> FALSE]
    /\ attempt' = [d \in Disks |-> 1] /\ start' = [d \in Disks |-> 0]
    /\ next' = [d \in Disks |-> 1] /\ result' = [d \in Disks |-> "none"]
    /\ cloud' = {} /\ access' = {} /\ doubtful' = {}
    /\ report' = [created |-> {}, deleted |-> {}]
    /\ IF Shared THEN UNCHANGED files
       ELSE /\ exists' = [d \in Disks |-> FALSE]
            /\ local' = [d \in Disks |-> <<>>] /\ part' = [d \in Disks |-> <<>>]
    /\ UNCHANGED opt

Export(d) ==
    \/ Begin(d) \/ Snapshot(d) \/ Stage(d) \/ Grant(d) \/ GrantFail(d)
    \/ Open(d) \/ Respond(d) \/ Receive(d) \/ Renamed(d) \/ Mismatch(d) \/ Break(d)
    \/ Revoke(d) \/ Unstage(d) \/ Unsnap(d)

Manage == Return \/ \E d \in Disks : Collect(d)

Next == Manage \/ Rerun \/ \E d \in Disks : Export(d)

Spec == Init /\ [][Next]_vars

\* az calls and requests time out; threads run on.
FairSpec == Spec /\ WF_vars(Manage) /\ \A d \in Disks : WF_vars(Export(d))

-----------------------------------------------------------------------------

TypeOK ==
    /\ opt \in Configs /\ run \in Runs /\ phase \in {"exporting", "returned"}
    /\ pc \in [Disks -> Active \cup {"queued", "done", "error"}]
    /\ item \in [Disks -> SUBSET {"snapshot", "disk"}]
    /\ sas \in [Disks -> BOOLEAN] /\ ok \in [Disks -> BOOLEAN]
    /\ attempt \in [Disks -> 1..opt.retries]
    /\ start \in [Disks -> 0..Size] /\ next \in [Disks -> 1..(Size + 1)]
    /\ result \in [Disks -> {"none", "ok", "failed"}]
    /\ cloud \subseteq Resources /\ access \subseteq Resources
    /\ doubtful \subseteq Resources
    /\ report \in [created : SUBSET Resources, deleted : SUBSET Resources]
    /\ exists \in [Disks -> BOOLEAN]
    /\ local \in [Disks -> Seq(Block)] /\ part \in [Disks -> Seq(Block)]

\* Every block once, in its place.
Whole(d) == /\ exists[d] /\ Len(local[d]) = Size
            /\ \A i \in 1..Size : local[d][i][1] = i

Firm == ~ShortReads \/ opt.strict

\* An export that succeeds has left the whole VHD, whatever broke, was retried,
\* or was left by a killed run ("VHD download with resume capability").
ExportWhole == Firm => \A d \in Disks : ok[d] => Whole(d)

\* The VHD is of one snapshot, the one of this run, unless a .part of an earlier
\* run is resumed: only a run tag given by the user leads there.
OneImage ==
    Firm /\ ~(opt.userTag /\ opt.resume)
        => \A d \in Disks : ok[d] => \A i \in 1..Size : local[d][i] = <<i, run>>

Kept(r) == r[1] \in opt.keep

\* When fetch returns, nothing that it made is left in the cloud and no SAS is
\* open, of exports that failed as well, but for what it was told to keep and
\* for failed calls.
CleanedUp ==
    phase = "returned" => /\ \A r \in cloud : Kept(r) \/ r \in doubtful
                          /\ access \subseteq doubtful

\* A resource is deleted after its SAS is revoked, and a snapshot after the disk
\* made of it, as far as the calls succeed.
RemovedInOrder ==
    \A r \in cloud : (r \notin cloud' /\ run' = run) =>
        /\ (r \in access => r \in doubtful)
        /\ (r[1] = "snapshot" /\ <<"disk", r[2]>> \in cloud
              => Kept(<<"disk", r[2]>>) \/ <<"disk", r[2]>> \in doubtful)
InOrder == [][RemovedInOrder]_vars

\* What the report says is deleted does not exist, and of the disks exported
\* nothing exists that the report does not name.
ReportTrue ==
    /\ report.deleted \cap cloud = {}
    /\ \A r \in cloud : result[r[2]] = "ok" => r \in report.created \ report.deleted

\* What fetch promises of a directory that runs share (FileDelivery): VHDs
\* appear whole, stay, and are reported only when they are there.
Promise ==
    INSTANCE FileDelivery
    WITH Files <- Disks,
         whole <- IF Firm /\ opt.userTag THEN {d \in Disks : Whole(d)} ELSE {},
         outcome <- [d \in Disks |-> IF Firm /\ opt.userTag THEN result[d] ELSE "none"]
Delivery == Promise!Spec
=============================================================================
