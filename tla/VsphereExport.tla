---------------------------- MODULE VsphereExport ----------------------------
(***************************************************************************)
(* What the orchestrator does with cmd "vsphere"                           *)
(* (src/hyper2kvm/orchestrator): VsphereExporter.export_many_sync exports  *)
(* the VMs one after the other in one session, by virt-v2v, by VDDK or by  *)
(* downloading their files (vmware/utils/v2v.py, datastore.py); with       *)
(* images the pipeline goes on, without any, or without vs_v2v,            *)
(* VsphereMode.run (vmware/vsphere/mode.py) performs one action, of which  *)
(* export_vm is a chain: govc to OVF, govc to OVA, the files over HTTPS    *)
(* (vmware/transports/govc_export.py); ovftool has a retry of its own.     *)
(*                                                                         *)
(* A directory is a set of what lies in it: "old", an image of an earlier  *)
(* run; "image" and "torn", what virt-v2v leaves; "ovf" and "ova", and     *)
(* "part.ovf", "part.ova" when they are not whole; and the datastore files *)
(* that are there.  VM v has a directory of its own; 0 is that of          *)
(* VsphereMode.  External: vCenter, virt-v2v, govc, ovftool.  One file     *)
(* over HTTPS is HttpDownload, one disk over VDDK VddkDownload.  Not here: *)
(* credentials, arguments, progress, what is printed.                      *)
(***************************************************************************)
EXTENDS Naturals, FiniteSets

CONSTANTS
    MaxVms,     \* bound: VMs of a job
    Files,      \* files in the folder of a VM
    Jobs        \* the jobs there may be

Kinds == {"none", "v2v", "vddk_download", "download_only"}
Actions == {"list_vm_names", "export_vm", "ovftool_export", "ovftool_deploy",
            "download_datastore_file", "download_only_vm", "unknown"}

JobType ==
    [vms : 0..MaxVms,       \* get_vm_names
     kind : Kinds,          \* export_mode; "none": vs_v2v is not set
     snapshot : BOOLEAN,    \* vs_create_snapshot
     action : Actions,      \* vs_action
     mode : {"ovf", "ova", "https"},     \* export_mode of export_vm
     clean : BOOLEAN,       \* govc_clean_outdir
     shutdown : BOOLEAN,    \* govc_shutdown
     retries : Nat,         \* ovftool_retries
     strict : BOOLEAN]      \* vs_fail_on_missing

\* What is assumed of the constants.
VsphereAssumption ==
    MaxVms \in Nat /\ IsFiniteSet(Files) /\ Jobs \subseteq JobType

VARIABLES
    job,        \* the arguments
    pc,         \* where the program is
    vm,         \* the VM export_many_sync is at; 0 in VsphereMode
    step,       \* of the chain of export_vm
    session,    \* a client is connected
    password,   \* the VMs in whose directory the password file of virt-v2v is
    kept,       \* history: those where it could not be written, or not removed
    raised,     \* virt-v2v has failed
    dir,        \* what lies in each directory
    got,        \* the datastore files that are there
    todo,       \* those that are still to be downloaded
    drives,     \* VMs that have their CD-ROM drives
    on,         \* VMs that run
    tmp,        \* a temporary directory of an OVA is there
    runs,       \* how often ovftool was run
    missed,     \* a file was not downloaded
    failed,     \* failures
    images,     \* out_images
    result      \* what the job has come to

vars == <<job, pc, vm, step, session, password, kept, raised, dir, got, todo, drives,
          on, tmp, runs, missed, failed, images, result>>
exporter == <<password, kept, raised, failed, images>>
mode == <<step, tmp, runs, missed>>
machine == <<drives, on>>
disk == <<dir, got>>

Dirs == 0..MaxVms
Vms == 1..job.vms

Init ==
    /\ job \in Jobs /\ vm = 0 /\ step = job.mode
    /\ pc = IF job.kind = "none" THEN "require" ELSE "connect"
    /\ session = FALSE /\ password = {} /\ kept = {} /\ raised = FALSE
    /\ dir \in [Dirs -> {{}, {"old"}}] /\ got = [d \in Dirs |-> {}] /\ todo = {}
    /\ drives = Dirs /\ on \in {{}, Dirs}
    /\ tmp = FALSE /\ runs = 0 /\ missed = FALSE /\ failed = {} /\ images = {} /\ result = "none"

Goto(p) == pc' = p
Holds(d, item) == dir' = [dir EXCEPT ![d] = @ \cup {item}]

\* An exception, or Fatal, that leaves the session at once.
Raise == Goto("disconnect") /\ result' = "failed"

-----------------------------------------------------------------------------
(* export_many_sync.                                                       *)

\* No VM names, or no connection: nothing catches it.
Connect ==
    /\ pc = "connect"
    /\ \/ job.vms > 0 /\ session' = TRUE /\ vm' = 1 /\ Goto("next") /\ UNCHANGED result
       \/ Goto("done") /\ result' = "failed" /\ UNCHANGED <<vm, session>>
    /\ UNCHANGED <<job, exporter, mode, disk, todo, machine>>

\* The VM fails, the next one is tried.
Skip == failed' = failed \cup {vm} /\ vm' = vm + 1 /\ Goto("next")

Export == [v2v |-> "password", vddk_download |-> "vddk", download_only |-> "list"]

\* VMwareClient has no create_snapshot.
Begin ==
    /\ pc = "next" /\ vm \in Vms
    /\ IF job.snapshot THEN Skip
       ELSE Goto(Export[job.kind]) /\ UNCHANGED <<vm, failed>>
    /\ UNCHANGED <<job, session, password, kept, raised, images, mode, disk, todo, machine, result>>

\* _write_password_file, after a check for virt-v2v.  What raises when the file
\* has been made leaves it there: v2v_export_vm's try comes after it.
Password ==
    /\ pc = "password"
    /\ \/ password' = password \cup {vm} /\ Goto("convert") /\ UNCHANGED <<vm, kept, failed>>
       \/ Skip /\ UNCHANGED <<password, kept>>
       \/ Skip /\ password' = password \cup {vm} /\ kept' = kept \cup {vm}
    /\ UNCHANGED <<job, session, raised, images, mode, disk, todo, machine, result>>

\* virt-v2v: it may not get to run, or fail half way; what it makes need not be
\* named like an image.
Convert ==
    /\ pc = "convert" /\ Goto("unlink")
    /\ \/ raised' = FALSE /\ (Holds(vm, "image") \/ UNCHANGED dir)
       \/ raised' = TRUE /\ (Holds(vm, "torn") \/ UNCHANGED dir)
    /\ UNCHANGED <<job, vm, session, password, kept, failed, images, mode, got, todo, machine, result>>

\* run_v2v_one raises when virt-v2v fails.
Takes == ~raised

\* The password of this VM goes, whatever came of virt-v2v; an unlink that fails
\* is only warned of.
Unlinked == {vm}

\* The finally clause, and the glob over the directory.
Unlink ==
    /\ pc = "unlink"
    /\ \/ password' = password \ Unlinked /\ UNCHANGED kept
       \/ kept' = kept \cup {vm} /\ UNCHANGED password
    /\ images' = images \cup (IF Takes THEN {vm} \X (dir[vm] \cap {"old", "image", "torn"}) ELSE {})
    /\ IF raised THEN Skip ELSE vm' = vm + 1 /\ Goto("next") /\ UNCHANGED failed
    /\ UNCHANGED <<job, session, raised, mode, disk, todo, machine, result>>

\* vddk_download_disk.
Vddk ==
    /\ pc = "vddk"
    /\ \/ /\ Holds(vm, "vmdk") /\ images' = images \cup {<<vm, "vmdk">>}
          /\ vm' = vm + 1 /\ Goto("next") /\ UNCHANGED failed
       \/ Skip /\ UNCHANGED <<dir, images>>
    /\ UNCHANGED <<job, session, password, kept, raised, mode, got, todo, machine, result>>

\* download_only_vm: the folder is searched, and the files that match, unless
\* they are too many, are to be fetched.
ListDirectory ==
    /\ pc = "list" /\ vm # 0
    /\ \/ \E selected \in SUBSET Files :
            todo' = selected /\ Goto("miss") /\ UNCHANGED <<vm, failed>>
       \/ Skip /\ UNCHANGED todo
    /\ UNCHANGED <<job, session, password, kept, raised, images, mode, disk, machine, result>>

\* govc has no datastore_download and download_file no chunk_size, so that no
\* file arrives; that is not fatal (download_only_fail_on_missing is never set).
Miss(f) ==
    /\ pc = "miss" /\ f \in todo /\ todo' = todo \ {f}
    /\ UNCHANGED <<job, pc, vm, session, exporter, mode, disk, machine, result>>

DirectoryDone ==
    /\ pc = "miss" /\ todo = {} /\ vm' = vm + 1 /\ Goto("next")
    /\ UNCHANGED <<job, session, exporter, mode, disk, todo, machine, result>>

\* The session ends; no images: VsphereMode.
Exported ==
    /\ pc = "next" /\ vm \notin Vms /\ session' = FALSE /\ vm' = 0
    /\ IF images = {} THEN Goto("require") /\ UNCHANGED result
                      ELSE Goto("done") /\ result' = "exported"
    /\ UNCHANGED <<job, exporter, mode, disk, todo, machine>>

Exporter ==
    \/ Connect \/ Begin \/ Password \/ Convert \/ Unlink \/ Vddk \/ ListDirectory
    \/ DirectoryDone \/ Exported \/ \E f \in Files : Miss(f)

-----------------------------------------------------------------------------
(* VsphereMode.run.                                                        *)

\* _require_govc, and the connection.
Require ==
    /\ pc = "require"
    /\ \/ session' = TRUE /\ Goto("act") /\ UNCHANGED result
       \/ Goto("done") /\ result' = "failed" /\ UNCHANGED session
    /\ UNCHANGED <<job, vm, exporter, mode, disk, todo, machine>>

\* _handle_action.
Acts(action) == pc = "act" /\ job.action = action
Unacted == <<job, vm, session, exporter, mode, disk, machine>>

\* A name, the VM, its folder, ovftool or the source is missing, or the action
\* is not one.
Refused == pc = "act" /\ Raise /\ UNCHANGED todo /\ UNCHANGED Unacted

\* A VM that cannot be queried is listed with its error.
ListNames ==
    /\ Acts("list_vm_names") /\ Goto("disconnect") /\ result' = "ok"
    /\ UNCHANGED todo /\ UNCHANGED Unacted

BeginExport ==
    /\ Acts("export_vm") /\ Goto(IF step = "https" THEN "folder" ELSE "prepare")
    /\ UNCHANGED <<todo, result>> /\ UNCHANGED Unacted

OvftoolExport == Acts("ovftool_export") /\ Goto("ovftool") /\ UNCHANGED <<todo, result>> /\ UNCHANGED Unacted
OvftoolDeploy == Acts("ovftool_deploy") /\ Goto("ovftool") /\ UNCHANGED <<todo, result>> /\ UNCHANGED Unacted

FetchOne ==
    /\ Acts("download_datastore_file") /\ Goto("fetch")
    /\ \E f \in Files : todo' = {f}
    /\ UNCHANGED result /\ UNCHANGED Unacted

ListVm == Acts("download_only_vm") /\ Goto("list") /\ UNCHANGED <<todo, result>> /\ UNCHANGED Unacted

Act == Refused \/ ListNames \/ BeginExport \/ OvftoolExport \/ OvftoolDeploy \/ FetchOne \/ ListVm

\* What govc_clean_outdir leaves: nothing, or what it had not come to; that it
\* fails is only warned of.
Cleaned(contents) == IF job.clean THEN SUBSET contents ELSE {contents}

Clean ==
    /\ pc = "prepare" /\ Goto("drives")
    /\ \E rest \in Cleaned(dir[0]) : dir' = [dir EXCEPT ![0] = rest]
    /\ \E rest \in Cleaned(got[0]) : got' = [got EXCEPT ![0] = rest]
    /\ UNCHANGED <<job, vm, session, exporter, mode, todo, machine, result>>

\* _remove_cdrom_devices: they need not be all, or any.
RemoveDrives ==
    /\ pc = "drives" /\ Goto("power") /\ drives' \in {drives, drives \ {0}}
    /\ UNCHANGED <<job, vm, session, exporter, mode, disk, todo, on, result>>

\* _prepare_vm_power_state: the export goes on when the VM is not off in time.
PowerOff ==
    /\ pc = "power" /\ Goto("govc")
    /\ on' \in IF job.shutdown THEN {on, on \ {0}} ELSE {on}
    /\ UNCHANGED <<job, vm, session, exporter, mode, disk, todo, drives, result>>

\* The next link of the chain: _export_vm_with_fallback catches what export_ovf
\* and export_ova raise.
AfterOvf == Goto("prepare") /\ step' = "ova"
AfterOva == Goto("folder") /\ step' = "https"

Return == Goto("disconnect") /\ result' = (IF missed THEN "partial" ELSE "ok")

Replaced(old, new) == dir' = [dir EXCEPT ![0] = (@ \ {old}) \cup {new}]

\* govc export.ovf into the directory itself: when it ends well the OVF is there.
\* _find_exported_ovf_dir looks for it for the log alone.
ExportOvf ==
    /\ pc = "govc" /\ step = "ovf"
    /\ \/ Replaced("part.ovf", "ovf") /\ Return /\ UNCHANGED step
       \/ (Replaced("ovf", "part.ovf") \/ UNCHANGED dir) /\ AfterOvf /\ UNCHANGED result
    /\ UNCHANGED <<job, vm, session, exporter, tmp, runs, missed, got, todo, machine>>

\* govc export.ovf into a temporary directory.
ExportTmp ==
    /\ pc = "govc" /\ step = "ova"
    /\ \/ Goto("pack") /\ tmp' = TRUE /\ UNCHANGED step
       \/ AfterOva /\ UNCHANGED tmp
    /\ UNCHANGED <<job, vm, session, exporter, runs, missed, disk, todo, machine, result>>

\* (Weaker form: whatever came of it is reported.)
Ignored == Return /\ UNCHANGED step
PackFailed == AfterOva /\ UNCHANGED result

\* _create_ova_from_ovf writes the archive under its own name.
Pack ==
    /\ pc = "pack" /\ tmp' = FALSE
    /\ \/ Replaced("part.ova", "ova") /\ Return /\ UNCHANGED step
       \/ (Replaced("ova", "part.ova") \/ UNCHANGED dir) /\ PackFailed
    /\ UNCHANGED <<job, vm, session, exporter, runs, missed, got, todo, machine>>

\* _get_vm_files_from_govc: the files that match, unless they are too many.
Selected == SUBSET Files
Listing(selected) == todo' = selected /\ (IF selected = {} THEN Return ELSE Goto("fetch") /\ UNCHANGED result)

\* _export_vm_via_https; the VM or its folder may be missing.
ListFolder ==
    /\ pc = "folder"
    /\ \/ Raise /\ UNCHANGED todo
       \/ \E selected \in Selected : Listing(selected)
    /\ UNCHANGED <<job, vm, session, exporter, mode, disk, machine>>

\* download_only_vm.
List ==
    /\ pc = "list" /\ vm = 0
    /\ \/ Raise /\ UNCHANGED todo
       \/ \E selected \in Selected : Listing(selected)
    /\ UNCHANGED <<job, vm, session, exporter, mode, disk, machine>>

\* _download_one_file_with_policy: no client can do VDDK; over HTTPS a file is
\* there whole, or an exception is raised.
Arrives(f) == got' = [got EXCEPT ![0] = @ \cup {f}] /\ todo' = todo \ {f} /\ UNCHANGED <<pc, missed, result>>

\* export_vm, and a single file: the first that does not arrive ends it.
Fetch(f) ==
    /\ pc = "fetch" /\ f \in todo /\ job.action # "download_only_vm"
    /\ \/ Arrives(f)
       \/ Raise /\ UNCHANGED <<got, missed, todo>>
    /\ UNCHANGED <<job, vm, session, exporter, step, tmp, runs, dir, machine>>

\* download_only_vm goes on without it, unless vs_fail_on_missing.
FetchOrMiss(f) ==
    /\ pc = "fetch" /\ f \in todo /\ job.action = "download_only_vm"
    /\ \/ Arrives(f)
       \/ ~job.strict /\ missed' = TRUE /\ todo' = todo \ {f} /\ UNCHANGED <<pc, got, result>>
       \/ job.strict /\ Raise /\ UNCHANGED <<got, missed, todo>>
    /\ UNCHANGED <<job, vm, session, exporter, step, tmp, runs, dir, machine>>

Fetched ==
    /\ pc = "fetch" /\ todo = {} /\ Return
    /\ UNCHANGED <<job, vm, session, exporter, mode, disk, todo, machine>>

\* _run_with_retries: attempts > retries + 1.
LastTry == runs' > job.retries + 1
OvftoolFails == IF LastTry THEN Raise ELSE UNCHANGED <<pc, result>>

\* A run of ovftool that writes the OVA under its own name.
RunExport ==
    /\ pc = "ovftool" /\ job.action = "ovftool_export" /\ runs' = runs + 1
    /\ \/ Replaced("part.ova", "ova") /\ Return
       \/ (Replaced("ova", "part.ova") \/ UNCHANGED dir) /\ OvftoolFails
    /\ UNCHANGED <<job, vm, session, exporter, step, tmp, missed, got, todo, machine>>

\* A run of ovftool that only reads.
RunDeploy ==
    /\ pc = "ovftool" /\ job.action = "ovftool_deploy" /\ runs' = runs + 1
    /\ Return \/ OvftoolFails
    /\ UNCHANGED <<job, vm, session, exporter, step, tmp, missed, disk, todo, machine>>

Disconnect ==
    /\ pc = "disconnect" /\ Goto("done") /\ session' = FALSE
    /\ UNCHANGED <<job, vm, exporter, mode, disk, todo, machine, result>>

Mode ==
    \/ Require \/ Act \/ Clean \/ RemoveDrives \/ PowerOff \/ ExportOvf \/ ExportTmp \/ Pack
    \/ ListFolder \/ List \/ Fetched \/ RunExport \/ RunDeploy \/ Disconnect
    \/ \E f \in Files : Fetch(f) \/ FetchOrMiss(f)

Kill ==
    /\ pc \notin {"done", "killed"} /\ Goto("killed") /\ session' = FALSE
    /\ UNCHANGED <<job, vm, exporter, mode, disk, todo, machine, result>>

Advance == Exporter \/ Mode
Next == Advance \/ Kill
Spec == Init /\ [][Next]_vars

\* Every command returns.
FairSpec == Spec /\ WF_vars(Advance)

-----------------------------------------------------------------------------

Items == {"old", "image", "torn", "vmdk", "ovf", "ova", "part.ovf", "part.ova"}

TypeOK ==
    /\ job \in JobType /\ vm \in 0..(MaxVms + 1) /\ step \in {"ovf", "ova", "https"}
    /\ pc \in {"connect", "next", "password", "convert", "unlink", "vddk", "list", "miss",
               "require", "act", "prepare", "drives", "power", "folder", "govc", "pack", "fetch", "ovftool", "disconnect", "done", "killed"}
    /\ session \in BOOLEAN /\ password \subseteq Dirs /\ kept \subseteq Dirs /\ raised \in BOOLEAN
    /\ dir \in [Dirs -> SUBSET Items] /\ got \in [Dirs -> SUBSET Files] /\ todo \subseteq Files
    /\ drives \subseteq Dirs /\ on \subseteq Dirs
    /\ tmp \in BOOLEAN /\ runs \in 0..(job.retries + 2) /\ missed \in BOOLEAN
    /\ failed \subseteq Dirs /\ images \subseteq Dirs \X Items
    /\ result \in {"none", "ok", "partial", "failed", "exported"}

\* The password of vCenter lies in a file only while virt-v2v runs, whatever
\* fails, unless the process is killed or that file could not be written or
\* removed itself.
Secrets == password \ kept
PasswordGone ==
    pc # "killed" => Secrets \subseteq {vm} /\ (Secrets # {} => pc \in {"convert", "unlink"})

\* The pipeline never gets what a failed export left: each image handed over is
\* of a VM that did not fail, and none is torn.
OnlyWhole ==
    \A i \in images : i[1] \notin failed /\ i[2] # "torn" /\ i[2] \in dir[i[1]]

\* An export that answers 0 has left something whole, however many links of the
\* chain have failed half way: the OVF, the OVA or the files that matched.
ChainTrue ==
    job.action = "export_vm" /\ result = "ok" =>
        \/ step = "ovf" /\ "ovf" \in dir[0]
        \/ step = "ova" /\ "ova" \in dir[0]
        \/ step = "https" /\ todo = {}

=============================================================================
