------------------------------ MODULE OfflineFixer ------------------------------
(***************************************************************************)
(* OfflineFSFix.run (src/hyper2kvm/fixers/offline_fixer.py): the image is  *)
(* opened with libguestfs, its root is found and mounted, the validation   *)
(* suite runs, and then one stage after the other rewrites the guest.  A   *)
(* stage that is not critical swallows its failure and the run goes on;    *)
(* mounting is critical, and what escapes closes the handle.               *)
(*                                                                         *)
(* The stages validation, fix_network, grub_update_root and regen are the  *)
(* modules ValidationSuite, NetworkFixer and BootFixer.  External:         *)
(* libguestfs; its command() runs a program of the guest and so needs a    *)
(* mounted root, which is why the checkers of filesystem_repair and of the *)
(* mount ladder, run on purpose while nothing is mounted, do nothing.      *)
(* Not here: cloud-init and mdraid hooks (absent), disk usage, timings.    *)
(***************************************************************************)
EXTENDS Naturals, Sequences, FiniteSets

CONSTANTS
    Files, Vmware, Plain, None, Torn,   \* of NetworkFixer
    Suites,     \* of ValidationSuite
    Checkup,    \* the suite of create_validation_suite
    Jobs        \* the guests and the arguments of the fixer

Tables == {"fstab", "crypttab"}
Stages == Tables \cup {"validation", "grub", "virtio"}     \* that may raise and are not critical
Options ==
    [resize : BOOLEAN, key : BOOLEAN, repair : BOOLEAN, tools : BOOLEAN, regen : BOOLEAN,
     virtio : BOOLEAN, recovery : BOOLEAN, mode : {"noop", "bypath", "all"}]

VARIABLES
    pc,         \* the stage run is in; "off" when its parts are used by others
    opt,        \* the arguments of OfflineFSFix
    back,       \* the stage to go to when the root is mounted
    drive,      \* how the image is opened: "closed", "ro", "rw"
    visible,    \* the device of the root can be seen
    device,     \* what is mounted at /: None, "plain" or "subvol"
    rootDev,    \* self.root_dev is set
    subvol,     \* self.root_btrfs_subvol is set
    tables,     \* what /etc/fstab and /etc/crypttab name devices by
    changed,    \* history: what run has written to the image
    failures,   \* history: the stages that have raised
    entries,    \* report["analysis"]["stages"]
    served,     \* the tree of the guest can be reached under its host directory
    checkpoints,\* of the recovery manager
    ended,      \* how run ends: "no", "well", "raised"
    root, dryRun, level, original, content, backup, step, at, saved, told, modified, failed,
    suite, phase, cursor, call, attempt, verdict, counts, failedCritical, exit,
    guest, updateGrub, bstep, bootMounted, boot, astray, audit

Net == INSTANCE NetworkFixer
Suite == INSTANCE ValidationSuite
Boot == INSTANCE BootFixer

scenario == <<opt, dryRun, level, guest, updateGrub>>
mount == <<root, visible, device, rootDev, subvol, back>>
netWork == <<original, content, backup, step, at, saved, told, modified, failed>>
suiteWork == <<suite, phase, cursor, call, attempt, verdict, counts, failedCritical, exit>>
bootWork == <<bstep, bootMounted, boot, astray, audit>>
work == <<netWork, suiteWork, bootWork>>
outcome == <<tables, changed, failures, entries>>
handle == <<drive, served, checkpoints, ended>>
fixerVars == <<pc, scenario, mount, work, outcome, handle>>

ASSUME FixerAssumption ==
    \A j \in Jobs : /\ j.opt \in Options /\ j.dryRun \in BOOLEAN /\ j.updateGrub \in BOOLEAN
                    /\ j.guest \in Boot!Guests /\ j.encrypted \in BOOLEAN
                    /\ j.tables \in [Tables -> {"uuid", "bypath", "dev"}]
                    /\ j.files \in Seq(Net!Texts) /\ Len(j.files) <= Files

ASSUME PartsAssumption ==
    Net!NetworkAssumption /\ Suite!SuiteAssumption /\ Checkup \in Suite!Options

Idle == /\ drive = "closed" /\ device = None /\ rootDev = FALSE
        /\ subvol = FALSE /\ back = "repair" /\ changed = {} /\ failures = {}
        /\ entries = [s \in Stages |-> "none"] /\ served = FALSE /\ checkpoints = {} /\ ended = "no"

Init ==
    \E j \in Jobs :
        /\ pc = "start" /\ opt = j.opt /\ dryRun = j.dryRun /\ level = "moderate"
        /\ guest = j.guest /\ updateGrub = j.updateGrub /\ tables = j.tables
        /\ root = "none" /\ visible = ~j.encrypted /\ Idle
        /\ Net!Fixable(j.files) /\ Suite!Prepared(Checkup, "idle") /\ Boot!BootUntouched

Goto(p) == pc' = p
Escape == Goto("close") /\ ended' = "raised"
Writes(part) == changed' = changed \cup {part}

\* _run_stage puts what came of a stage into its entry, of which _time_stage makes
\* the only one afterwards, with the duration: the KeyError is swallowed.
StageOver(stage, raised) ==
    /\ entries' = [entries EXCEPT ![stage] = "duration"]
    /\ failures' = IF raised THEN failures \cup {stage} ELSE failures

-----------------------------------------------------------------------------
(* Opening and mounting.                                                   *)

\* save_checkpoint("start"); outside of the try block.
Start ==
    /\ pc = "start"
    /\ \/ Goto("resize") /\ UNCHANGED ended
       \/ opt.recovery /\ Goto("raised") /\ ended' = "raised"
    /\ checkpoints' = IF opt.recovery /\ ended' = "no" THEN {"start"} ELSE checkpoints
    /\ UNCHANGED <<scenario, mount, work, outcome, drive, served>>

\* _resize_image_container: a failure is returned, not raised.
\* (Weaker form: also in a dry run.)
ResizeAnyway ==
    /\ pc = "resize" /\ Goto("open") /\ (IF opt.resize THEN Writes("image") ELSE UNCHANGED changed)
    /\ UNCHANGED <<scenario, mount, work, tables, failures, entries, handle>>
Resize ==
    /\ pc = "resize" /\ Goto("open")
    /\ \/ opt.resize /\ ~dryRun /\ Writes("image")
       \/ UNCHANGED changed
    /\ UNCHANGED <<scenario, mount, work, tables, failures, entries, handle>>

OpenDrive ==
    /\ pc = "open"
    /\ \/ Goto("unlock") /\ drive' = (IF dryRun THEN "ro" ELSE "rw") /\ UNCHANGED ended
       \/ Goto("raised") /\ ended' = "raised" /\ UNCHANGED drive
    /\ UNCHANGED <<scenario, mount, work, outcome, served, checkpoints>>

\* luks_unlock, storage_stack and lvm_activate.
Unlock ==
    /\ pc = "unlock" /\ Goto("mount")
    /\ visible' \in {visible} \cup (IF opt.key THEN {TRUE} ELSE {})
    /\ UNCHANGED <<scenario, root, device, rootDev, subvol, back, work, outcome, handle>>

\* detect_and_mount_root: what inspection says of /, or nothing that helps.
Inspect ==
    /\ pc = "mount"
    /\ \/ visible /\ Goto("direct") /\ subvol' \in {subvol, TRUE}
       \/ Goto("brute") /\ UNCHANGED subvol
    /\ UNCHANGED <<scenario, root, visible, device, rootDev, back, work, outcome, handle>>

Mounted(how, what) ==
    /\ Goto(back) /\ root' = how /\ device' = what /\ rootDev' = TRUE
    /\ UNCHANGED <<visible, back>>
Unmounted == root' = "none" /\ device' = None

MountMode == IF dryRun THEN "ro" ELSE "rw"
Inspected == IF subvol THEN "subvol" ELSE "plain"

\* _mount_root_direct: first as asked for, then the ladder (of which only
\* noload is not read-only), then a check that does nothing, then read-only.
MountDirect ==
    /\ pc \in {"direct", "ladder", "last"}
    /\ \/ /\ \/ pc = "direct" /\ Mounted(MountMode, Inspected)
             \/ pc = "ladder" /\ \E how \in {"ro", MountMode} : Mounted(how, Inspected)
             \/ pc = "last" /\ Mounted("ro", Inspected)
       \/ /\ Goto(CASE pc = "direct" -> "ladder" [] pc = "ladder" -> "last" [] OTHER -> "brute")
          /\ Unmounted /\ UNCHANGED <<visible, rootDev, back>>
    /\ UNCHANGED <<scenario, subvol, work, outcome, handle>>

\* _candidate_root_devices, as the trees that mounting them can give: a device
\* that is locked or not activated is in none of the listings.
CandidateTrees == IF visible THEN {"plain", "subvol"} ELSE {}

\* The candidates that can be mounted and have a score, which is the judgement
\* of _looks_like_root and _score_root on files of the guest.
Scored == SUBSET CandidateTrees

\* mount_root_bruteforce: the best of the plain mounts, or if there is none or
\* it cannot be mounted again, of the common subvolumes; self.root_btrfs_subvol
\* is not cleared by a plain one.
MountBruteforce ==
    /\ pc = "brute"
    /\ \E trees \in Scored :
         \/ "plain" \in trees /\ Mounted(MountMode, "plain") /\ UNCHANGED <<subvol, ended>>
         \/ "subvol" \in trees /\ Mounted(MountMode, "subvol") /\ subvol' = TRUE /\ UNCHANGED ended
         \/ Unmounted /\ Escape /\ UNCHANGED <<visible, rootDev, subvol, back>>
    /\ UNCHANGED <<scenario, work, outcome, drive, served, checkpoints>>

\* fix_filesystems: everything is unmounted and has to be mounted again.
Repair ==
    /\ pc = "repair"
    /\ IF opt.repair THEN Unmounted /\ Goto("mount") /\ back' = "validation"
                     ELSE Goto("validation") /\ UNCHANGED <<root, device, back>>
    /\ UNCHANGED <<scenario, visible, rootDev, subvol, work, outcome, handle>>

-----------------------------------------------------------------------------
(* Validation, fstab, crypttab.                                            *)

Validate ==
    /\ pc = "validation" /\ Goto("validating") /\ phase' = "start"
    /\ UNCHANGED <<scenario, mount, netWork, bootWork, outcome, handle,
                   suite, cursor, call, attempt, verdict, counts, failedCritical, exit>>

\* The result is only reported; then save_checkpoint("mounted") may raise.
Validated ==
    /\ pc = "validating" /\ phase \in {"done", "raised"}
    /\ StageOver("validation", phase = "raised")
    /\ \/ Goto("fstab") /\ UNCHANGED ended
          /\ checkpoints' = checkpoints \cup (IF opt.recovery THEN {"mounted"} ELSE {})
       \/ opt.recovery /\ Escape /\ UNCHANGED checkpoints
    /\ UNCHANGED <<scenario, mount, work, tables, changed, drive, served>>

\* convert_spec; crypttab knows no mode noop.
Converts(table) ==
    /\ guest.stable
    /\ \/ tables[table] = "bypath" /\ (table = "fstab" => opt.mode # "noop")
       \/ tables[table] = "dev" /\ opt.mode = "all"

\* rewrite_fstab and rewrite_crypttab write in place, whether the backup was
\* made or not: a write that fails may leave the table torn.
RewriteTable(table, then) ==
    /\ pc = table /\ Goto(then)
    /\ \/ /\ ~Converts(table) \/ dryRun \/ root = "none"
          /\ StageOver(table, FALSE) /\ UNCHANGED <<tables, changed>>
       \/ /\ Converts(table) /\ ~dryRun /\ root = "rw" /\ Writes(table) /\ StageOver(table, FALSE)
          /\ tables' = [tables EXCEPT ![table] = "uuid"]
       \/ /\ Converts(table) /\ ~dryRun /\ root # "none" /\ StageOver(table, TRUE)
          /\ \/ UNCHANGED <<tables, changed>>
             \/ /\ root = "rw" /\ Writes(table)
                /\ tables' = [tables EXCEPT ![table] = "torn"]
    /\ UNCHANGED <<scenario, mount, work, handle>>

RewriteFstab == RewriteTable("fstab", "crypttab")
RewriteCrypttab == RewriteTable("crypttab", "network")

-----------------------------------------------------------------------------
(* The other stages.                                                       *)

\* fix_network, once the network fixer has gone through the files.
Network ==
    /\ pc = "network" /\ step = "done" /\ Goto("grub")
    /\ UNCHANGED <<scenario, mount, work, outcome, handle>>

Grub ==
    /\ pc = "grub"
    /\ IF updateGrub THEN bstep' = "stage" /\ Goto("grub root") ELSE Goto("windows") /\ UNCHANGED bstep
    /\ UNCHANGED <<scenario, mount, netWork, suiteWork, bootMounted, boot, astray, audit,
                   outcome, handle>>

GrubUpdated ==
    /\ pc = "grub root" /\ bstep \in {"updated", "update failed"} /\ Goto("windows")
    /\ StageOver("grub", bstep = "update failed")
    /\ UNCHANGED <<scenario, mount, work, tables, changed, handle>>

\* windows_bcd_fix copies the stores; windows_inject_virtio imports modules
\* that do not exist as soon as its preflight has passed.
Windows ==
    /\ pc = "windows" /\ Goto("tools")
    /\ IF ~guest.windows THEN UNCHANGED <<changed, failures, entries>>
       ELSE /\ \/ ~dryRun /\ root = "rw" /\ Writes("bcd")
               \/ UNCHANGED changed
            /\ StageOver("virtio", opt.virtio)
    /\ UNCHANGED <<scenario, mount, work, tables, handle>>

\* _mount_local_run_threaded: a thread serves the tree to a directory of the host.
\* One that is not ready in time is taken down again, as far as umount_local can.
ServeTree ==
    /\ pc = "tools"
    /\ \/ ~opt.tools /\ Goto("regen") /\ UNCHANGED served
       \/ opt.tools /\ rootDev /\ Goto("remove") /\ served' = TRUE
       \/ opt.tools /\ Goto("rmtree") /\ served' \in BOOLEAN
    /\ UNCHANGED <<scenario, mount, work, outcome, drive, checkpoints, ended>>

\* OfflineVmwareToolsRemover.run: errors are collected, the removal goes on.
RemoveTools ==
    /\ pc = "remove" /\ Goto("unserve")
    /\ changed' \in {changed} \cup (IF dryRun \/ root # "rw" THEN {} ELSE {changed \cup {"tools"}})
    /\ UNCHANGED <<scenario, mount, work, tables, failures, entries, handle>>

\* What umount_local raises, as when the directory is in use, is swallowed.
UnserveTree ==
    /\ pc = "unserve" /\ Goto("rmtree") /\ served' \in BOOLEAN
    /\ UNCHANGED <<scenario, mount, work, outcome, drive, checkpoints, ended>>

\* The thread is waited for three seconds; then the directory is removed with all
\* that is in it, which is the guest if the tree is still served.
RemoveDirectory ==
    /\ pc = "rmtree" /\ Goto("regen") /\ served' \in {FALSE, served}
    /\ \/ served /\ root = "rw" /\ Writes("guest")
       \/ UNCHANGED changed
    /\ UNCHANGED <<scenario, mount, work, tables, failures, entries, drive, checkpoints, ended>>

Regenerate ==
    /\ pc = "regen"
    /\ IF opt.regen THEN bstep' = "regen" /\ Goto("regenerating") ELSE Goto("sync") /\ UNCHANGED bstep
    /\ UNCHANGED <<scenario, mount, netWork, suiteWork, bootMounted, boot, astray, audit,
                   outcome, handle>>

Regenerated ==
    /\ pc = "regenerating" /\ bstep = "regenerated" /\ Goto("sync")
    /\ UNCHANGED <<scenario, mount, work, outcome, handle>>

\* guestfs_sync and the last umount; the report is put together.
Finish ==
    /\ pc = "sync" /\ Goto("close") /\ ended' = "well"
    /\ UNCHANGED <<scenario, mount, work, outcome, drive, served, checkpoints>>

\* The finally block: closing the handle ends the appliance and all its mounts.
Close ==
    /\ pc = "close" /\ Goto(IF ended = "well" THEN "report" ELSE "raised")
    /\ drive' = "closed" /\ Unmounted /\ bootMounted' = FALSE
    /\ UNCHANGED <<scenario, visible, rootDev, subvol, back, netWork, suiteWork, bstep, boot,
                   astray, audit, outcome, served, checkpoints, ended>>

WriteReport ==
    /\ pc = "report" /\ Goto("done")
    /\ UNCHANGED <<scenario, mount, work, outcome, handle>>

\* The stages that are modules of their own.
Own == <<pc, opt, back, drive, visible, device, rootDev, subvol, outcome, served, checkpoints, ended>>
NetworkStep == /\ pc = "network" /\ Net!NetNext
               /\ UNCHANGED <<Own, suiteWork, bootWork, guest, updateGrub>>
SuiteStep == /\ pc = "validating" /\ Suite!SuiteNext
             /\ UNCHANGED <<Own, netWork, bootWork, root, dryRun, level, guest, updateGrub>>
BootStep == /\ pc \in {"grub root", "regenerating"} /\ Boot!BootNext
            /\ UNCHANGED <<Own, netWork, suiteWork, level>>

Mounting == Start \/ Resize \/ OpenDrive \/ Unlock \/ Inspect \/ MountDirect \/ MountBruteforce
Fixing == \/ Repair \/ Validate \/ Validated \/ RewriteFstab \/ RewriteCrypttab
          \/ Network \/ Grub \/ GrubUpdated \/ Windows \/ ServeTree \/ RemoveTools
          \/ UnserveTree \/ RemoveDirectory \/ Regenerate \/ Regenerated
Ending == Finish \/ Close \/ WriteReport

Next == Mounting \/ Fixing \/ Ending \/ NetworkStep \/ SuiteStep \/ BootStep

Spec == Init /\ [][Next]_fixerVars
FairSpec == Spec /\ WF_fixerVars(Next)

-----------------------------------------------------------------------------
(* Properties.                                                             *)

\* A dry run leaves the image and everything in it as it was, in every stage,
\* however / came to be mounted.
DryRunUntouched ==
    dryRun => /\ changed = {} /\ content = original /\ \A f \in DOMAIN backup : backup[f] = None
              /\ boot = [f \in Boot!BootFiles |-> "old"] /\ astray = {} /\ drive # "rw"

\* When run has ended well, its report tells the damage in the guest that it is
\* about: a torn network file, boot files that went into the directory under a
\* mount point, unless the fstab that names it is torn, defaults that root= could not be written to for regen, and an
\* initramfs that was made without the drivers its configuration should name.
DamageTold ==
    pc = "done" =>
        /\ \A f \in DOMAIN content : content[f] = Torn => told[f] = "failed"
        /\ astray # {} => "mount" \in audit \/ tables["fstab"] = "torn"
        /\ (opt.regen /\ updateGrub /\ guest.stable /\ ~guest.windows /\ ~dryRun
               /\ boot["defaults"] = "old") => "root" \in audit
        /\ (boot["initrd"] = "bare" /\ guest.tool \in {"initramfs-tools", "mkinitcpio"})
               => "inject" \in audit

\* OfflineVmwareToolsRemover: "Make the converted guest stop trying to run VMware
\* agents on KVM.  Avoid breaking unrelated system services."
GuestKept == "guest" \notin changed

\* The properties of the parts, under names a configuration can give: the entry
\* of a network file is true, and a reference that was followed names a device;
\* the payload of run_all is true, and nothing runs after a critical failure.
ToldTrue == Net!ToldTrue
RenamesAgree == Net!RenamesAgree
PayloadTrue == Suite!PayloadTrue
NothingAfterCritical == Suite!NothingAfterCritical

=============================================================================
