------------------------------- MODULE BootFixer -------------------------------
(***************************************************************************)
(* update_grub_root, remove_stale_device_map and regen                     *)
(* (src/hyper2kvm/fixers/bootloader/grub.py): root= is made stable in the  *)
(* boot entries and defaults, then the initramfs and grub.cfg are made     *)
(* anew with the guest's own tools, with /boot mounted from its fstab.     *)
(*                                                                         *)
(* What matters is where a file lands: a guest with a /boot of its own     *)
(* shows an empty directory of / until that is mounted; and whether the    *)
(* tool that makes the initramfs has been told of the virtio drivers.      *)
(* Every write and every command may fail.  Not here: a file that the      *)
(* distribution should have and the guest has not, or that cannot be read. *)
(***************************************************************************)
EXTENDS Naturals

VARIABLES
    root,       \* how / is mounted: "rw", "ro" or "none"
    dryRun,     \* self.dry_run
    guest,      \* what the guest is like: ownBoot (by its fstab), bls, stable, windows, tool
    tables,     \* of OfflineFixer, which has rewritten the fstab, or torn it
    updateGrub, \* self.update_grub
    bstep,      \* where the fixer is
    bootMounted,\* the guest's own /boot is mounted
    boot,       \* what the boot files hold: "old", "new" or, an initramfs, "bare"
    astray,     \* files that were written into the directory under the mount point
    audit       \* what the report tells: errors and failures

bootEnv == <<root, dryRun, guest, tables, updateGrub>>
bootVars == <<bootEnv, bstep, bootMounted, boot, astray, audit>>

BootFiles == {"entries", "defaults", "cfg", "initrd", "drivers", "load"}
OnBoot == {"entries", "cfg", "initrd"}
Tools == {"initramfs-tools", "mkinitcpio", "sysconfig", "dracut", "other"}
Guests == [ownBoot : BOOLEAN, bls : BOOLEAN, stable : BOOLEAN, windows : BOOLEAN, tool : Tools]
Audits == {"root", "mount", "inject", "initramfs", "bootloader"}

BootUntouched ==
    /\ bstep = "idle" /\ bootMounted = FALSE /\ astray = {} /\ audit = {}
    /\ boot = [f \in BootFiles |-> "old"]

\* Whether the path /boot is the guest's /boot, and whether it can be written.
InPlace == ~guest.ownBoot \/ bootMounted
Writable == root = "rw" \/ (bootMounted /\ root = "ro")

BStep(s) == bstep' = s
Rewritten(files) == [f \in BootFiles |-> IF f \in files THEN "new" ELSE boot[f]]

\* What update_grub_root writes, in its order, when / can be written: the
\* entries under /boot, if they are seen there, of which a failure is only
\* logged; the defaults; and grub.cfg, as it is generated from them.
EntriesWritten == SUBSET (IF InPlace /\ guest.bls THEN {"entries"} ELSE {})
DefaultsWritten == {"defaults"}
CfgWritten == IF InPlace THEN {"cfg"} ELSE {}

\* The first write after the entries that fails raises, which regen tells.
RootUpdate(then, failed) ==
    /\ UNCHANGED <<bootEnv, bootMounted, astray>>
    /\ \/ /\ (~updateGrub \/ ~guest.stable \/ dryRun \/ root = "none")
          /\ BStep(then) /\ UNCHANGED <<boot, audit>>
       \/ /\ updateGrub /\ guest.stable /\ ~dryRun /\ root = "rw"
          /\ BStep(then) /\ UNCHANGED audit
          /\ \E entries \in EntriesWritten :
                boot' = Rewritten(entries \cup DefaultsWritten \cup CfgWritten)
       \/ /\ updateGrub /\ guest.stable /\ ~dryRun /\ root # "none"
          /\ BStep(failed) /\ audit' = audit \cup (IF bstep = "regen" THEN {"root"} ELSE {})
          /\ \/ root = "rw" /\ \E entries \in EntriesWritten, rest \in {{}, DefaultsWritten} :
                                   boot' = Rewritten(entries \cup rest)
             \/ root = "ro" /\ UNCHANGED boot

\* The stages grub_remove_device_map and grub_update_root; remove_stale_device_map
\* swallows every exception and changes nothing a property tells apart.
UpdateRoot == bstep = "stage" /\ RootUpdate("updated", "update failed")

\* regen starts with the same two, while /boot is not mounted yet.
Regen ==
    /\ bstep = "regen"
    /\ IF guest.windows
       THEN BStep("regenerated") /\ UNCHANGED <<bootEnv, bootMounted, boot, astray, audit>>
       ELSE RootUpdate("mount", "mount")

\* A torn fstab may have lost its line for /boot.
NoBootLine == ~guest.ownBoot \/ tables["fstab"] = "torn"

\* _mount_boot_partitions_best_effort: an entry that cannot be resolved or
\* mounted is told and passed over; of one that is not there nothing is told.
\* (Weaker form: passed over.)
MountQuietly ==
    /\ bstep = "mount" /\ BStep(IF dryRun THEN "umount" ELSE "inject")
    /\ bootMounted' \in {FALSE, guest.ownBoot /\ root # "none"}
    /\ UNCHANGED <<bootEnv, boot, astray, audit>>
MountBoot ==
    /\ bstep = "mount" /\ BStep(IF dryRun THEN "umount" ELSE "inject")
    /\ \/ /\ guest.ownBoot /\ root # "none" /\ bootMounted' = TRUE /\ UNCHANGED audit
       \/ /\ guest.ownBoot /\ audit' = audit \cup {"mount"} /\ UNCHANGED bootMounted
       \/ NoBootLine /\ UNCHANGED <<bootMounted, audit>>
    /\ UNCHANGED <<bootEnv, boot, astray>>

\* The drivers' configuration of the tool, under /etc.  The first write that
\* fails ends the injection with a warning.
Configured(tool, states) ==
    /\ bstep = "inject" /\ guest.tool = tool
    /\ \/ /\ root = "rw" /\ BStep("load") /\ UNCHANGED audit
          /\ \E s \in states : boot' = [boot EXCEPT !["drivers"] = s]
       \/ BStep("initramfs") /\ audit' = audit \cup {"inject"} /\ UNCHANGED boot
    /\ UNCHANGED <<bootEnv, bootMounted, astray>>

WriteModules == Configured("initramfs-tools", {"new"})
PatchMkinitcpio == Configured("mkinitcpio", {"new"})
DropIn == Configured("dracut", {"new"})

\* A line INITRD_MODULES that is not in double quotes stays as it is, "already
\* present".
PatchSysconfig == Configured("sysconfig", {"new", "old"})

\* booster, genkernel, mkinitfs: nothing is written for them.
NoDrivers ==
    /\ bstep = "inject" /\ guest.tool = "other" /\ BStep("load")
    /\ UNCHANGED <<bootEnv, bootMounted, boot, astray, audit>>

\* /etc/modules-load.d, for every guest.
LoadModules ==
    /\ bstep = "load" /\ BStep("initramfs")
    /\ \/ root = "rw" /\ boot' = [boot EXCEPT !["load"] = "new"] /\ UNCHANGED audit
       \/ audit' = audit \cup {"inject"} /\ UNCHANGED boot
    /\ UNCHANGED <<bootEnv, bootMounted, astray>>

Inject == WriteModules \/ PatchMkinitcpio \/ DropIn \/ PatchSysconfig \/ NoDrivers \/ LoadModules

\* A tool's output goes to the path /boot, whatever that is.
Lands(file, state) ==
    IF InPlace THEN boot' = [boot EXCEPT ![file] = state] /\ UNCHANGED astray
               ELSE astray' = astray \cup {file} /\ UNCHANGED boot

\* The attempts in order until one succeeds.
Attempts(file, state, told) ==
    \/ Writable /\ Lands(file, state) /\ UNCHANGED audit
    \/ audit' = audit \cup {told} /\ UNCHANGED <<boot, astray>>

\* dracut is given the drivers on its command line as well.
Made == IF guest.tool = "dracut" \/ boot["drivers"] = "new" THEN "new" ELSE "bare"

Initramfs ==
    /\ bstep = "initramfs" /\ BStep("bootloader")
    /\ Attempts("initrd", Made, "initramfs")
    /\ UNCHANGED <<bootEnv, bootMounted>>

\* grub.cfg is generated from the defaults.
Bootloader ==
    /\ bstep = "bootloader" /\ BStep("umount")
    /\ Attempts("cfg", boot["defaults"], "bootloader")
    /\ UNCHANGED <<bootEnv, bootMounted>>

\* _umount_boot_partitions_best_effort; a failure is swallowed.
UmountBoot ==
    /\ bstep = "umount" /\ BStep("regenerated")
    /\ bootMounted' \in {FALSE, bootMounted}
    /\ UNCHANGED <<bootEnv, boot, astray, audit>>

BootNext == UpdateRoot \/ Regen \/ MountBoot \/ Inject \/ Initramfs \/ Bootloader \/ UmountBoot

-----------------------------------------------------------------------------
BootTypes ==
    /\ guest \in Guests /\ updateGrub \in BOOLEAN
    /\ bstep \in {"idle", "stage", "updated", "update failed", "regen", "mount", "inject", "load",
                  "initramfs", "bootloader", "umount", "regenerated"}
    /\ bootMounted \in BOOLEAN /\ boot \in [BootFiles -> {"old", "new", "bare"}]
    /\ astray \subseteq OnBoot /\ audit \subseteq Audits
=============================================================================
