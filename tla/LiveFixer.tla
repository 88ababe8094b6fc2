------------------------------ MODULE LiveFixer ------------------------------
(***************************************************************************)
(* LiveFixer (src/hyper2kvm/fixers/live/fixer.py) and LiveGrubFixer        *)
(* (live/grub_fixer.py): a running guest is repaired over ssh, one remote  *)
(* command after the other.  /etc/fstab gets stable names, VMware tools    *)
(* go, a stale device.map goes, root= in /etc/default/grub becomes stable, *)
(* the initramfs and the configuration of the boot loader are generated    *)
(* anew.  Any command may fail for the connection (SSHClient.run retries   *)
(* only what looks like that, and by default not at all), a written one    *)
(* also after it has taken effect, or when it has taken effect in part;    *)
(* the fixer may be run again.                                             *)
(*                                                                         *)
(* External: the guest, its tools, ssh.  Not here: backups (best effort,   *)
(* into names of their own), VMware tools beyond that they go, the report. *)
(* DiskDiscovery gives LiveFixer arguments it does not take (see README):  *)
(* this is the class as its own interface allows it to be used.            *)
(***************************************************************************)
EXTENDS Naturals, Sequences, FiniteSets

CONSTANTS
    Fstabs,     \* what /etc/fstab may hold: sequences of kinds of device
    Grubs,      \* what /etc/default/grub may hold: sequences of lines
    Options,    \* the options of a run
    MaxRuns     \* bound: runs on the same guest

\* What is assumed of the constants.
LiveAssumption ==
    /\ MaxRuns \in Nat \ {0}
    /\ \A f \in Fstabs : f \in Seq({"bypath", "stable", "other"})
    /\ \A g \in Grubs : /\ g \in Seq({g[i] : i \in DOMAIN g})
                       /\ \A i \in DOMAIN g : g[i].key \in {"linux", "default", "other"}

VARIABLES
    run,        \* number of the run
    lopt,       \* its options
    pc,         \* where it is
    guest,      \* what the guest has: stable names known, tools that work
    fstab,      \* /etc/fstab
    grub,       \* /etc/default/grub; <<>>: there is no such file, or nothing in it
    cfg,        \* what the boot loader's configuration was generated from
    maps,       \* device.map files that look stale
    tools,      \* VMware tools are installed
    newFstab,   \* new_fstab
    updated,    \* update_grub_root has answered True
    lost,       \* a command of this run has failed
    cut,        \* history: files of which this run has left a part
    outcome     \* what the run has come to

liveVars == <<run, lopt, pc, guest, fstab, grub, cfg, maps, tools, newFstab, updated, lost,
              cut, outcome>>
still == <<run, lopt, guest>>

\* The line of a key that counts is the last one: the file is a shell script.
Line(g, key) ==
    LET of == {i \in DOMAIN g : g[i].key = key}
    IN  IF of = {} THEN {} ELSE {g[CHOOSE i \in of : \A j \in of : j <= i]}
InEffect(g) == Line(g, "linux") \cup Line(g, "default")
Kernel(g) == UNION {line.opts : line \in InEffect(g)}

Init ==
    /\ run = 1 /\ lopt \in Options /\ pc = "check" /\ outcome = "none"
    /\ guest \in [stable : BOOLEAN, generator : BOOLEAN, blkid : BOOLEAN]
    /\ fstab \in Fstabs /\ grub \in Grubs /\ cfg = InEffect(grub)
    /\ maps \in SUBSET {"grub2"} /\ tools \in BOOLEAN
    /\ newFstab = <<>> /\ updated = FALSE /\ lost = FALSE /\ cut = {}

Go(next) == pc' = next
Raise == pc' = "done" /\ outcome' = "failed" /\ lost' = TRUE

\* A command whose connection fails.
Lost(in, next) ==
    /\ pc = in /\ pc' = next /\ lost' = TRUE
    /\ outcome' = IF next # "done" THEN outcome ELSE IF in = "post" THEN "ok" ELSE "failed"

\* _write_remote_file_atomic: a temporary file of /tmp or /run is moved over the
\* old one, which between file systems is a copy.  It may fail before or after
\* that, or leave a part: nothing, or the first lines (half a line is none).
AfterFailure(old, new) == {old, new} \cup {SubSeq(new, 1, k) : k \in 0..(Len(new) - 1)}
CutBy(file, old, new, now) == IF now \in {old, new} THEN cut ELSE cut \cup {file}

-----------------------------------------------------------------------------
(* LiveFixer.run                                                           *)

Check ==
    /\ pc = "check" /\ Go("fstab")
    /\ UNCHANGED <<still, fstab, grub, cfg, maps, tools, newFstab, updated, lost, cut, outcome>>

\* _rewrite_fstab: each by-path device becomes what blkid says, if it says
\* anything.
Rewritten(f, known) ==
    [i \in DOMAIN f |-> IF f[i] = "bypath" /\ i \in known THEN "stable" ELSE f[i]]

RewriteFstab ==
    /\ pc = "fstab"
    /\ \E known \in IF guest.blkid THEN SUBSET DOMAIN fstab ELSE {{}} :
         newFstab' = Rewritten(fstab, known)
    /\ Go(IF newFstab' # fstab /\ ~lopt.dryRun THEN "write" ELSE "tools")
    /\ UNCHANGED <<still, fstab, grub, cfg, maps, tools, updated, lost, cut, outcome>>

WriteFstab ==
    /\ pc = "write"
    /\ \/ fstab' = newFstab /\ Go("tools") /\ UNCHANGED <<lost, outcome>>
       \/ fstab' \in AfterFailure(fstab, newFstab) /\ Raise
    /\ cut' = CutBy("fstab", fstab, newFstab, fstab')
    /\ UNCHANGED <<still, grub, cfg, maps, tools, newFstab, updated>>

\* _remove_vmware_tools, every command with "|| true".
RemoveTools ==
    /\ pc = "tools"
    /\ IF lopt.tools /\ ~lopt.dryRun THEN tools' \in {tools, FALSE} ELSE UNCHANGED tools
    /\ IF lopt.grub \/ lopt.initramfs THEN Go("map") /\ UNCHANGED outcome
       ELSE pc' = "done" /\ outcome' = "ok"
    /\ UNCHANGED <<still, fstab, grub, cfg, maps, newFstab, updated, lost, cut>>

-----------------------------------------------------------------------------
(* LiveGrubFixer.run: what one step raises does not stop the next.         *)

DeviceMap ==
    /\ pc = "map" /\ Go("root")
    /\ IF lopt.dryRun THEN UNCHANGED maps ELSE maps' \in {maps, {}}
    /\ UNCHANGED <<still, fstab, grub, cfg, tools, newFstab, updated, lost, cut, outcome>>

\* patch_line in each line of a key; a line of its own if none has changed.
Patched(g) ==
    [i \in DOMAIN g |->
        IF g[i].key = "other" THEN g[i] ELSE [g[i] EXCEPT !.root = "stable"]]
NewGrub ==
    IF Patched(grub) # grub THEN Patched(grub)
    ELSE Append(grub, [key |-> "linux", opts |-> {}, root |-> "stable"])

\* There is a stable name, another one than that of the mounted root, and a
\* file to put it in.
Rootable == lopt.grub /\ guest.stable /\ grub # <<>>

\* LiveGrubFixer's own _write_remote_file_atomic; a dry run writes nothing.
WriteGrub(fails) ==
    IF lopt.dryRun THEN ~fails /\ UNCHANGED <<grub, lost, cut>>
    ELSE /\ grub' \in IF fails THEN AfterFailure(grub, NewGrub) ELSE {NewGrub}
         /\ cut' = CutBy("grub", grub, NewGrub, grub') /\ lost' = (lost \/ fails)

\* update_grub_root answers True also when it would have written the file.
UpdateRoot ==
    /\ pc = "root" /\ Go("regen")
    /\ IF ~Rootable THEN UNCHANGED <<grub, updated, lost, cut>>
       ELSE \E fails \in BOOLEAN : WriteGrub(fails) /\ updated' = (updated \/ ~fails)
    /\ UNCHANGED <<still, fstab, cfg, maps, tools, newFstab, outcome>>

\* The boot loader's configuration is generated, also when only /etc/default/grub
\* has changed.  (Weaker form: only together with the initramfs.)
WithInitramfs == lopt.initramfs
Regenerates == lopt.initramfs \/ updated

\* regen: the initramfs first; then the generators one by one until one works,
\* which none may, and that is a warning.
Regen ==
    /\ pc = "regen" /\ Go("post")
    /\ IF Regenerates /\ ~lopt.dryRun /\ guest.generator
       THEN cfg' = InEffect(grub) ELSE UNCHANGED cfg
    /\ UNCHANGED <<still, fstab, grub, maps, tools, newFstab, updated, lost, cut, outcome>>

\* postcheck_configs only warns.
Postcheck ==
    /\ pc = "post" /\ pc' = "done" /\ outcome' = "ok"
    /\ UNCHANGED <<still, fstab, grub, cfg, maps, tools, newFstab, updated, lost, cut>>

-----------------------------------------------------------------------------

\* Where a connection can fail without a file being written, and what is next.
Breaks ==
    /\ \/ Lost("check", "done") \/ Lost("fstab", "done") \/ Lost("tools", "done")
       \/ Lost("map", "root") \/ Lost("root", "regen") \/ Lost("regen", "post")
       \/ Lost("post", "done")
    /\ UNCHANGED <<still, fstab, grub, cfg, maps, tools, newFstab, updated, cut>>

Again ==
    /\ pc = "done" /\ run < MaxRuns
    /\ run' = run + 1 /\ lopt' \in Options /\ pc' = "check" /\ outcome' = "none"
    /\ newFstab' = <<>> /\ updated' = FALSE /\ lost' = FALSE /\ cut' = {}
    /\ UNCHANGED <<guest, fstab, grub, cfg, maps, tools>>

Advance ==
    \/ Check \/ RewriteFstab \/ WriteFstab \/ RemoveTools \/ DeviceMap
    \/ UpdateRoot \/ Regen \/ Postcheck \/ Breaks

Next == Advance \/ Again

Spec == Init /\ [][Next]_liveVars
FairSpec == Spec /\ WF_liveVars(Advance)

-----------------------------------------------------------------------------

\* What an edit of /etc/fstab and one of /etc/default/grub may do to their lines.
Renamed(old, new) ==
    /\ Len(new) = Len(old)
    /\ \A i \in DOMAIN old :
          new[i] = old[i] \/ (old[i] = "bypath" /\ new[i] = "stable")
Extended(old, new) ==
    /\ Len(old) <= Len(new)
    /\ \A i \in DOMAIN old : new[i].key = old[i].key /\ new[i].opts = old[i].opts

\* "atomic writes", as far as a move is atomic: over any number of runs, and also
\* when the connection fails before or after one, /etc/fstab changes in nothing but
\* by-path names that become stable, and no line of /etc/default/grub loses its key
\* or its options, unless the move itself broke off and left a part of the file.
LinesStay ==
    /\ "fstab" \in cut' \/ Renamed(fstab, fstab')
    /\ "grub" \in cut' \/ Extended(grub, grub')

\* "if we updated /etc/default/grub, we force bootloader regen": a run that says
\* it has updated the file, lost no connection and had a generator that works
\* leaves a boot loader that uses the file as it is.
Generated ==
    pc = "done" /\ updated /\ ~lost /\ ~lopt.dryRun /\ guest.generator =>
        cfg = InEffect(grub)

\* "Idempotent operations that tolerate re-runs": an option of the kernel that is
\* in effect stays so, unless a move that broke off has left a part of the file.
\* Not what the code does: a run that finds root= as it should be adds a line that
\* hides the options of the line before it.
OptionsStay == "grub" \in cut' \/ Kernel(grub) \subseteq Kernel(grub')
OptionsKept == [][OptionsStay]_liveVars
==============================================================================
