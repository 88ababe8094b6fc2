----------------------------- MODULE NetworkFixer -----------------------------
(***************************************************************************)
(* NetworkFixer.fix_network_config (src/hyper2kvm/fixers/network/core.py)  *)
(* with its discovery, topology, backends and validation: each network     *)
(* file of the guest is rewritten so that the interface comes up under     *)
(* KVM, one file after the other, with a backup, a temporary file and a    *)
(* rename.  Every call of the guest may fail.                              *)
(*                                                                         *)
(* A file is a record of what the fixers look at: its interface, the       *)
(* interface it refers to (MASTER, BRIDGE, PHYSDEV, a bond's or a vlan's   *)
(* link, parent), pinned MACs, a VMware token, static addresses, DHCP.     *)
(* Not here: file modes, statistics by type, recommendations, the wording  *)
(* of the fixes, VMware parameters (commented out like the token).         *)
(***************************************************************************)
EXTENDS Naturals, FiniteSets

CONSTANTS
    Files,      \* how many configuration files the guest may have
    Vmware,     \* interface names of VMware: ens192, vmnic0, ...
    Plain,      \* names that stay: bond0, br0, eth0, ...
    None,       \* no reference, no backup
    Torn        \* what a write that fails halfway leaves

Names == Vmware \cup Plain
Fresh == {"renamed"} \X Vmware
Levels == {"conservative", "moderate", "aggressive"}

\* other: interfaces, netdev, wicked XML and unknown files.
Types == {"ifcfg", "netplan", "networkd", "nm", "other"}
Texts == [type : Types, dev : Names \cup Fresh, ref : Names \cup Fresh \cup {None},
          macs : 0..2,                             \* lines that pin a MAC
          token : {"none", "device", "option"},    \* the line with a VMware driver's name
          broken : BOOLEAN,                        \* the line that made it valid is commented out
          static : BOOLEAN,
          dhcp : {"absent", "none", "odd", "on"}]  \* none: BOOTPROTO=none or DHCP=no

\* What is assumed of the constants.
NetworkAssumption ==
    /\ Files \in Nat /\ Vmware \cap Plain = {}
    /\ None \notin Names \cup Fresh \cup Texts \cup {Torn} /\ Torn \notin Texts

VARIABLES
    root,       \* how / is mounted: "rw", "ro" or "none"
    dryRun,     \* self.dry_run
    level,      \* self.fix_level
    original,   \* history: the files that were found
    content,    \* what each file holds
    backup,     \* what its backup holds, or None
    step,       \* where fix_network_config is
    at,         \* the file of this turn
    saved,      \* backup_path is not empty
    told,       \* the entry of a file in stats["details"]
    modified,   \* stats["files_modified"]
    failed      \* stats["files_failed"]

netEnv == <<root, dryRun, level>>
disk == <<content, backup>>
stats == <<told, modified, failed>>
netVars == <<netEnv, original, disk, step, at, saved, stats>>

\* Nothing has been looked at; the guest has the given files.
Fixable(texts) ==
    /\ original = texts /\ content = texts /\ backup = [f \in DOMAIN texts |-> None]
    /\ step = "idle" /\ at = 1 /\ saved = FALSE
    /\ told = [f \in DOMAIN texts |-> "none"] /\ modified = 0 /\ failed = 0

-----------------------------------------------------------------------------
(* Topology and renames.                                                   *)

\* An edge is an interface and one it refers to; the other types have none.
EdgesOf(type) ==
    {{original[f].dev, original[f].ref} : f \in
        {g \in DOMAIN original : original[g].type = type /\ original[g].ref # None}}

\* The members of a bond or bridge and the link of a vlan.
NetplanEdges == EdgesOf("netplan")

\* A networkd file names its own device, which is a member or a parent.
SystemdEdges == EdgesOf("networkd")

\* Of a connection only the parent of a vlan is read, not its master.
ConnectionEdges == EdgesOf("nm")

\* build_topology
Edges == EdgesOf("ifcfg") \cup NetplanEdges \cup SystemdEdges \cup ConnectionEdges
LowerMember(dev, edges) == \E e \in edges : dev \in e

\* compute_rename_map; a new name that is taken is avoided.
Renames == IF level = "aggressive"
           THEN {n \in Vmware : \E f \in DOMAIN original :
                    original[f].type # "other" /\ n \in {original[f].dev, original[f].ref}}
           ELSE {}
NewName(n) == IF n \in Renames THEN <<"renamed", n>> ELSE n

\* The device's edges after a rename: those of this file are read again, those
\* of the other files still have the old names.
EdgesSeen(c, new) == Edges \cup IF new.ref = None THEN {} ELSE {{new.dev, new.ref}}

-----------------------------------------------------------------------------
(* The fixers of each type.                                                *)

\* The last of equal keys is commented out; the others delete them all.
Unpinned(c) ==
    CASE level = "conservative" -> c.macs
      [] level # "conservative" /\ c.type = "ifcfg" -> IF c.macs = 0 THEN 0 ELSE c.macs - 1
      [] OTHER -> 0

\* The DEVICE line goes with the token on it.
FixIfcfg(c) ==
    LET new == [c EXCEPT !.dev = NewName(@), !.ref = NewName(@), !.macs = Unpinned(c),
                         !.token = "none", !.broken = c.token = "device"]
        idle == ~c.static /\ ~LowerMember(new.dev, EdgesSeen(c, new))
        plain == level = "aggressive" /\ new = [new EXCEPT !.dev = c.dev]
    IN IF idle /\ c.dhcp \in {"odd"} \cup (IF plain THEN {"none"} ELSE {})
       THEN [new EXCEPT !.dhcp = "on"] ELSE new

\* An ethernet keeps its key, whatever refers to it is renamed.
FixNetplan(c) ==
    LET new == [c EXCEPT !.ref = NewName(@), !.macs = Unpinned(c), !.token = "none"]
    IN IF level = "aggressive" /\ c.dhcp = "absent" /\ ~c.static /\ ~LowerMember(c.dev, Edges)
       THEN [new EXCEPT !.dhcp = "on"] ELSE new

FixSystemdNetwork(c) ==
    LET new == [c EXCEPT !.dev = NewName(@), !.macs = Unpinned(c), !.token = "none"]
        added == level = "aggressive" /\ ~c.static
    IN IF c.dhcp \in {"none", "odd"} \cup (IF added THEN {"absent"} ELSE {})
       THEN [new EXCEPT !.dhcp = "on"] ELSE new

\* (Weaker form: the references keep the old names.)
OwnNames(c) == [c EXCEPT !.dev = NewName(@), !.macs = Unpinned(c), !.token = "none"]
FixNetworkManager(c) ==
    [c EXCEPT !.dev = NewName(@), !.ref = NewName(@), !.macs = Unpinned(c), !.token = "none"]

\* _fix_config_by_type; of the other types each call raises.
Raises(c) == c.type = "other"
Fixed(c) == CASE c.type = "ifcfg" -> FixIfcfg(c)
              [] c.type = "netplan" -> FixNetplan(c)
              [] c.type = "networkd" -> FixSystemdNetwork(c)
              [] c.type = "nm" -> FixNetworkManager(c)
              [] OTHER -> c

\* validate_fix: an ifcfg file without DEVICE.
ValidationErrors(c) == c.broken

-----------------------------------------------------------------------------
(* fix_network_config.                                                     *)

Advance == /\ at' = at + 1 /\ step' = IF at = Cardinality(DOMAIN content) THEN "done" ELSE "next"

Start == /\ step = "idle" /\ at' = 1
         /\ step' = IF root = "none" \/ DOMAIN content = {} THEN "done" ELSE "next"
         /\ UNCHANGED <<netEnv, original, disk, saved, stats>>

Tell(entry) == told' = [told EXCEPT ![at] = entry]

\* The file raises, needs nothing or does not survive validate_fix.
Skip ==
    /\ step = "next" /\ Advance
    /\ \/ /\ Raises(content[at]) \/ ValidationErrors(Fixed(content[at]))
          /\ Tell("failed") /\ failed' = failed + 1
       \/ /\ ~Raises(content[at]) /\ Fixed(content[at]) = content[at]
          /\ Tell("unchanged") /\ UNCHANGED failed
    /\ UNCHANGED <<netEnv, original, disk, saved, modified>>

Apply ==
    /\ step = "next" /\ ~Raises(content[at])
    /\ Fixed(content[at]) # content[at] /\ ~ValidationErrors(Fixed(content[at]))

\* FixResult has no backup_created until apply_fix sets it: without a backup the
\* file is counted as modified, the attribute raises, it is told as failed.
\* (Weaker form: it is told as modified.)
CountedAlways(backedUp) == modified' = modified + 1 /\ Tell("modified") /\ UNCHANGED failed
Counted(backedUp) ==
    /\ modified' = modified + 1
    /\ IF backedUp THEN Tell("modified") /\ UNCHANGED failed
                   ELSE Tell("failed") /\ failed' = failed + 1

DryRun ==
    /\ Apply /\ dryRun /\ Counted(FALSE) /\ Advance
    /\ UNCHANGED <<netEnv, original, disk, saved>>

\* create_backup; a failure does not stop the fix.
Backup ==
    /\ Apply /\ ~dryRun /\ step' = "write"
    /\ \/ /\ root = "rw" /\ backup' = [backup EXCEPT ![at] = content[at]] /\ saved' = TRUE
       \/ saved' = FALSE /\ UNCHANGED backup
    /\ UNCHANGED <<netEnv, original, content, at, stats>>

\* The temporary file or the rename fails: the file is written in place.
WriteFail ==
    /\ step = "write" /\ step' = "direct"
    /\ UNCHANGED <<netEnv, original, disk, at, saved, stats>>

Write ==
    /\ step \in {"write", "direct"} /\ root = "rw"
    /\ content' = [content EXCEPT ![at] = Fixed(content[at])]
    /\ Counted(saved) /\ Advance
    /\ UNCHANGED <<netEnv, original, backup, saved>>

\* g.write raises, also halfway; there may be no backup to restore from.
DirectFail ==
    /\ step = "direct" /\ Tell("failed") /\ failed' = failed + 1
    /\ content' \in {content} \cup IF root = "rw" THEN {[content EXCEPT ![at] = Torn]} ELSE {}
    /\ IF saved THEN step' = "restore" /\ UNCHANGED at ELSE Advance
    /\ UNCHANGED <<netEnv, original, backup, saved, modified>>

Restore ==
    /\ step = "restore" /\ Advance
    /\ \/ root = "rw" /\ content' = [content EXCEPT ![at] = backup[at]]
       \/ UNCHANGED content
    /\ UNCHANGED <<netEnv, original, backup, saved, stats>>

NetNext == \/ Start \/ Skip \/ DryRun \/ Backup \/ WriteFail \/ Write
           \/ DirectFail \/ Restore

-----------------------------------------------------------------------------
(* Properties.                                                             *)

NetworkTypes ==
    /\ root \in {"rw", "ro", "none"} /\ dryRun \in BOOLEAN /\ level \in Levels
    /\ DOMAIN original = DOMAIN content /\ DOMAIN backup = DOMAIN content
    /\ \A f \in DOMAIN content : /\ content[f] \in Texts \cup {Torn} /\ original[f] \in Texts
                                 /\ backup[f] \in Texts \cup {None}
    /\ step \in {"idle", "next", "write", "direct", "restore", "done"}
    /\ at \in 1..(Files + 1) /\ saved \in BOOLEAN
    /\ told \in [DOMAIN content -> {"none", "unchanged", "modified", "failed"}]
    /\ modified \in 0..Files /\ failed \in 0..Files

\* The entry of a file is true: one told as modified is what its fixer made of it
\* and its backup holds what it was; one told as unchanged is as it was; and a
\* file that was changed without a backup is never told as a success.
ToldTrue ==
    \A f \in DOMAIN content :
        /\ told[f] = "modified" => content[f] = Fixed(original[f]) /\ backup[f] = original[f]
        /\ told[f] = "unchanged" => content[f] = original[f]
        /\ content[f] # original[f] => backup[f] = original[f] \/ told[f] = "failed"

\* After renames a reference still names a device, as it did before, if no file
\* has failed and the files are such that renames are followed: the key of a
\* netplan device is not renamed, nor what a networkd file refers to.
Followed(c) == c.type # "netplan" /\ (c.type = "networkd" => c.ref \notin Vmware)
Resolves(texts) == \A f \in DOMAIN texts :
                      texts[f].ref # None => \E g \in DOMAIN texts : texts[g].dev = texts[f].ref
RenamesAgree ==
    step = "done" /\ failed = 0 /\ (\A f \in DOMAIN original : Followed(original[f]))
        /\ Resolves(original) => Resolves(content)
=============================================================================
