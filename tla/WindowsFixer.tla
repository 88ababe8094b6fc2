---------------------------- MODULE WindowsFixer ----------------------------
(***************************************************************************)
(* The library for Windows guests (src/hyper2kvm/fixers/windows): edits of *)
(* the registry, each of a hive that is copied aside, downloaded, edited,  *)
(* uploaded and downloaded once more to look at it; a service for the      *)
(* first boot; the network configuration that the service is to restore;   *)
(* copies of the BCD stores.                                               *)
(*                                                                         *)
(* A caller makes one call after the other on one image; the process may   *)
(* be killed anywhere, and another goes on with the calls that are left.   *)
(* A hive is the set of what is in it, or Torn: a part of one, whatever    *)
(* hivex makes of that.  Backups are named by the second they are made in. *)
(*                                                                         *)
(* The offline fixer itself calls windows_bcd_actual_fix and, as far as    *)
(* its first import, inject_virtio_drivers (OfflineFixer!Windows); the     *)
(* rest is for programs that use the package.  External: libguestfs and    *)
(* hivex.  Not here: values, encodings, what Windows does with the script. *)
(***************************************************************************)
EXTENDS Naturals, Sequences, FiniteSets

CONSTANTS
    None, Torn, \* what is not there, and what is there in part
    Guests,     \* the guests there may be
    Calls,      \* the sequences of calls there may be
    MaxClock    \* bound: seconds that pass

Hives == {"SYSTEM", "SOFTWARE"}
Kinds == {"drivers", "dword", "path", "runonce", "firstboot", "network", "bcd"}

GuestType == [current : {1, 2},             \* Select\Current
              sets : SUBSET {1, 2},         \* the control sets there are
              readable : BOOLEAN,           \* _hivex_read_value_dict gets a value
              cards : Nat]                  \* interfaces in Tcpip\Parameters

CallType == [kind : Kinds, dry : BOOLEAN]

VARIABLES
    guest,      \* the guest
    calls,      \* the calls that are left, with the one under way
    pc,         \* where that one is
    root,       \* what is mounted at /: "windows", "other", "none"
    hive,       \* the hives in the guest
    whole,      \* history: each hive when it was last whole
    backup,     \* the backups of each, by second
    hasty,      \* history: hives of which a backup has replaced another
    clock,      \* seconds
    local,      \* the copy of the hive that is edited
    files,      \* what else has been put into the guest
    script,     \* firstboot.cmd: "none", whose it is, or Torn
    saved,      \* the mode in saved_network.json
    result      \* what the call has come to

vars == <<guest, calls, pc, root, hive, whole, backup, hasty, clock, local, files,
          script, saved, result>>
registry == <<hive, whole>>
copies == <<backup, hasty>>
payload == <<files, script, saved>>

Call == Head(calls)
H == IF Call.kind \in {"path", "runonce"} THEN "SOFTWARE" ELSE "SYSTEM"
Seconds == 0..MaxClock

\* What may be in a hive: keys of control sets, and 0 for those of SOFTWARE.
Keys == {1, 2} \X {"override", "service", "devices", "dword", "firstboot", "network"}
Entries == Keys \cup ({0} \X {"own path", "staged path", "runonce"})
Overrides == {1, 2} \X {"override"}
Own == <<0, "own path">>
Staged == <<0, "staged path">>

\* What is assumed of the constants.
WindowsAssumption ==
    /\ Guests \subseteq GuestType /\ Calls \subseteq Seq(CallType) /\ MaxClock \in Nat
    /\ None # Torn /\ None \notin Kinds
    /\ \A content \in SUBSET Entries : content # None /\ content # Torn

Init ==
    /\ guest \in Guests /\ calls \in Calls /\ pc = "next" /\ clock = 0
    /\ root \in {"windows", "other", "none"}
    /\ hive = [SYSTEM |-> guest.sets \X {"override"}, SOFTWARE |-> {Own}]
    /\ whole = hive /\ backup = [h \in Hives |-> [t \in Seconds |-> None]] /\ hasty = {}
    /\ local = {} /\ files = {} /\ script = None /\ saved = None /\ result = "none"

Goto(p) == pc' = p
Fail == Goto("next") /\ calls' = Tail(calls) /\ result' = "failed"
Succeed == Goto("next") /\ calls' = Tail(calls) /\ result' = "ok"

-----------------------------------------------------------------------------
(* Mounting, backup and download, common to the edits.                     *)

Begin ==
    /\ pc = "next" /\ calls # <<>> /\ result' = "none"
    /\ Goto(IF Call.kind = "bcd" THEN "bcd" ELSE IF Call.kind = "firstboot" THEN "dirs" ELSE "root")
    /\ UNCHANGED <<guest, calls, root, registry, copies, clock, local, payload>>

\* _mount_inspected_os_best_effort: all is unmounted, some of it comes back.
Remounted == IF root = "windows" THEN {"windows"} ELSE {"windows", "other", "none"}

\* _ensure_windows_root, and is there such a hive.
EnsureRoot ==
    /\ pc \in {"root", "dirs"} /\ root' \in Remounted
    /\ \/ root' = "windows" /\ UNCHANGED <<calls, result>>
          /\ Goto(CASE pc = "dirs" -> "script" [] Call.kind = "network" -> "snapshot"
                    [] OTHER -> "backup")
          /\ files' \in {files} \cup (IF pc = "dirs" THEN {files \cup {"dirs"}} ELSE {})
       \/ Fail /\ UNCHANGED files
    /\ UNCHANGED <<guest, registry, copies, clock, local, script, saved>>

\* _hive_backup_best_effort: a cp within the second of another replaces its
\* copy; one that fails may leave less than a hive, and fails the call.
Backup(content) ==
    /\ backup' = [backup EXCEPT ![H][clock] = content]
    /\ hasty' = hasty \cup (IF backup[H][clock] = None THEN {} ELSE {H})

\* (Weaker form: best effort, as its name says.)
GoesOn == Goto("download") /\ UNCHANGED <<calls, result>>
BackupFailed == Fail

BackUp ==
    /\ pc = "backup"
    /\ \/ Call.dry /\ Goto("download") /\ UNCHANGED <<calls, result, copies>>
       \/ ~Call.dry /\ Backup(hive[H]) /\ Goto("download") /\ UNCHANGED <<calls, result>>
       \/ ~Call.dry /\ (Backup(Torn) \/ UNCHANGED copies) /\ BackupFailed
    /\ UNCHANGED <<guest, root, registry, clock, local, payload>>

\* _download_hive_local, with its fallback, and opening what has come.  A download
\* that breaks off is passed over, and what there is by then will do if it has
\* 4 KiB and begins with "regf"; so will a hive that is torn already.
Download ==
    /\ pc = "download"
    /\ \/ local' \in {hive[H], Torn} /\ Goto("edit") /\ UNCHANGED <<calls, result>>
       \/ Fail /\ UNCHANGED local
    /\ UNCHANGED <<guest, root, registry, copies, clock, payload>>

-----------------------------------------------------------------------------
(* The edits: what may come of the local copy, and whether without errors. *)

\* _detect_current_controlset, and ControlSet001 if that one is missing.
Detected == IF guest.readable THEN guest.current ELSE 1
Target == IF Detected \in guest.sets THEN Detected ELSE 1

\* _edit_system_services: a driver that fails is an error of its own; the
\* override of a service that is there goes, if hivex can delete it.
WithService(content) ==
    {content} \cup {(content \cup {<<Target, "service">>}) \ gone :
                       gone \in {{}, {<<Target, "override">>}}}

\* _edit_system_cdd.
WithDevices(content) == {content, content \cup {<<Target, "devices">>}}

\* edit_system_hive between opening and committing.
WithDrivers(content) == UNION {WithDevices(c) : c \in WithService(content)}
Erroneous(content) ==
    content # Torn /\ ~({<<Target, "service">>, <<Target, "devices">>} \subseteq content)

\* append_devicepath_software_hive: what cannot be read is taken for the default.
\* (Weaker form: the path is not read at all.)
Alone(content) == (content \ {Own}) \cup {Staged}
WithPath(content) == IF guest.readable THEN content \cup {Staged}
                                       ELSE (content \ {Own}) \cup {Staged}

\* set_system_dword, add_software_runonce, _add_firstboot_service_system_hive.
WithDword(content) == content \cup {<<Target, "dword">>}
WithRunOnce(content) == content \cup {<<0, "runonce">>}
WithFirstboot(content) == content \cup {<<Target, Call.kind>>}

\* (What is a part stays one.)
Edits ==
    IF local = Torn THEN {Torn}
    ELSE CASE Call.kind = "drivers" -> WithDrivers(local)
           [] Call.kind = "dword"   -> {WithDword(local)}
           [] Call.kind = "path"    -> {WithPath(local)}
           [] Call.kind = "runonce" -> {WithRunOnce(local)}
           [] OTHER                 -> {WithFirstboot(local)}

\* An edit that failed in part is committed and uploaded like any other; a
\* handle that is not open for writing takes no value.
Edit ==
    /\ pc = "edit"
    /\ \/ /\ ~Call.dry /\ (H = "SYSTEM" /\ local # Torn => Target \in guest.sets)
          /\ local' \in Edits /\ Goto("upload") /\ UNCHANGED calls
          /\ result' = IF Call.kind = "drivers" /\ Erroneous(local') THEN "errors" ELSE "none"
       \/ /\ Call.dry /\ Call.kind \in {"dword", "path", "runonce"} /\ guest.readable
          /\ Edits = {local} /\ Succeed /\ UNCHANGED local
       \/ Fail /\ UNCHANGED local
    /\ UNCHANGED <<guest, root, registry, copies, clock, payload>>

\* The commit is local; the upload may break off.
Upload ==
    /\ pc = "upload"
    /\ \/ /\ hive' = [hive EXCEPT ![H] = local]
          /\ whole' = IF local = Torn THEN whole ELSE [whole EXCEPT ![H] = local]
          /\ Goto("verify") /\ UNCHANGED <<calls, result>>
       \/ /\ hive' \in {hive, [hive EXCEPT ![H] = Torn]} /\ Fail /\ UNCHANGED whole
    /\ UNCHANGED <<guest, root, copies, clock, local, payload>>

\* The hive is downloaded again; what is then found wrong in it is noted only.
Verify ==
    /\ pc = "verify" /\ (IF result = "errors" THEN Fail ELSE Succeed \/ Fail)
    /\ UNCHANGED <<guest, root, registry, copies, clock, local, payload>>

-----------------------------------------------------------------------------
(* The payload of the first boot.                                          *)

\* _choose_best_network_payload.  _IP_RE has a space in each of its repetitions
\* and matches no address, so that no interface is ever found to be static.
Mode == "dhcp"

\* retain_windows_network_config: without interfaces there is nothing to do.  The
\* hive is downloaded like the others: a part of it may do.
Snapshot ==
    /\ pc = "snapshot"
    /\ IF guest.cards > 0
       THEN (Goto("stage") /\ UNCHANGED <<calls, result>>) \/ Fail
       ELSE Fail
    /\ UNCHANGED <<guest, root, registry, copies, clock, local, payload>>

\* saved_network.json, apply-network.ps1, network_override.json, in this order.
Stage ==
    /\ pc = "stage"
    /\ \/ /\ Goto("dirs") /\ UNCHANGED <<calls, result>>
          /\ IF Call.dry THEN UNCHANGED <<files, saved>>
             ELSE saved' = Mode /\ files' \in {files \cup {"ps1"}, files \cup {"ps1", "override"}}
       \/ /\ ~Call.dry /\ Fail
          /\ \/ saved' \in {saved, Torn} /\ UNCHANGED files
             \/ saved' = Mode /\ files' \in {files, files \cup {"ps1"}}
    /\ UNCHANGED <<guest, root, registry, copies, clock, local, script>>

\* The directories have been made, in a dry run too; firstboot.cmd is one file
\* for every service. 
WriteScript ==
    /\ pc = "script"
    /\ \/ Call.dry /\ Goto("backup") /\ UNCHANGED <<calls, result, script>>
       \/ ~Call.dry /\ script' = Call.kind /\ Goto("backup") /\ UNCHANGED <<calls, result>>
       \/ ~Call.dry /\ script' \in {script, Torn} /\ Fail
    /\ UNCHANGED <<guest, root, registry, copies, clock, local, files, saved>>

\* windows_bcd_actual_fix: each store is copied, or is not; no failure counts.
Bcd ==
    /\ pc = "bcd" /\ Succeed
    /\ files' \in {files} \cup (IF Call.dry \/ root # "windows" THEN {} ELSE {files \cup {"bcd"}})
    /\ UNCHANGED <<guest, root, registry, copies, clock, local, script, saved>>

-----------------------------------------------------------------------------

Tick ==
    /\ clock < MaxClock /\ clock' = clock + 1 /\ calls # <<>>
    /\ UNCHANGED <<guest, calls, pc, root, registry, copies, local, payload, result>>

\* What was being written may be torn; the next appliance has nothing mounted.
Kill ==
    /\ pc \notin {"next", "done"} /\ Fail /\ root' = "none"
    /\ hive' \in {hive} \cup (IF pc = "upload" THEN {[hive EXCEPT ![H] = Torn]} ELSE {})
    /\ script' \in {script} \cup (IF pc = "script" /\ ~Call.dry THEN {Torn} ELSE {})
    /\ saved' \in {saved} \cup (IF pc = "stage" /\ ~Call.dry THEN {Torn} ELSE {})
    /\ \/ pc = "backup" /\ ~Call.dry /\ Backup(Torn)
       \/ UNCHANGED copies
    /\ UNCHANGED <<guest, whole, clock, local, files>>

Over == pc = "next" /\ calls = <<>> /\ Goto("done") /\ UNCHANGED <<guest, calls, root, registry,
        copies, clock, local, payload, result>>

Advance ==
    \/ Begin \/ EnsureRoot \/ BackUp \/ Download \/ Edit \/ Upload \/ Verify
    \/ Snapshot \/ Stage \/ WriteScript \/ Bcd \/ Over
Next == Advance \/ Tick \/ Kill
Spec == Init /\ [][Next]_vars

\* Every call of libguestfs returns.
FairSpec == Spec /\ WF_vars(Advance)

-----------------------------------------------------------------------------

TypeOK ==
    /\ guest \in GuestType /\ calls \in Seq(CallType)
    /\ pc \in {"next", "root", "dirs", "backup", "download", "edit", "upload", "verify",
               "snapshot", "stage", "script", "bcd", "done"}
    /\ (pc \notin {"next", "done"} => calls # <<>>)
    /\ root \in {"windows", "other", "none"}
    /\ hive \in [Hives -> (SUBSET Entries) \cup {Torn}] /\ whole \in [Hives -> SUBSET Entries]
    /\ backup \in [Hives -> [Seconds -> (SUBSET Entries) \cup {None, Torn}]] /\ hasty \subseteq Hives
    /\ clock \in Seconds /\ local \in (SUBSET Entries) \cup {Torn}
    /\ files \subseteq {"dirs", "ps1", "override", "bcd"}
    /\ script \in {None, Torn, "firstboot", "network"} /\ saved \in {None, Torn, "dhcp"}
    /\ result \in {"none", "errors", "failed", "ok"}

\* A hive that is torn, by an upload that broke off or by one of a copy that had
\* been cut short, can be had back as it last was, whatever has failed, been killed
\* or been tried again since, unless two backups of it were made within one second.
Recoverable ==
    \A h \in Hives \ hasty :
        hive[h] = Torn => \E t \in Seconds : backup[h][t] = whole[h]

\* A service that Windows is to start has a script to run, or what is left of it.
ScriptThere ==
    \A h \in {hive.SYSTEM} \ {Torn} :
        \A s \in guest.sets : {<<s, "firstboot">>, <<s, "network">>} \cap h # {} => script # None

\* No edit takes away what an earlier one, or the guest, has put into a hive, but
\* for the overrides, if hivex can read values: after each step a hive holds what
\* it held when it was last whole, or it is torn (then see Recoverable; the call
\* that edited a copy cut short may answer that all is well).
EntriesStay ==
    guest.readable =>
        \A h \in Hives : hive'[h] # Torn => whole[h] \ Overrides \subseteq hive'[h]
=============================================================================
