---------------------------- MODULE VddkDownload ----------------------------
(***************************************************************************)
(* vddk_download_disk (src/hyper2kvm/vmware/transports/vddk_loader.py) and *)
(* VDDKESXClient (vddk_client.py): one disk of a VM is read over VDDK, a   *)
(* few sectors at a time, into <name>.part, which replaces the local file  *)
(* when it has as many sectors as the disk.  A part that an earlier run    *)
(* left is resumed by its size alone.                                      *)
(*                                                                         *)
(* A file is a sequence of sectors; a sector is <<position, version of the *)
(* disk>>.  Between two runs the disk may have been written to and         *)
(* resized.  The process may fail or be killed anywhere, in a write also   *)
(* half way through a sector.  The options are those the one caller gives: *)
(* resume and verify_size, nothing durable, no cancel.                     *)
(* External: libvixDiskLib and the server.  Not here: callbacks, TLS       *)
(* thumbprints, progress, the loss of power.                               *)
(***************************************************************************)
EXTENDS Naturals, Sequences

CONSTANTS
    MaxRuns,        \* bound: how often the disk is asked for
    Capacity,       \* sectors of each version of the disk
    PerRead,        \* sectors_per_read
    MaxRetries      \* max_read_retries

Versions == 1..MaxRuns

\* What is assumed of the constants.
VddkAssumption ==
    /\ MaxRuns \in Nat \ {0} /\ PerRead \in Nat \ {0} /\ MaxRetries \in Nat
    /\ Capacity \in [Versions -> Nat \ {0}]

VARIABLES
    run,        \* which call of vddk_download_disk this is
    remote,     \* the version of the disk
    pc,         \* where the call is
    inited,     \* _vddk_inited, of the process
    connected,  \* self._conn is a session
    handle,     \* h is an open disk
    attempt,    \* failed reads of these sectors
    part,       \* the sectors in <name>.part
    partThere,  \* is there such a file
    torn,       \* it ends within a sector
    local,      \* the sectors in the file itself; empty: there is none
    result      \* what the call has come to

vars == <<run, remote, pc, inited, connected, handle, attempt, part, partThere,
          torn, local, result>>
call == <<run, remote, result>>
session == <<inited, connected, handle>>
disk == <<part, partThere, torn, local>>

Sector == Nat \X Versions

Init ==
    /\ run = 1 /\ remote = 1 /\ pc = "select" /\ attempt = 0 /\ result = "none"
    /\ inited = FALSE /\ connected = FALSE /\ handle = FALSE
    /\ part = <<>> /\ partThere = FALSE /\ torn = FALSE /\ local = <<>>

Cap == Capacity[remote]

\* The exception leaves download_vmdk and then vddk_download_disk.
Raise == pc' = "close" /\ result' = "failed" /\ UNCHANGED <<run, remote>>

-----------------------------------------------------------------------------

\* What fails before the session is not in the try.
Unconnected(p) ==
    /\ \/ pc' = p /\ UNCHANGED result
       \/ pc' = "done" /\ result' = "failed"
    /\ UNCHANGED <<run, remote, connected, handle, attempt, disk>>

\* The VM, its disk and its host are looked for.
Select == pc = "select" /\ Unconnected("load") /\ UNCHANGED inited

\* _ensure_loaded: the library is found and loaded, and
Load == pc = "load" /\ Unconnected("init") /\ UNCHANGED inited

\* initialised once per process, with one version of the interface after the
\* other until one will do.
Loaded == pc = "init" /\ inited /\ pc' = "connect" /\ UNCHANGED <<call, session, attempt, disk>>
InitOnce == pc = "init" /\ ~inited /\ Unconnected("connect") /\ inited' = (pc' = "connect")

\* ConnectEx.
Connect ==
    /\ pc = "connect"
    /\ \/ connected' = TRUE /\ pc' = "open" /\ UNCHANGED result
       \/ connected' = FALSE /\ pc' = "done" /\ result' = "failed"
    /\ UNCHANGED <<run, remote, inited, handle, attempt, disk>>

Open ==
    /\ pc = "open"
    /\ \/ handle' = TRUE /\ pc' = "decide" /\ UNCHANGED call
       \/ Raise /\ UNCHANGED handle
    /\ UNCHANGED <<inited, connected, attempt, disk>>

\* (Weaker form: a part is never resumed.)
NeverResumes == FALSE
Resumable == partThere /\ part # <<>> /\ ~torn /\ Len(part) <= Cap

\* GetInfo, and what to do with the part that is there: "r+b" behind its last
\* sector, or "wb".
Decide ==
    /\ pc = "decide"
    /\ \/ /\ pc' = "read" /\ attempt' = 0 /\ partThere' = TRUE
          /\ part' = IF Resumable THEN part ELSE <<>>
          /\ torn' = (torn /\ Resumable) /\ UNCHANGED <<call, local>>
       \/ Raise /\ UNCHANGED <<attempt, disk>>
    /\ UNCHANGED session

\* As many sectors as one read takes, and a write of n sectors at the end.
Most == IF Len(part) + PerRead < Cap THEN PerRead ELSE Cap - Len(part)
Appended(n) == part \o [i \in 1..n |-> <<Len(part) + i, remote>>]

\* The sectors of one read are written.
Read ==
    /\ pc = "read" /\ Len(part) < Cap
    /\ part' = Appended(Most) /\ attempt' = 0
    /\ UNCHANGED <<call, session, pc, partThere, torn, local>>

\* _read_with_retry.  Whether an error is transient is read off its text; one
\* that is not, or one too many, ends the download.
Transient == attempt < MaxRetries /\ attempt' = attempt + 1 /\ UNCHANGED <<call, pc>>

ReadFails ==
    /\ pc = "read" /\ Len(part) < Cap
    /\ Transient \/ (Raise /\ UNCHANGED attempt)
    /\ UNCHANGED <<session, disk>>

\* A write that fails half way.
WriteFails ==
    /\ pc = "read" /\ Len(part) < Cap
    /\ \E n \in 0..(Most - 1) : part' = Appended(n)
    /\ torn' \in BOOLEAN /\ Raise
    /\ UNCHANGED <<session, attempt, partThere, local>>

\* verify_size.
Verified == Len(part) = Cap /\ ~torn

Verify ==
    /\ pc = "read" /\ Len(part) >= Cap
    /\ IF Verified THEN pc' = "replace" /\ UNCHANGED call ELSE Raise
    /\ UNCHANGED <<session, attempt, disk>>

\* What is left of the old file when it cannot be replaced.  (Weaker form: it
\* has been removed to make room.)
Removed == <<>>
Kept == local

\* _atomic_write_replace, and the size once more.
Replace ==
    /\ pc = "replace"
    /\ \/ /\ local' = part /\ part' = <<>> /\ partThere' = FALSE /\ torn' = FALSE
          /\ pc' = "close" /\ result' = "ok" /\ UNCHANGED <<run, remote>>
       \/ local' = Kept /\ Raise /\ UNCHANGED <<part, partThere, torn>>
    /\ UNCHANGED <<session, attempt>>

\* The two finally clauses: of download_vmdk, and of vddk_download_disk.
Close ==
    /\ pc = "close" /\ pc' = "disconnect" /\ handle' = FALSE
    /\ UNCHANGED <<call, inited, connected, attempt, disk>>

Disconnect ==
    /\ pc = "disconnect" /\ pc' = "done" /\ connected' = FALSE
    /\ UNCHANGED <<call, inited, handle, attempt, disk>>

-----------------------------------------------------------------------------

\* The process is killed, in a write perhaps; a new one knows of no session.
Kill ==
    /\ pc \notin {"done", "killed"} /\ pc' = "killed"
    /\ inited' = FALSE /\ connected' = FALSE /\ handle' = FALSE
    /\ IF pc = "read" /\ Len(part) < Cap
       THEN /\ \E n \in 0..Most : part' = Appended(n)
            /\ torn' \in {torn, Len(part') < Cap}
       ELSE UNCHANGED <<part, torn>>
    /\ UNCHANGED <<call, attempt, partThere, local>>

\* The disk is asked for again; the guest may have written to it meanwhile.
Again ==
    /\ pc \in {"done", "killed"} /\ run < MaxRuns
    /\ run' = run + 1 /\ remote' \in {remote, run'}
    /\ pc' = "select" /\ result' = "none"
    /\ UNCHANGED <<session, attempt, disk>>

Advance ==
    \/ Select \/ Load \/ Loaded \/ InitOnce \/ Connect \/ Open \/ Decide
    \/ Read \/ ReadFails \/ WriteFails \/ Verify \/ Replace \/ Close \/ Disconnect

Next == Advance \/ Kill \/ Again

Spec == Init /\ [][Next]_vars

\* A call of the library returns.
FairSpec == Spec /\ WF_vars(Advance)

-----------------------------------------------------------------------------

TypeOK ==
    /\ run \in Versions /\ remote \in 1..run
    /\ pc \in {"select", "load", "init", "connect", "open", "decide", "read", "replace",
               "close", "disconnect", "done", "killed"}
    /\ inited \in BOOLEAN /\ connected \in BOOLEAN /\ handle \in BOOLEAN
    /\ attempt \in 0..MaxRetries
    /\ part \in Seq(Sector) /\ partThere \in BOOLEAN /\ torn \in BOOLEAN
    /\ local \in Seq(Sector)
    /\ result \in {"none", "ok", "failed"}

\* The file is a disk from its first to its last sector, as long as the disk
\* was in some run, whatever was resumed, torn or resized.
Whole ==
    /\ \A i \in 1..Len(local) : local[i][1] = i
    /\ \E v \in Versions : Len(local) = Capacity[v]

\* "local_path is written atomically": what a download promises (FileDelivery),
\* over failures, kills and resumed parts of disks that have changed.
Promise ==
    INSTANCE FileDelivery
    WITH Files <- {1}, whole <- IF Whole THEN {1} ELSE {},
         outcome <- <<IF pc = "done" THEN result ELSE "none">>
VddkDelivery == Promise!Spec

\* Sectors once read are not read again: a part is cut only when it cannot be
\* resumed, and it goes only by taking the name of the file.
PartStays ==
    Len(part') < Len(part) =>
        torn \/ Len(part) > Cap \/ (local' = part /\ result' = "ok")
PartKept == [][PartStays]_vars

=============================================================================
