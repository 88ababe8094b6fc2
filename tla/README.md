# hyper2kvm: a TLA+ verification project

hyper2kvm turns virtual machines of VMware, Hyper-V, Azure and plain disk images into KVM guests.
It fetches the disks, unpacks and flattens them, repairs the guest inside (offline, through libguestfs,
or over ssh while it runs), converts the image, tests that it boots, and can do all of that
unattended, as a daemon that watches a directory.

This directory holds TLA+ models of the parts of the program in which *order* matters: threads
that share files and tables, processes that are killed and started again, downloads that break and
are resumed, stages that fail while the run goes on, second runs over what the first one left, and
clean-ups that must happen whatever failed before them. TLC checks the models on small
instances; TLAPS proves the most important safety properties for every number of disks,
workers, files, runs and retries. What happens *inside* one call of qemu-img, virt-v2v, govc, `az`,
virsh or libguestfs is not modelled: such a call succeeds, or fails half way.

- [1 Inventory](#1-inventory)
- [2 The modules and the code](#2-the-modules-and-the-code)
- [3 What TLC checks](#3-what-tlc-checks)
- [4 What is proved](#4-what-is-proved)
- [5 What the violation runs show](#5-what-the-violation-runs-show)
- [6 Other divergences met on the way](#6-other-divergences-met-on-the-way)
- [7 What is not modelled](#7-what-is-not-modelled)
- [8 Plan](#8-plan)

`PROJECT.json` lists components, runs, properties, hazards, theorems and the source lines of
every definition. To run something: `tlc -workers 2 -config MCDaemon_safety.cfg
MCDaemon.tla`, `tlapm AzureExport_proofs.tla`.

## 1 Inventory

Paths are relative to `src/hyper2kvm/`.

| component | state it keeps | operations | what is hard |
|---|---|---|---|
| **Daemon** (`daemon/daemon_watcher.py`, `deduplicator.py`, `control.py`) | watch directory with `.processed` and `.errors`; SQLite dedup table; in memory the queue, `handler.processing` / `processed`, the retry queue, stop and pause events | watchdog events, start-up scan, worker loop, archive / reject, schedule and run retries, pause / resume / drain / stop / SIGTERM | observer thread, main thread, worker pool and control thread; killed between a database row and a rename; `queue.join` |
| **Daemon statistics** (`daemon/stats.py`) | counters, table of current jobs, one lock, `stats.json` | `job_started`, `job_completed`, `get_summary`, `save` | methods that call each other with a lock that is not re-entrant; a signal handler on the thread that holds it |
| **Recovery** (`core/recovery_manager.py`) | checkpoint files, `run.json`, `latest_completed.json`, a lock file, the list in memory | open, save, complete, decide where to resume, clean up | several files replaced one by one; killed in between; two processes; names and times as the order |
| **Orchestrator and disk pipeline** (`orchestrator/*.py`, `converters/flatten.py`) | the disks, the working directory, the output directory | discover, virt-v2v before or after, flatten, fix, convert, test, clean up; in sequence or in a pool | threads in one directory with names made of the second; files of an earlier run; failures that are dropped |
| **HTTPS datastore download** (`vmware/transports/http_client.py`, `vmware/vsphere/mode.py`) | local file, temporary file, start byte, retry counters, results | download with Range, atomic replace, two layers of retries, batch in sequence or by a pool | where the part on disk, the Range and the mode of opening meet; cancelled pools; kills |
| **VDDK download** (`vmware/transports/vddk_client.py`, `vddk_loader.py`) | session, open disk, `.part` and its position in sectors | connect, resume, read with retries, verify, replace | resuming by size alone a disk that has changed; parts torn within a sector |
| **Azure export** (`azure/source.py`, `download.py`, `cli.py`) | snapshots, temporary disks and SAS in the cloud; `.part` and VHD files; the report | snapshot, stage, grant, download with retries, revoke, delete, report | calls that fail and have had their effect; clean-up of every way out; shared directories |
| **govc export** (`vmware/clients/nfc_lease.py`, `transports/govc_*.py`) | stage directories, the final file or directory | export, publish, retry, cancel; OVF, then OVA, then HTTPS | publication of several files one by one; govc that outlives its parent; links of a chain that fail half way |
| **vSphere exporter and modes** (`orchestrator/vsphere_exporter.py`, `vmware/vsphere/mode.py`, `vmware/utils/*.py`, `vmware/clients/client.py`) | session, password file, snapshots and drives of the VM, output directories | export many VMs by virt-v2v, VDDK or files; `export_vm`, ovftool, downloads | one VM that fails among many; the session and the password on every way out |
| **Extractors** (`converters/extractors/*.py`) | `extracted` and `qcow2` directories | extract members, discover disks, convert | members of one name; what a failure leaves and the next run finds |
| **Image conversion** (`converters/qemu/converter.py`) | `<dst>.part`, a qemu-img process, progress | plan of attempts, poll, rename, interrupt | a qemu-img that outlives its parent |
| **Offline fixer** (`fixers/offline_fixer.py`, `fixers/filesystem/fixer.py`, `fixers/offline/*.py`) | drive, mounts, tables of the guest, checkpoints, report | a fixed list of stages, critical or not | swallowed failures; a guest remounted or left unmounted; the host's view of the guest's tree |
| **Network fixer** (`fixers/network/*.py`) | the network files of the guest, their backups, statistics | topology, renames, a fixer per type, validate, back up, write, restore | renames planned over all files and applied file by file; failed writes |
| **Boot fixer** (`fixers/bootloader/grub.py`) | boot entries, defaults, `grub.cfg`, initramfs, mount of `/boot` | update `root=`, mount `/boot`, inject drivers, regenerate | writing before or beside the mount |
| **Validation suite** (`core/validation_suite.py`) | results of checks, processes | ordered and parallel checks with retries and time limits, in this process or in others | dependencies across phases; a pipe that is read after the join; critical failures |
| **Live fixer** (`fixers/live/*.py`, `ssh/`) | files of a running guest | one remote command after the other | lost connections; second runs |
| **Windows fixers** (`fixers/windows/**`) | registry hives, their backups, first-boot script, BCD | copy, download, edit, upload, look again | torn hives; backups named by the second; the script and the service that runs it |
| **Testers** (`testers/libvirt_tester.py`, `qemu_tester.py`) | a domain, NVRAM, temporary files, a QEMU | define, start, wait, clean up | a name that all runs share |
| Fetch over ssh (`converters/fetch.py`), disk resizer, libvirt XML, configuration, command line, inventory and plan modes, sanity checks, notifier, retry helpers, utilities | none that lasts | parse, merge, print, check | pure, read only, or never reached |

**Interactions.** A daemon worker calls `Orchestrator.run` for each file it takes; the orchestrator asks
an exporter (vSphere, Azure) or discovery (with its extractors) for the disks, hands them to
`VirtV2VConverter` or `DiskProcessor`, which calls `Flatten`, `OfflineFSFix` and `Convert` in turn,
runs the smoke tests on the first image, and brackets the whole with `RecoveryManager` checkpoints.
`OfflineFSFix.run` calls the validation suite, the network fixer and the boot fixer as
stages of its own. Daemon workers report to `DaemonStatistics`, which the control
thread and the signal handler read. Threads share: the daemon's queue, sets and
statistics; in a parallel run the working and the temporary directory; in a download batch
nothing but the list of results. Everything that survives a process is a file, a domain of
libvirt, or a resource in the cloud or in vCenter.

**What makes each correct.**
*Daemon*: a path is converted by one worker at a time and not again once it succeeded; what lies in
`.processed` or `.errors` is recorded as such; no file is lost; the job table shows what runs.
*Statistics*: each job is counted once; calls return. *Recovery*: the last completed checkpoint of each
stage survives; a run that got somewhere can be resumed. *Pipeline*: a file with a final name is
complete; each result is of its own disk; sources survive; a run ends. *Downloads and exports*: a file
that is reported is whole and of one version; files appear at once; what was created in the
cloud goes again, in an order that the cloud accepts; secrets do not stay on disk; the report tells the
truth. *Extraction and conversion*: every disk of the archive is found and has an image of its own; nobody writes
to an image that has its name. *Repair, offline and live*: a dry run changes nothing; what is told of the guest
is true; what is damaged is told; what was there stays; what was torn can be had back. *Tests*: what passes is the
image under test, and nothing of it stays behind.

The `hazards` of `PROJECT.json` say, line by line, where each of these can go wrong.

## 2 The modules and the code

```
 DaemonWatcher  DaemonStats   RecoveryManager   DiskPipeline   HttpDownload
      \             /               |                |              |
        \         /          MCRecoveryManager  MCDiskPipeline  MCHttpDownload
          Daemon
         MCDaemon                OfflineFixer ---- NetworkFixer
                                      |    \ \____ ValidationSuite
                                  MCRepair  \_____ BootFixer

 AzureExport  VddkDownload  NfcExport  VsphereExport  Extract  QemuConvert  SmokeTest  LiveFixer  WindowsFixer
      \____________\____________\___________|____________|__________/__________/__________/__________/
                                       Components
                                      MCComponents

 FileDelivery: implemented by HttpDownload, AzureExport, VddkDownload, (for an OVA) NfcExport, QemuConvert and DiskPipeline
```

Each component has its module. `MC` modules make small instances; where theorems are proved, a
`_proofs` module extends the component's. Next to some operators stands a *weaker
form* (`NeverDuplicate` beside `IsDuplicate`, `OneName` beside `Out`): the mistake one could make there.
Replacing an operator by its weaker form must break the property it is listed with under
`mutants`; that is how we know that each property can fail.

`Daemon`, `MCRepair` and `Components` put several instances into one run: a behaviour is about *one* part
(`part`, `pc = "off"`, `subject`), the others stand still, and so do their properties. The instances of Components share
the variables whose names they share, since a behaviour is about one of them only; what the subject does not have is 0 and stays so.
Its properties are those of the components under a condition on `subject`: `AzureTrue` is `subject = "azure" => OneImage /\ CleanedUp`. `MCComponents` and `MCDaemon` give the
constants their values; `Components_proofs` and `Daemon_proofs` prove the properties for all values.

### DaemonWatcher

One process, one watch directory. An *item* is one file somebody drops, with a path (`NameOf`) and a
size (`SizeOf`, the other half of the dedup key); two items may have one path at different times. An item of `Copies` is created in
the directory and filled there: until `Copied`, `stat` may say any size up to its own (`SizesOf`). The others are moved there in one piece.

| state | code |
|---|---|
| `place`, `partial` | in which directory each item is, and which are still being copied; persist |
| `db` | rows of `processed_files`; persists |
| `lost`, `early` | history: the items whose last row was not written, or with a size they did not keep; the items that a lookup let through with a size they did not keep |
| `main`, `scanLeft` | the thread of `run()`: scanning, running, stopping; what the glob has still to visit |
| `events`, `observer` | watchdog's queue; where `_queue_file` is |
| `queue`, `unfinished` | `self.queue` and its count of unfinished tasks |
| `processing`, `processed` | the handler's sets of paths |
| `worker`, `submitted` | where each thread is in `_process_file`; retries waiting in the executor |
| `retryq`, `jobs`, `statsHeld` | retry queue; keys of `current_jobs`; the statistics lock held for ever (see DaemonStats) |
| `stopEvent`, `pauseEvent`, `draining` | the events, and the flag of the control object |

Actions: `Drop`, `Copied`, `Withdraw` (people); `ObserverTake` / `Dedup` / `Put` / `GiveUp` (`_is_valid_file`,
`is_duplicate`, waiting for a stable file, `queue.put` as separate steps, because the file may
change between them: the lookup comes first, with whatever size a copy has by then, and a copy that stands still for long enough is taken for complete); `Start`, `Scan`, `ScanDone`, `ProcessRetry`, `StopSave`, `Exit` (the main thread);
`WorkerGet` … `Finish`, `HandlerError` (one worker, with the dedup row and the rename as two
steps; the INSERT may fail, which `mark_processed` hides (`RowLost`), and so may either rename); `Crash`, which forgets memory and keeps `place` and `db`. A worker's `Finish` and a stop request use
the statistics lock; the self-deadlock of `save()` is here the flag `statsHeld`, and is
modelled in detail in DaemonStats.

### DaemonStats

Threads that call `job_started`, `job_completed`, `get_summary` and `save`, at the granularity of the lock:
a call is the sequence of its acquisitions. `due` says that a minute has passed since the last
save; `Signal` is SIGUSR1 arriving while the main thread holds the lock. What `save` would write is
not modelled, since no execution reaches it.

### RecoveryManager

Processes (`Managers`) that open one directory, each with its run id, its list in memory (`mem`)
and the call it is in the middle of (`pc`, `arg`, `doomed`). On disk: `files` (per checkpoint none,
open or completed), `pointer`, `manifest`, and the lock. Each file is replaced atomically, so a call is
one step per file; `Exit` can come between any two and is also the crash. Any write may fail
(`Faults`); each failure has the effect that the code gives it (ignored, or raised
after the memory has changed). `Decision` is `describe_recovery`: the pointer if it is eligible,
else the last candidate by *file name*, which `AlphaRank` models. `newest` is a history
variable: the time of the last completed checkpoint of a stage.

### DiskPipeline

One output directory, invocations one after another. `files` maps names to inodes and `data` says what
an inode holds, so that unlinking or renaming under a writer is told from writing. `pc[d]` is
where `process_single_disk` is for disk `d`; `phase` is where `Orchestrator.run` is.

| actions | code |
|---|---|
| `Discover`, `DiscoverFail` | `_discover_disks` |
| `PreV2v`, `PostV2v` (and `Fail`) | `_run_pre_v2v`, `_run_post_v2v` with `convert` and `convert_parallel` and their listing of the directory |
| `Start`, `Missing` | the loop or the pool of `DiskProcessor` |
| `FlattenBegin` / `End` / `Fail`, `Publish` | `Flatten`: unlink, qemu-img into the `.part`, second attempt, replace |
| `Fix`, `FixFail` | `OfflineFSFix` on the working image, in place (the inside is OfflineFixer) |
| `ConvertBegin` / `End` / `Fail` | `Convert.convert_image_with_progress` (the inside is QemuConvert) |
| `Collect`, `DieOnFailure`, `Test`, `Cleanup` | the rest of `run()` |
| `Rerun` | the process died or ended, and is started again on the same directories |

virt-v2v after the fixers runs one job per disk at hand, in a directory named by the job's *index* (`PostImage`), and each directory is searched as a whole: after a run that
got fewer disks through, a job's directory also holds the image of another disk of the run before (`Stale`). virt-v2v before the pipeline gets all disks, so that there the index is the disk.

Time enters only as the second that names a working file: `now` may stay or advance by one when a disk
starts, and `SameSecond` says whether it may stay.

### FileDelivery and its implementations

`FileDelivery` is the abstract specification of files that are written aside and renamed: a complete file takes
its name at once; it is never taken away; success is reported only of a file that is there, with the step
that puts it there or later; and a batch may be asked for again. It has two variables. Six quite different pieces of code
implement it. DiskPipeline (`whole`: the disks whose image in the output directory is complete; `outcome`: what each thread has
reached) and QemuConvert (one image, that no orphan writes to, and `result`) are described above and below; the downloads are:

- **HttpDownload** (`whole` is the set of files whose blocks are all in place, `outcome` is the list of results).
  `Decide` (size known? complete? resumable?), `Prepare` (temporary file seeded with the part that
  is there), `Respond`, `Receive` (one block), `Complete` (`os.replace`), `Break` and
  `RangeIgnored` with both layers of retries, `Collect` / `Return` / `Raise` for the batch and its
  pool, `Rerun` for a kill at any point. Blocks carry the version of the remote file, which may change
  between runs.
- **AzureExport**: `Snapshot`, `Stage`, `Grant` and their failures *with or without effect*, the
  download into `.part` with `Break`, `Mismatch`, `Renamed`, then the `finally` clause `Revoke`, `Unstage`,
  `Unsnap`, then `Collect`. `cloud` and `access` are what exists in Azure, `doubtful` the resources
  about which a call has failed, `report` what the user is told.
- **VddkDownload**: one disk, sector by sector. `Select`, `Load`, `InitOnce`, `Connect`, `Open` with their failures;
  `Decide` resumes a `.part` whose size is a multiple of a sector and no more than the disk; `Read`,
  `ReadFails` (transient, with retries, or not), `WriteFails` (also within a sector, `torn`); `Verify`,
  `Replace`, `Close`, `Disconnect`; `Kill`, and `Again` with a disk that may have been resized and written to.
- **NfcExport**: `Govc` exports the pieces into a fresh stage directory, `Move(p)` publishes them one at a time
  (an OVA is one piece, hence atomic), `Cancel`, `ProgressRaises`, `Fail` with retries, `Kill`, which leaves a govc running
  (`strays`, `StrayEnds`), `Again` with `skip_if_present`.

### VsphereExport

What `Orchestrator.run` does for `cmd: vsphere`, one job with its arguments. `Exporter` is
`export_many_sync`: VMs in turn, each by virt-v2v (`Password`, `Convert`, `Unlink`), by VDDK, or by its files
(`ListDirectory`, `Fetch`, `Miss`); one that fails is passed over. Without images, `Mode` is `VsphereMode.run`
with its actions; `export_vm` is the chain `ExportOvf`, `ExportTmp` and `Pack` (OVA), `ListFolder` and `Fetch` (HTTPS), each after
`Clean`, `RemoveDrives` and `PowerOff`. `RunExport` and `RunDeploy` are ovftool with its own retries. `Disconnect` is the `finally`
clause; `Kill` may come anywhere. A password file may fail to be written, after which nothing removes it, or to be removed, which is swallowed: `kept` (history) lists those. `dir` says what lies in each directory, torn or whole, of this run or an earlier one.

### Extract and QemuConvert

`Extract`: the four extractors over *one pair* of directories used by several runs. `Open`, `Extracts` (each kind
in its way: into a temporary name and replaced, in place, renamed, skipped), `Fails` (some kinds go on, others stop), `Nested` (archives in an AMI), `Discover`
and `Found` (what lies in the directory, whoever put it there), `Convert`, `Kill`, `Again` with any archive.

`QemuConvert`: `Info`, `Start` (unlinks a stale part), `Create`, `Poll`, `Succeeds`, `Fails` (next entry of the plan), `Replace`,
`Interrupt`, `Kill`, `OrphanEnds`. Files are inodes, because a qemu-img whose parent is gone keeps writing to what it has opened. `plan` is
computed as in `_fallback_plan`; `saw`, `best` and `told` are the variables of the progress parser; no property is about them.

### OfflineFixer with NetworkFixer, ValidationSuite and BootFixer

`OfflineFixer` is `OfflineFSFix.run`: `Start`, `Resize`, `OpenDrive`, `Unlock`, `Inspect`, `MountDirect`, `MountBruteforce`; then
`Repair` (which unmounts, and mounts again through `back`), `Validate`, the tables, `Network`, `Grub`, `Windows`, the removal of
the VMware tools (`ServeTree`, `RemoveTools`, `UnserveTree`, `RemoveDirectory`), `Regenerate`; then `Finish`, `Close`, `WriteReport`. A
stage that is not critical records its failure as the code does (`StageOver`) and the run goes on; an escape goes to `Close`. Four
stages are modules of their own, INSTANCEd over the same variables, so that what they find mounted is
what the fixer has mounted:

- **ValidationSuite**: `Begin`, phase A (`Skip`, `PassOver`, `Call`), phase B (`StartOne` while there are free workers), `Return` / `Answer` / `TimeOut` of the
  function or its process, `Retry`, `Record`, and `EndA` / `EndB`. A process answers through a pipe that is read after the join: `blocked` is a
  result that does not fit.
- **NetworkFixer**: a file is a record of what the fixers look at. `Fixed` is what the fixer of its type makes of it at each
  level, with the renames computed over *all* files; then `Skip`, `DryRun`, `Backup`, `Write`, `WriteFail`, `DirectFail` (which may tear the file), `Restore`.
- **BootFixer**: whether each file lands on the guest's `/boot` or in the directory under its mount point. `UpdateRoot`,
  `Regen`, `MountBoot` (mounts what `/etc/fstab` says, and reports a failure only of an entry it has found: a torn table may have none), `Inject` (one action per tool), `Initramfs`, `Bootloader`, `UmountBoot`.

### SmokeTest, LiveFixer, WindowsFixer

`SmokeTest`: one domain name, run after run on different images. `Prepare` (NVRAM), `WriteXml`, `Sweep`, `Define`, `StartDomain`,
`Wait`, `Finish` (the `finally`), then `Copy`, `Launch`, `Reap` of the bare QEMU; every virsh may fail, the guest may stop by itself (`GuestStops`), `Kill`.

`LiveFixer`: `Check`, `RewriteFstab`, `WriteFstab`, `RemoveTools`, `DeviceMap`, `UpdateRoot`, `Regen`, `Postcheck`; `Breaks` is a connection lost, which for a write may be before or
after its effect, or within it: the temporary file is in `/tmp` or `/run`, so that `mv` may be a copy that leaves a part of the file or none (`AfterFailure`; `cut`, a history variable, says which files of this run). Half a line
that is left counts as no line, and a file that is missing as an empty one, since the fixers skip both. `/etc/default/grub` is a sequence of lines, of which the last with a key is in effect, since the shell reads it.

`WindowsFixer`: a sequence of calls of the library, `Kill` between any two steps. `EnsureRoot`, `BackUp` (a copy named by the second, `clock`), `Download` (exact, refused, or `Torn`: a copy that broke off is accepted when it is long enough and begins with `regf`), `Edit`
(what each call enters), `Upload` (which may tear the hive), `Verify`; `Snapshot`, `Stage`, `WriteScript` for the first boot; `Bcd`.
`whole` and `hasty` are history: the hive as it last was, and whether one backup has replaced another.

## 3 What TLC checks

With two workers a run takes from a few seconds to three minutes.

| run | instance | what it shows |
|---|---|---|
| `daemon_safety` | 3 files on 2 paths, one copied and two moved there, 2 workers, 2 retries, 1 crash, all operator requests, failing INSERTs, moves and error handlers, minute saves; nothing dropped *during* the scan, nothing withdrawn | `OneWorkerPerFile`, `NoRepeatConversion` (also after a crash), `OutcomeRecorded`, `NoGhostJobs` |
| `daemon_service` | 2 files on 1 path, 2 workers, 2 retries, 1 crash, files arriving during the scan, one of them copied and perhaps withdrawn, failing INSERTs, moves and error handlers, minute saves; no operator requests; and, in behaviours of its own, the statistics with 3 threads, 2 names, 2 jobs, minute, stop and signal | `LeftoversHandled`: what the scan finds complete gets a row or a retry, or leaves the watch directory, unless a save has jammed the statistics or the error handler has failed on it; `Accounting`; `CallsReturn` unless a thread asks twice for the lock |
| `recovery` | 2 processes, 1 run id, 3 stages whose names sort backwards, one of them unsafe to resume, 2 seconds, 3 checkpoints, writes that fail | `LastCompletedKept`, `RecoveryFound` |
| `pipeline` | 2 disks, a pool of 2, 2 invocations, 28 settings (in sequence or in a pool, flatten, to_output, archives, virt-v2v before and after), any failure. 999 506 states | `Published`, `OwnImages`, `Delivered`, `SourcesKept`, `Delivery`, `RunEnds` |
| `http` | 3 files of 2 blocks, 2 runs, 10 option sets: sequential with each kind of retry, and a pool of 2 | `OneVersion`, `BatchEnds`, `Delivery` |
| `repair` | the offline fixer with 4 jobs (an encrypted Linux guest with repair and regeneration; mode `bypath` with everything; a dry run; a Windows guest), and its parts alone: 121 pairs of network files at each level and mount, 19 suites, every Linux guest of the boot fixer. 1 913 940 states | `ToldTrue`, `RenamesAgree`, `PayloadTrue`, `NothingAfterCritical`, `DryRunUntouched`, `DamageTold`, `PartsEnd` |
| `components` | Azure: 2 disks of 2 blocks at once, 2 attempts, 2 runs, 4 configurations. VDDK: 3 versions of a disk of 3, 4 and 2 sectors, 2 per read, 1 retry. NFC: 3 pieces, 3 runs, 2 attempts, 1 govc left behind. vSphere: 2 VMs, 16 jobs. Archives: 9, 2 runs. qemu-img: 3 requests, 2 runs. Smoke tests: 3 runs. Live: 2 runs, 8 guests' files, 6 option sets. Windows: 5 sequences of 2 calls, 2 seconds. 821 331 states | `AzureTrue`, `AzureOrder`; `FilesDelivered` (Azure, VDDK, OVA, qemu-img); `FetchedStays` (VDDK, archives); `ExportedNow` (NFC); `ExportTrue` (vSphere); `ExtractTrue`; `ImageTrue`, `PlanFalls` (qemu-img); `SmokeTrue`; `Generated`, `EditsStay` (live, Windows); `WindowsTrue`; `ComponentsEnd` (all) |
| `daemon_retry`, `stats_save`, `pipeline_pool`, `repair_erased`, `live_rerun` | the smallest instance that shows it | a statement of a document or comment that the code does not keep (section 5) |

**Why these bounds.** Each hazard needs at most two actors and one repetition. Two workers with two
files on one path and one on another is the least instance where a path can be queued twice while another
one is not; the two files of one path have one size, so that the second is a duplicate of the first, and the one that is copied is seen with another size before. A path that failed once has a retry that nobody comes
back to (`NeverRejected`), so in `daemon_safety` nothing gets to `FailMark`; it does in `daemon_service`, where a path can be queued twice. One crash, at any step, is followed by a complete second life
of the daemon. Two processes and three stages give recovery a newest by name that differs from the newest by
time, with an unsafe stage between them; `KeepTotal = 0` makes retention delete as much as its arguments
allow. Two disks are enough for a collision of names, two invocations for a file that was left behind. With two disks a job directory that an earlier run has filled for *another* disk holds only that image when the job at hand fails; a
stale image beside a fresh one of another disk needs three. With three disks and all settings the instance has more than 14 million states, so that the case was checked on one setting (a pool, several jobs after it; 51 008 states), and the proof is for any number. Two blocks are the
least file that can be partial; a third file is needed to have one queued while two are
in the pool, so that there is something to cancel. For VDDK the disk grows and then shrinks, so that a part may be too short, resumable or too long for the disk it is
continued from. For NFC the third run finds a directory that the second has overwritten in part. Two network files are enough for one to refer to the other; three
checks with two workers leave one waiting; the chains put a critical check before, between and after its dependants. The archives have two
disks of one stem in two directories, a member that must not be extracted, and an archive within the archive. Smoke tests need a third run to meet what the second could not remove of the first. Two Windows calls that
write one hive, or one script, within one second or two, make backups that replace one another. Where the proofs of section 4 apply, the bounds do not matter.

`Choices`, `Jobs` and `Tars` list settings because the product of all would not finish; the `MC` modules
say which are taken. The proofs are for any subset of them.

**Symmetry** is used in safety runs only: over workers (`daemon_safety`) and processes (`recovery`).
**Deadlock** is not checked where the system really stops: an exited or jammed daemon, a jammed lock, a finished
run. It is checked in `recovery`, where a process can always be started again.

**Fairness.** `daemon_safety` and `recovery` need none. `daemon_service`: weak fairness of each worker, of the observer, of the
main thread, of the clock that makes a retry due, and of each retry: OS threads run, the monitoring loop is
periodic, and a service manager (`systemd/`) starts the daemon again. Nothing is assumed of people or of
operators; `Drop`, `Copied`, `Pause`, `Resume`, `Stop…` and `Crash` are not fair, so that a daemon
may stay paused for ever in a counterexample; `LeftoversHandled` is checked with no operator requests (`Requests = {}`), and says itself what else it excludes. For the statistics: strong fairness of each thread's steps, since a `threading.Lock` that is free again and
again is got eventually in practice; the violation does not depend on it, because the lock is never freed. `pipeline`, `http`, and Azure:
weak fairness per disk or file and of the calling thread. The other components run in one thread, and `repair`
in one at a time: weak fairness of their own steps (`Advance`, `Next`). `requests`, `az`, virsh and ssh have timeouts;
qemu-img, guestfish, govc and virt-v2v are assumed to end. `Rerun`, `Again`, `Kill` and what the environment does are never fair.

**Preconditions.** Some properties hold only where the code can keep them. Each such precondition is a
named operator or constant, or the first line of the property, and marks a weakness listed under `hazards` or in section 6:

| precondition | property | what happens outside it |
|---|---|---|
| `ArrivalsDuringScan = FALSE` | `OneWorkerPerFile`, `NoRepeatConversion` | the scan does not look at `handler.processing`; a file noticed by both is queued twice and converted twice |
| `~ lost` | `OutcomeRecorded` | an INSERT that failed is logged and the file archived without a row (`deduplicator.py:139`); a file recorded while it is copied has a row of another size |
| `~ early` | `NoRepeatConversion` | `is_duplicate` is asked before the file stands still (`daemon_watcher.py:130`): a copy is looked up with a part of its size and converted again |
| complete, no stop, `~statsHeld`, `~Abandoned` | `LeftoversHandled` | the first minute save jams the statistics (`stats_save`), a job ends in it and what is left waits for ever; so does a path on which the error handler failed, since `mark_completed` is skipped; a file whose row was lost has left the directory without one |
| `Requests = {}` | `LeftoversHandled` | a daemon that is paused, or stopped, handles nothing |
| `~Jammed` | `CallsReturn` | `stats_save` |
| `distinct` names | `Accounting` | two jobs of one file name share a row of the table; one goes uncounted |
| `SameSecond = FALSE` (recovery) | `LastCompletedKept` | a second save of a stage within a second opens the completed file again |
| `SameSecond = FALSE` (pipeline) | `Published`, `OwnImages` | `pipeline_pool` |
| `~Stale` | `OwnImages` | virt-v2v's result is whatever lies in the directory, of an earlier run and of another disk too; of such an image the property says only that it is listed from where virt-v2v was looked for (`Searched`) |
| `Elsewhere` | `Delivered` | the images of an unpacked archive are removed before they are listed |
| from the first block | `OneVersion` | a file resumed after the remote one has changed is a mixture |
| `~(userTag /\ resume)` | `OneImage` in `AzureTrue` | the `.part` of a killed run is continued from another snapshot |
| `doubtful` | `CleanedUp` in `AzureTrue`, `RemovedInOrder` in `AzureOrder` | a call that timed out may have made something nobody knows the id of |
| whole by sectors, not by version | `FilesDelivered` | a resumed disk that has changed is of two moments |
| OVA | `FilesDelivered` | an OVF directory is published piece by piece, and what is there after a kill is taken for complete |
| exported, not found | `ExportedNow` | an earlier export of the VM is "present", however old |
| not killed, `~ kept` | `PasswordGone` in `ExportTrue` | the password file of virt-v2v stays, also when it could not be removed (`utils/v2v.py:305`) or not be written to the end (103) |
| kinds raw and vhd / raw and ami | `Complete` / `OwnImage` in `ExtractTrue` | OVA drops members that fail; OVA and VHD convert two disks of one stem to one image (section 6) |
| `~keep`, `~sick` | `LeftNothing` in `SmokeTrue` | a domain that virsh cannot undefine stays |
| `guest.generator`, `~lost` | `Generated` | the boot loader keeps the old configuration |
| `~ cut` | `EditsStay` (live) | a move from `/tmp` that breaks off across file systems leaves a part of the file, or none |
| not torn | `EntriesStay` in `EditsStay` | a downloaded copy that broke off is edited and uploaded, and the call may answer that all is well: the hive is then torn, and what it was is in a backup (`WindowsTrue`) |
| `~hasty` | `Recoverable` in `WindowsTrue` | two backups within one second: the second may be of a torn hive |
| `guest.readable` | `EntriesStay` in `EditsStay` | with a binding of hivex that returns handles, `DevicePath` is replaced, not extended |
| no netplan file, no networkd file that refers to a VMware name, none failed | `RenamesAgree` | netplan keys and what a networkd file refers to are not renamed; a file that failed leaves references to the old name |
| the file is there and can be read | `DamageTold` | what is not found is not told |
| fstab not torn | the clause on `/boot` in `DamageTold` | the failed write is swallowed (`fixers/offline/config_rewriter.py:225`); a table without its line for `/boot` has nothing mounted (`grub.py:739`), and boot files land beside `/boot` untold |
| `Stuck` | `PartsEnd` | a check that hangs, or has a result larger than the pipe, and no limit, keeps the suite |

## 4 What is proved

All for every value of the constants that satisfies the module's assumptions, which TLC evaluates
in the passing runs. 

| module | theorem | statement | extra hypothesis |
|---|---|---|---|
| Daemon_proofs | `TypeCorrect`, `JobsCorrect` | `[]TypeOK`, `[]NoGhostJobs` | |
| | `HolderCorrect` | `[](SingleHolder /\ OneWorkerPerFile)` | `~ArrivalsDuringScan` |
| | `OutcomesCorrect`, `NeverRejected` | `[]OutcomeRecorded`, `[]NothingRejected` | `~ArrivalsDuringScan`, `Withdrawals = {}` |
| | `NoRepeat` | `NoRepeatConversion` | `~ArrivalsDuringScan`, `Withdrawals = {}` |
| | `EveryJobCounted` | `[]Accounting` | |
| | `LockComesBack` | `[]`: the lock is free, asked for again by its holder (`Jammed`), or held by the one thread inside a `with` | |
| | `JamLasts`, `SavesJam` | `[][Jammed => nothing changes]`, `[][a save that goes on => Jammed']` | |
| | `NoJamInCalm` | `[]~Jammed` | no minute, stop or signal (`Triggers = {}`) |
| RecoveryManager_proofs | `TypeCorrect` | `[]TypeOK` | |
| | `LastKept`, `Recoverable` | `[]LastCompletedKept`, `[]RecoveryFound` | `~SameSecond` |
| DiskPipeline_proofs | `TypeCorrect`, `DeliveredThere` | `[]TypeOK`, `[]Delivered` | |
| | `PublishedComplete`, `OwnImagesListed` | `[]Published`, `[]OwnImages` | `~SameSecond` |
| | `SourcesSafe` | `SourcesKept` | |
| | `DeliveryImplemented` | `Spec => Delivery` | |
| | `IsolatedUnlessSameSecond` | `[](phase # "done" => Isolated)` | `~SameSecond` |
| | `InvocationRunsOut` | what is left of an invocation is finite, and each step takes from it | |
| HttpDownload_proofs | `TypeCorrect`, `CorrectDownload`, `StrictBatch`, `Quiet` | `[]TypeOK`, `[]Correct`, `[]Strict`, `[]NoneLeftRunning` | |
| | `NoMixture` | `OneVersion` | |
| | `DeliveryImplemented` | `Spec => Delivery` | `~ShortReads` |
| | `BatchRunsOut` | what is left of a batch is finite, and each step takes from it | |
| AzureExport_proofs | `TypeCorrect`, `ExportsWhole`, `SameImage`, `LeavesNothing`, `Honest` | `[]TypeOK`, `[]ExportWhole`, `[]OneImage`, `[]CleanedUp`, `[]ReportTrue` | |
| | `Ordered` | `InOrder` | |
| | `DeliveryImplemented` | `Spec => Delivery` | |
| OfflineFixer_proofs | `TypeCorrect`, `ToldCorrect`, `RenamesFollowed` | for the network stage alone (`NetSpec`): `[]NetworkTypes`, `[]ToldTrue`, `[]RenamesAgree` | |
| | `PayloadCorrect`, `CriticalStops` | for the suite alone (`SuiteSpec`): `[]PayloadTrue`, `NothingAfterCritical` | |
| | `PartsTrue` | for the whole fixer: `[](ToldTrue /\ RenamesAgree /\ PayloadTrue) /\ NothingAfterCritical` | |
| | `DryRunSafe`, `DamageReported` | `[]DryRunUntouched`, `[]DamageTold` | |
| | `GuestLostThere` | `[][GuestKept => GuestKept' \/ RemoveDirectory of a tree that is served, writable, no dry run]` | |
| | `GuestStays` | `[]GuestKept` | no job removes the VMware tools |
| WindowsFixer_proofs | `TypeCorrect`, `AlwaysRecoverable`, `ScriptFirst` | `[]TypeOK`, `[]Recoverable`, `[]ScriptThere` | |
| | `EntriesKept` | `[][EntriesStay]_vars` | |
| Components_proofs | `AzureIsTrue`, `RemovalsInOrder` | Azure: `[]AzureTrue`, `AzureOrder` | |
| | `DeliveryKept` | Azure, VDDK, an OVA and qemu-img implement FileDelivery: `FilesDelivered` | |
| | `NothingFetchedGoes` | VDDK, archives: `FetchedStays` | |
| | `ExportsAreNow` | NFC: `[]ExportedNow` | |
| | `ExportsAreTrue` | vSphere: `[]ExportTrue` | |
| | `ArchivesAreTrue` | archives: `[]ExtractTrue` | |
| | `ImageIsWhole`, `PlanGoesDown` | qemu-img: `[]ImageTrue`, `[]PlanFalls` | |
| | `SmokeIsOwn` | smoke tests: `[]SmokeTrue` | |
| | `BootLoaderFollows`, `EditsKeep` | live fixer (and Windows): `[]Generated`, `EditsStay` | |
| | `OptionsLostByLines` | live fixer: `[][no line is added => OptionsStay]` | |
| | `HivesRecoverable` | Windows: `[]WindowsTrue` | |

The arguments:

- **One holder per path.** "No two workers on one path" is not inductive: one needs to know that a path which is queued
  or held is in `processing` (`Claimed`), that the observer only holds paths that are not
  (`ObserverHoldsFresh`), that the queue has no path twice nor one that a worker holds (`QueueDistinct`, `QueueNotBusy`), and
  that nothing else happens while the scan, which checks none of this, is going on (`QuietStart`,
  `EmptyWhenDown`). The last is where the hypothesis enters.
- **The job table.** A name in the table is that of a worker between `job_started` and `job_completed`, on every way a worker may leave, the error handler's included. Before the pool is
  made no worker exists (`UnbornAtStart`), which is what a restarted daemon with its empty table needs.
- **No file converted twice.** `Handled` relates the database, the directories and the workers' positions: of one path only one
  item is in the watch directory (`OnceInWatch`); what is queued or held is still there (`StillThere`) and has no row before its conversion begins unless it was let through with a size it did not keep (`Unrecorded`), but a row of success, or a lost one, before it is
  archived (`RecordedFirst`); nobody comes back to a path that has a retry (`ProcessedOnce`). It stands on the one holder of each path. `NeverRejected` came out of it: no
  failure is the second one of its path, so nothing reaches `.errors`, which is the proof's view of `daemon_retry` (section 5). `Withdrawals = {}` is needed for `StillThere`; both hypotheses are
  the settings of `daemon_safety`. Nothing is assumed of copies, of INSERTs or of moves: `lost` and `early` name the files that these have cost the promise, and no other.
- **Every job is counted.** That the sum never exceeds what was started needs no hypothesis; that it is equal, for distinct names, needs that the table lists exactly the names of the threads that work
  (`Counts`), and that a thread starts a job only when it has none and completes one only when it has (`StatsTyped`), so that the name it enters is new and the one it removes is there.
- **The lock of the statistics.** `LockInv`: who has the lock is inside a `with`, alone, or wants it again. No thread leaves the code with the lock, so a jam
  is the only way to lose it; `JamLasts` says that it is then lost for good, `SavesJam` that every save ends so, and `NoJamInCalm` that without a save or a signal nothing does.
  They are the general form of what `stats_save` shows on one instance, and of the condition under which `CallsReturn` is checked.
- **The last checkpoint.** The file of a save in progress does not exist yet (`SavingFresh`, by the hypothesis on the
  clock), nothing that a cleanup is about to unlink is a last one (`DoomedSafe`), no completed
  file is newer than the history variable says (`NoneNewer`), and one process works at a time (`OneAtWork`,
  by the lock), so that no save or completion comes between the list a cleanup makes and its unlinks.
- **Something to resume.** `RecoveryFound` asks for *some* checkpoint that may be resumed. With the invariant above, the last completed one of a stage that may be resumed is among those kept;
  the set of those is finite (an invariant of its own, `FiniteStep`, since runs and stages may be any sets), and a finite set that is not empty has a last one in the order of names (`FoundNow`).
- **Atomic publication.** A file under a final name is an inode whose writer of this run is through with it
  (`Through`); files being written are where their writers put them (`InPlace`); two flattenings have different
  seconds (`OneEach`, by hypothesis); nothing on disk is of a later run (`NotNewer`). `SourcesSafe` needs only that no
  name but an input's denotes an input (`Apart`), and so has no hypothesis on the clock.
- **What a run lists.** `Delivered` needs that a disk is processed in an image that is there (`Worked`), under every interleaving of the pool and also with one clock second
  for all, and that what is in the list stays there to the end unless it was in the temporary directory (`Listed`). `OwnImages` needs who each file belongs to: every file of a run is of one disk (`Owned`), its
  name says which (`Named`), and when (`Stamped`); the working image of a disk is its own (`Mine`), nobody writes to one that is done (`Resting`), and what virt-v2v will make is not there yet (`Unused`). `ListGood` is the property from
  the moment the list is made, with the order of the disks; an image that is not of this run can only come from where virt-v2v was looked for. `TypeOK` and both rest on
  lemmas about lists made of increasing indices (`Increases`, `Listing`), which is what keeps the list a sequence of paths and in the order of the disks.
- **What the pipeline delivers.** `Delivery` is about the names in the output directory, over all invocations. A disk's image changes in three ways: the disk is converted and renamed (it was whole
  when `qemu-img` ended), the run is over, or a new one begins; none takes away a whole one. The invariant (`OutGood`) is that the image under a
  disk's name was made by this invocation or an earlier one, by this one only if the disk is done, is whole, and that the one being made is the `.part` of that disk; the clock does not enter, since the output
  is named by the disk. `IsolatedUnlessSameSecond` reads the statement that `pipeline_pool` refutes off `Worked` and `Owned`; after the end the working files are gone, hence its `phase`.
- **Running out of steps.** Liveness is out of the provers' reach, but not that what is left to do is a finite set and gets smaller. `StepsLeft` of DiskPipeline has an element for each phase still ahead and, for each disk, one for
  each place of `process_single_disk` still ahead of it, the second attempt of the flattening included. In HttpDownload it is lexicographic, written as a set: the places `<<call, attempt, block>>` still ahead of a file, so that
  a broken connection, which begins another attempt with the request, loses all places of its own. A step that is not a new invocation leaves a proper subset, and a finite set has no infinite
  descent. What TLC adds in `RunEnds` and `BatchEnds` is that the threads do not stop short: no deadlock, with the fairness of section 3.
- **Resumed downloads.** What is there is a prefix of the file, and an attempt continues where it ends (`Shape`). With retries
  the interesting case is `range` after `RangeIgnored`: the start goes back to 0 *and* the
  temporary file is made again. For `OneVersion` one adds that an attempt from the first block holds blocks of the present
  version only (`Present`). The refinement of FileDelivery follows: only `Complete` changes what is whole, and
  a result is reported only after `done`.
- **Azure's clean-up.** `Clean` says, for each position of `_export_one`, which resources of the disk can exist, have a
  SAS or be known: an id is known if and only if the creation returned, what exists and is not known is in doubt,
  and after each step of the `finally` clause its resource is gone, kept or in doubt. `CleanedUp`,
  `InOrder` and `ReportTrue` are read off it; `Told` connects it to the report.
- **VDDK.** `VddkSound`: the sectors of a part are in their places from the first on, a part is renamed only when it was
  verified, so that the file, if there is one, is as long as the disk of some run and has every sector (`Whole`). Every change of `Whole` is therefore a
  `Deliver`, and `result = "ok"` implies it, which gives the refinement (`VddkDelivers`). `PartStays` is about single steps: only `Decide` and `Replace` shorten a part.
- **Network files.** `ToldTrue` is not inductive while a file is under way. `Ahead` says that the files after it are untouched, that so is this one until it is
  written, that a backup of it is what it was, and that one to be restored is told as failed already; the statistics follow from `at`. Lemmas show that each fixer
  makes a file of a file, so that a torn one is never taken for fixed. `RenamesAgree` is false between two files, so its invariant is not about references at all: as long as no file has failed, each
  file that was passed *is* what its fixer makes of it (`Passed`). At the end that holds of all of them, and both a device and a reference to it go through `NewName`, one function for all files.
- **The validation suite.** `Orderly` says which calls can be under way in which phase: the one at the cursor in phase A and in the fallback, any that phase A has left in phase B, and none before and after.
  `Tallied` says that the counts are the cardinalities of the sets of checks with that verdict; `Based`, that what a check depends on has passed when it is called; `CriticalKnown`, that a failed critical check is known as such. With
  these, any order of answers, time-outs and retries gives a payload that agrees with the verdicts (`Concluded`).
- **The offline fixer.** `FixerInv` puts the invariants of its parts side by side. `Staged` says which part can be under way at which stage, so that a step
  of one leaves the state of the others alone (`Unworked` is what a stage of `run` itself may do to it: start a part, or unmount); `BootTold` and `TornTold` say that the boot fixer and the network fixer
  have told what they have damaged, or that the table in which `/boot` is looked up was torn before, and stays so (`TornStays`), and `Staged` that a run which ends well has been through them. For dry runs: `FixerDry`, `NetDry`, `BootDry`, each of what its part can write. One module proves the parts and their
  composition, because the parts' variables are the fixer's.
- **The tree of the guest.** `repair_erased` finds one way to lose it; `GuestLostThere` says that there is no other. Step by step, the guest's tree enters what the run has `changed` in `RemoveDirectory` only, under its three conditions. `Unserved` adds that without a job for the
  tools the stages that serve the tree are never entered.
- **Windows hives.** A hive may be torn by an upload, a kill, or a downloaded copy that broke off and was edited. `Safe`: a hive that is not torn is as it last was, and while it is edited a backup of that is there, unless it has replaced
  another. `Scripted`: the script is there before any content, local or remote, has a service. `Edited`: what is edited is the hive as it last was, or a part of it, of which every edit and upload makes a torn one. `Stages` says which calls
  get to which step; without it a dry run could reach `Upload`.
- **The composition.** A step of the whole is a step of its subject or one that leaves the subject's variables alone (`Steps`), so an invariant of a component's own
  next-state relation is one of the composition for the behaviours about it. AzureExport is extended, so the lemmas of its `_proofs` module are cited as they are. WindowsFixer is an instance, and a theorem may not
  be cited through one; `Proved` is the instance of WindowsFixer_proofs with the same substitution, and `SameWindows` states that the two are the same component.
- **What govc exported.** `ExportedNow` is false while pieces are being moved. `Publishing`: each piece has been moved, and is of the VM's present version, or is still in the stage directory and is so there; a govc
  left behind by a killed run writes into a stage directory of its own.
- **vSphere.** `ExportTrue` joins three properties, and the third, `ChainTrue`, is about what the jobs leave behind. `VsphereTyped` says which program counters belong to the exporter and which to
  `VsphereMode`, and that the two never mix; `DoneWith`, that VMs with images or failures are behind the one at hand and that only those can have torn files, so that "no such image is handed over" survives
  the next VM's failures; `Links`, which link of the chain OVF, OVA, HTTPS each program counter is of, and that success is told at its end only.
- **Archives.** The interesting operator is `Unique`, the first free name: that there is one at all is the pigeonhole principle (`UniqueIsFree`: among one more names than there are files one is free), hence
  the finiteness in `ArchiveTyped`. `EachDisk`: each disk among the members read so far has been found, under a path that this run has written whole; that a
  later member does not take that path away is where `Unique` enters. `Converted`: each disk done has an image that no other of this run has, because
  the name tells the member (raw, `Beside`) or how many there were before (ami). The archives may be of any length and number.
- **The plan of conversions.** `_fallback_plan` emits at most seven entries; each `Emit` adds one that asks for no more than any there, or leaves the plan as it is (`Down`). The order of the calls is what makes this so: each entry is compared with *all* earlier
  ones, and the last, `NoOptions`, is below any.
- **qemu-img.** `OwnPart`: the part of the attempt is an inode of its own, the image's is not, and orphans write to neither. `ImageTrue` follows from "what is to be renamed is whole, and no orphan's".
- **The live fixer.** Lines are changed one by one, and at most one is added (`RewriteKeeps`, `PatchKeeps`); what a move that broke off leaves is again a sequence of lines (`PartOf`), so that the next run finds a file it can read; `Regenerated`: between the update and `regen` nothing is
  claimed, and after it the boot loader's file is of what the defaults say. `OptionsLostByLines` is the other side of `live_rerun`: the line that counts for a key stays the last one with that key as long as none is added.
- **Smoke tests.** The domain is this run's from `define` on (`OwnDomain`), because a name that is taken cannot be defined; then the one that is seen running is.

**Only model-checked.** Liveness (`LeftoversHandled`, `CallsReturn`, `RunEnds`, `BatchEnds`, `PartsEnd`, `ComponentsEnd`), which the
installed provers cannot do: of the pipeline, the download batches and the statistics' lock the safety half is proved (above). Every safety property of the passing runs is
a theorem. The violation runs are TLC's by nature; `SavesJam`, `IsolatedUnlessSameSecond`, `GuestLostThere`, `OptionsLostByLines` and `NeverRejected` say how far each reaches.

## 5 What the violation runs show

Each checks one statement that a document or comment makes, and TLC's counterexample is the reason it is not so.

- **`daemon_retry` / `RetryHappens`.** `docs/11-Daemon-Enhancements.md:231` describes a retry: the file is in `.errors/`
  and is moved back after the delay. The code returns after scheduling (`daemon_watcher.py:541`) and leaves the
  file in the watch directory, and `_process_retries` looks in `.errors` only (577). The retry is due and nothing happens. Also, every pool thread
  runs a worker loop, so a retry that were submitted would wait for one to end.
- **`stats_save` / `SavesFinish`.** `job_completed` calls `save()` with the lock held when a minute has passed
  (`stats.py:146`), `save` takes it again (197), and calls `get_summary`, which takes it once more (156). The lock is a plain
  `threading.Lock`: the worker waits for itself, and every thread that wants a number waits for the worker.
- **`pipeline_pool` / `Isolated`.** `flatten.py:190` names the working file after the second. Two
  threads of the pool that start in one second unlink, write and rename each other's file: one disk
  gets the other's image, or an incomplete one. `docs/01-Architecture.md:483` promises isolation of errors per disk.
- **`repair_erased` / `GuestKept`.** To remove the VMware tools the guest's tree is served to a directory of the host. The
  `finally` clause (`offline_fixer.py:1038`) swallows what `umount_local` raises, waits three seconds for the thread that
  serves, and calls `rmtree` on the directory: if the tree is still served, that removes the files of the guest. The class says
  (`fixers/offline/vmware_tools_remover.py:39`) "Avoid breaking unrelated system services."
- **`live_rerun` / `OptionsKept`.** `update_grub_root` takes "no line has changed" for "there is no such line"
  (`fixers/live/grub_fixer.py:512`) and appends `GRUB_CMDLINE_LINUX="root=…"`. On a guest whose `root=` is stable already, as
  after a first run, the new last line is the one the shell keeps, and the options of the line before (`rd.lvm`, `console`, …)
  are gone from the next configuration. `docs/01-Architecture.md:198`: "Idempotent operations that tolerate re-runs."

## 6 Other divergences met on the way

Read in the code and visible in the models, or the reason why something is not modelled, but with no run of their own.

*Daemon and recovery*
- `drain` sets a flag of the control object that nobody reads (`daemon/control.py:149`); `docs/11` says "Finish queue and exit". Modelled as `Drain`.
- A stop request runs `stop()` on the control thread, which then joins itself and fails; the rest of `stop()` is skipped. Modelled as `StopCommand` and `Exit`.
- `stop()` shuts the executor down, so that the workers end, and then calls `queue.join()` (`daemon_watcher.py:762`) when files are left: nobody will take
  them, and `Queue.join` has no timeout. The comment above says that it gives it 60 seconds.
- `is_duplicate` stats a file that may have gone since `is_file` (`deduplicator.py:83`): the exception ends the observer thread; the size in the key is read
  when the row is made, not when the file is taken (82). `handler.processed` is keyed by path (`daemon_watcher.py:82`), so that a second file of that path is taken only after the scan of a new daemon.
- `mark_processed` swallows a failed INSERT (`deduplicator.py:139`), and `is_duplicate` is asked before the file stands still (`daemon_watcher.py:130`). Modelled as `RowLost` and `partial`.
- The SIGUSR1 handler takes the statistics lock on the main thread (`daemon_watcher.py:338`); modelled as `Signal`.
- Checkpoint files are sorted by name, that is by stage before time (`recovery_manager.py:732`), and the last is taken as the newest; the orchestrator's own stages sort
  against the order in which they run. `RecoveryFound` says only that the recovery is one that may be resumed.
- `run.json` is written before the lock is taken (`recovery_manager.py:351`): a second process that then does not get the lock has replaced it.
- A restarted run begins from the start: nothing calls `recover_from_checkpoint` (README.md:171: "Crash recovery with checkpointing"). See `Rerun` in DiskPipeline.

*Pipeline, extractors, conversion*
- An archive without `flatten` and `to_output`: the images are in the temporary directory, which is removed before they are listed (`orchestrator.py:367`). See `Elsewhere`.
- `docs/01-Architecture.md` lists "Retry logic" for VirtV2VConverter, which has none, and a `ProcessPoolExecutor` for virt-v2v; the code uses threads. What it returns is whatever
  image lies in the directory (`virt_v2v_converter.py:143`), and the directory of a job is named by its index (227), so that a second run over fewer disks lists other disks' images. Modelled as `PostImage`.
- An OVA drops disks whose member failed, without a word, or returns the file an earlier run left; OVA and VHD convert two disks of one stem to one qcow2; OVF references are
  resolved against `out_root/extracted`; a second VHD run into the same directory is always refused; torn files of a killed AMI run are discovered as disks.
- The ami command always raises `TypeError` (`disk_discovery.py:196`), and so does live-fix: `LiveFixer` is constructed with parameters it does not have (226). `Fetch.fetch_descriptor_and_extent`
  is a coroutine that is never awaited (`disk_discovery.py:94`, `inventory_mode.py:196`).
- For an uncompressed or raw conversion the last two entries of the plan give the same command line; 1.0 is reported before the rename.

*Downloads and exports*
- `HTTPDownloadManager` is used nowhere else in the source; `vmware/utils/datastore.py:327` calls `download_file` with a parameter it has not (`chunk_size`) and `GovcRunner` has no
  `datastore_download`, so that downloads by the client always fail, and are passed over; `mode.py:470` asks for a VDDK method no client has, so HTTPS is always used.
- `atomic=False` with retries appends twice, and short responses are not noticed; HttpDownload models both (`Sound`, `ShortReads`).
- The sha256 of a resumed VDDK download covers the tail only (`vddk_client.py:1096`).
- Azure: a complete `.part` gets 416 on every attempt and is then removed; with no disk selected `ThreadPoolExecutor(0)` raises; `expected_total` agrees with a 200 answer to a Range, so that the
  check would pass on a file that is too long; with `strict_verify` off (the default) a short file is accepted; killed after `snapshot_create` (`azure/source.py:350`), no later run looks for what was made.
- NFC: a directory with an `.ovf` in it is taken for complete (`nfc_lease.py:181`; the docstring says "safe and idempotent"). A directory export that is killed between two pieces leaves such a one.
- vSphere: `VMwareClient` has no `create_snapshot` (`vsphere_exporter.py:182`); a govc export removes the CD-ROM drives of the VM for good before an export that may fail; ovftool runs
  `retries + 2` times; a password file that cannot be removed stays without a word (`vmware/utils/v2v.py:305`). Modelled as `kept`.

*Guests*
- `_run_stage` updates the entry of a stage inside the `with` of `_time_stage`, which makes the entry only at its end (`offline_fixer.py:205`, 229, 240): the error of a stage is lost, though the docstring says that it
  "returns default and records error". Modelled as `StageOver`.
- The file system checks run while everything is unmounted, where `g.command` cannot run anything: nothing is repaired, and `successfully_checked` counts devices whose tools have all failed (`fixers/filesystem/fixer.py`).
- A SUSE `INITRD_MODULES` line that is not in double quotes stays unchanged and is told "already_present"; for booster, genkernel and mkinitfs no drivers are injected.
- `fix_interfaces`, `fix_netdev` and `fix_wicked` always raise (type `other` in NetworkFixer).
- Windows: the first import of `inject_virtio_drivers` does not exist, so that it always raises; `_IP_RE` contains `\d{1, 3}`, with a space, and matches nothing, so that the saved network mode is always "dhcp";
  firstboot.cmd is written as UTF-16, which cmd.exe cannot run, and one script and one marker serve all services; a dry run creates directories; success ignores `verification_errors`;
  hivex's own binding returns a handle for a value, so that ControlSet001 is always taken.
- Smoke tests: `_cleanup_domain(name)` destroys *any* domain of that name, and the default name is shared by all workers of the daemon; an interrupted copy of the NVRAM is reused by the next run.

## 7 What is not modelled

- *Inside modelled components.* Daemon: MD5 mode of the deduplicator, a lookup in its table that fails, `archive_processed: false`, overwriting a file that is still in the watch directory, notifications, two daemons on
  one directory. Statistics: durations, per-type counters, the file of an earlier run. Recovery: scopes, steps, the
  event index, the integrity hash. Pipeline: dry runs, reports, domain XML, the byte-copy and flat-VMDK paths of
  `Flatten` (same steps, other names). HTTPS: sessions, cookies, URLs. Azure: choosing and stopping VMs. VDDK: loading the library, callbacks, cancelling. vSphere: credentials, globs, parsing;
  the chain of the client's stable API. Extractors: path checks are one kind of failure; limits and probes. Offline fixer: which device is scored best, the text of the tables. Network: file modes, recommendations, keys of a file other than device names, references, MAC addresses and DHCP. Validation suite: redaction and
  truncation of results. Image conversion: the parsing of progress (modelled as variables, promised nothing). Live fixer: backups, detection of the distribution, lines cut in the middle. Windows: values and encodings, the text of the scripts, the drivers themselves. Testers: the XML.
- *Composition.* OfflineFixer is composed with its parts. DaemonWatcher takes `Orchestrator.run` as one step that succeeds or raises, and DaemonStats' lock as one flag. DiskPipeline
  takes exports as disks that are there or not, repair and conversion as one step each, and checkpoints as nothing, because no decision of a run depends on them. The other components meet only through files, in the ways the
  module of each models.
- *Other components.* XML, arguments, configuration, inventory and plan are formatting or parsing; sanity checks read; the notifier is best effort; the fetch over ssh never runs (section 6). Their notes in `PROJECT.json` give the reason for each.
- *Code nobody calls*: `fixers/offline/mount.py`, `fixers/cloud_init_injector.py`, `fixers/bootloader/fixer.py`, `vmware/vsphere/command.py`, `vmware/vsphere/govc.py`, hyperctl, `vddk_cleanup`, and in the client
  the chain of `_download_only_vm_force_https`. `nfc_lease.py` is called by other programs only, and is modelled as they may call it.

## 8 Plan

Done, in the order of importance: DaemonWatcher, DaemonStats, RecoveryManager, DiskPipeline, FileDelivery with HttpDownload and AzureExport; then VddkDownload and NfcExport as further
implementations of FileDelivery, OfflineFixer composed of NetworkFixer, ValidationSuite and BootFixer, and VsphereExport, Extract, QemuConvert, SmokeTest, LiveFixer and WindowsFixer; their runs and the theorems above.

What is left, in this order:

1. *Proofs* that keep step with what the models gain. Of the properties the runs check only liveness is left to TLC; what can still be proved of it are sets of steps left, as for the pipeline and the batches, for the
   offline fixer and the components.
2. *Refinement*: QemuConvert and OfflineFixer as implementations of DiskPipeline's `Convert…` and `Fix`; DaemonStats' lock in the place of DaemonWatcher's `statsHeld`.
3. *Models*: the byte-copy and flat-VMDK paths of `Flatten`; scopes and steps of RecoveryManager; the deep merge of the configuration as a function against a reference definition; the fetch over ssh, when it is called.
