------------------------------ MODULE Components ------------------------------
(***************************************************************************)
(* The components that run on their own, side by side: the ways disks and  *)
(* VMs are fetched, archives and images, the fixers of a running guest and *)
(* of Windows, the smoke tests.  A behaviour is about one of them, its     *)
(* subject.  They share the names of their variables: what a component     *)
(* does not have is 0 and stays so while that one is the subject.          *)
(***************************************************************************)
EXTENDS AzureExport

CONSTANTS
    MaxCalls,                                   \* bound: MaxRuns of Vddk, Nfc and Smoke
    Capacity, PerRead, ReadRetries,             \* VddkDownload
    Pieces, MaxRetries, MaxGovc,                \* NfcExport
    MaxVms, Files, VsphereJobs,                 \* VsphereExport
    Archives, None,                             \* Extract
    Full, Conversions,                          \* QemuConvert
    Fstabs, Grubs, LiveOptions,                 \* LiveFixer
    Guests, Calls, MaxClock, Torn               \* WindowsFixer

VARIABLES
    subject,                                                        \* whose behaviour it is
    remote, inited, connected, handle, partThere, torn,             \* VddkDownload
    ova, skip, version, stage, strays, final, left,                 \* NfcExport
    job, vm, step, session, password, kept, raised, dir, got, todo, \* VsphereExport
    drives, on, tmp, runs, missed, failed, images,
    archive, inner, tars, extracted, found, results, outcome,       \* Extract
    plan, inodes, mine, orphans, whole, image, saw, best, told,     \* QemuConvert
    args, domain, active, nvram, xml, ovmf, qemu, sick, seen,       \* SmokeTest
    lopt, guest, fstab, grub, cfg, maps, tools, newFstab, updated, cut,  \* LiveFixer
    lost,
    calls, root, hive, backup, hasty, clock, put, script, saved     \* WindowsFixer

Vddk == INSTANCE VddkDownload WITH MaxRuns <- MaxCalls, MaxRetries <- ReadRetries
Nfc == INSTANCE NfcExport WITH MaxRuns <- MaxCalls
Vsphere == INSTANCE VsphereExport WITH Jobs <- VsphereJobs
Archive == INSTANCE Extract WITH files <- extracted
Image == INSTANCE QemuConvert WITH Jobs <- Conversions
Smoke == INSTANCE SmokeTest WITH MaxRuns <- MaxCalls
Live == INSTANCE LiveFixer WITH Options <- LiveOptions
Windows == INSTANCE WindowsFixer WITH files <- put

ASSUME ComponentsAssumption ==
    /\ Vddk!VddkAssumption /\ Nfc!NfcAssumption /\ Vsphere!VsphereAssumption
    /\ Archive!ExtractAssumption /\ Image!ConvertAssumption /\ Smoke!SmokeAssumption
    /\ Live!LiveAssumption /\ Windows!WindowsAssumption

-----------------------------------------------------------------------------
(* The variables only one of them has; and how they stand still.           *)

ofAzure == <<opt, phase, item, sas, ok, start, cloud, access, doubtful, report, exists>>
ofVddk == <<remote, inited, connected, handle, partThere, torn>>
ofNfc == <<ova, skip, version, stage, strays, final>>
ofVsphere == <<vm, step, session, password, kept, raised, dir, got, todo, drives, on, tmp, runs,
               missed, failed>>
ofArchive == <<archive, inner, tars, extracted, found, results>>
ofImage == <<plan, inodes, mine, orphans, image, saw, best, told>>
ofSmoke == <<args, domain, active, nvram, xml, ovmf, qemu, sick, seen>>
ofLive == <<lopt, fstab, grub, cfg, maps, tools, newFstab, updated, lost, cut>>
ofWindows == <<calls, root, hive, backup, hasty, clock, put, script, saved>>

all == <<subject, pc, run, attempt, next, part, local, result, left, job, images, outcome,
         whole, guest, ofAzure, ofVddk, ofNfc, ofVsphere, ofArchive, ofImage, ofSmoke,
         ofLive, ofWindows>>

NoAzure ==
    /\ opt = 0 /\ phase = 0 /\ item = 0 /\ sas = 0 /\ ok = 0 /\ start = 0 /\ cloud = 0
    /\ access = 0 /\ doubtful = 0 /\ report = 0 /\ exists = 0
NoVddk == remote = 0 /\ inited = 0 /\ connected = 0 /\ handle = 0 /\ partThere = 0 /\ torn = 0
NoNfc == ova = 0 /\ skip = 0 /\ version = 0 /\ stage = 0 /\ strays = 0 /\ final = 0
NoVsphere ==
    /\ vm = 0 /\ step = 0 /\ session = 0 /\ password = 0 /\ kept = 0 /\ raised = 0 /\ dir = 0
    /\ got = 0 /\ todo = 0 /\ drives = 0 /\ on = 0 /\ tmp = 0 /\ runs = 0 /\ missed = 0 /\ failed = 0
NoArchive == archive = 0 /\ inner = 0 /\ tars = 0 /\ extracted = 0 /\ found = 0 /\ results = 0
NoImage ==
    /\ plan = 0 /\ inodes = 0 /\ mine = 0 /\ orphans = 0 /\ image = 0 /\ saw = 0 /\ best = 0
    /\ told = 0
NoSmoke ==
    /\ args = 0 /\ domain = 0 /\ active = 0 /\ nvram = 0 /\ xml = 0 /\ ovmf = 0 /\ qemu = 0
    /\ sick = 0 /\ seen = 0
NoLive ==
    /\ lopt = 0 /\ fstab = 0 /\ grub = 0 /\ cfg = 0 /\ maps = 0 /\ tools = 0 /\ newFstab = 0
    /\ updated = 0 /\ lost = 0 /\ cut = 0
NoWindows ==
    /\ calls = 0 /\ root = 0 /\ hive = 0 /\ backup = 0 /\ hasty = 0 /\ clock = 0 /\ put = 0
    /\ script = 0 /\ saved = 0

-----------------------------------------------------------------------------

ComponentsInit ==
    \/ /\ subject = "azure" /\ Init
       /\ NoVddk /\ NoNfc /\ NoVsphere /\ NoArchive /\ NoImage /\ NoSmoke /\ NoLive /\ NoWindows
       /\ left = 0 /\ job = 0 /\ images = 0 /\ outcome = 0 /\ whole = 0 /\ guest = 0
    \/ /\ subject = "vddk" /\ Vddk!Init
       /\ NoAzure /\ NoNfc /\ NoVsphere /\ NoArchive /\ NoImage /\ NoSmoke /\ NoLive /\ NoWindows
       /\ next = 0 /\ left = 0 /\ job = 0 /\ images = 0 /\ outcome = 0 /\ whole = 0 /\ guest = 0
    \/ /\ subject = "nfc" /\ Nfc!Init
       /\ NoAzure /\ NoVddk /\ NoVsphere /\ NoArchive /\ NoImage /\ NoSmoke /\ NoLive /\ NoWindows
       /\ next = 0 /\ part = 0 /\ local = 0 /\ job = 0 /\ images = 0 /\ outcome = 0
       /\ whole = 0 /\ guest = 0
    \/ /\ subject = "vsphere" /\ Vsphere!Init
       /\ NoAzure /\ NoVddk /\ NoNfc /\ NoArchive /\ NoImage /\ NoSmoke /\ NoLive /\ NoWindows
       /\ run = 0 /\ attempt = 0 /\ next = 0 /\ part = 0 /\ local = 0 /\ left = 0
       /\ outcome = 0 /\ whole = 0 /\ guest = 0
    \/ /\ subject = "archive" /\ Archive!Init
       /\ NoAzure /\ NoVddk /\ NoNfc /\ NoVsphere /\ NoImage /\ NoSmoke /\ NoLive /\ NoWindows
       /\ attempt = 0 /\ part = 0 /\ local = 0 /\ result = 0 /\ job = 0 /\ whole = 0 /\ guest = 0
    \/ /\ subject = "image" /\ Image!Init
       /\ NoAzure /\ NoVddk /\ NoNfc /\ NoVsphere /\ NoArchive /\ NoSmoke /\ NoLive /\ NoWindows
       /\ next = 0 /\ local = 0 /\ left = 0 /\ images = 0 /\ outcome = 0 /\ guest = 0
    \/ /\ subject = "smoke" /\ Smoke!Init
       /\ NoAzure /\ NoVddk /\ NoNfc /\ NoVsphere /\ NoArchive /\ NoImage /\ NoLive /\ NoWindows
       /\ attempt = 0 /\ next = 0 /\ part = 0 /\ local = 0 /\ left = 0 /\ job = 0
       /\ images = 0 /\ outcome = 0 /\ whole = 0 /\ guest = 0
    \/ /\ subject = "live" /\ Live!Init
       /\ NoAzure /\ NoVddk /\ NoNfc /\ NoVsphere /\ NoArchive /\ NoImage /\ NoSmoke /\ NoWindows
       /\ attempt = 0 /\ next = 0 /\ part = 0 /\ local = 0 /\ result = 0 /\ left = 0
       /\ job = 0 /\ images = 0 /\ whole = 0
    \/ /\ subject = "windows" /\ Windows!Init
       /\ NoAzure /\ NoVddk /\ NoNfc /\ NoVsphere /\ NoArchive /\ NoImage /\ NoSmoke /\ NoLive
       /\ run = 0 /\ attempt = 0 /\ next = 0 /\ part = 0 /\ left = 0 /\ job = 0
       /\ images = 0 /\ outcome = 0

restAzure == <<ofVddk, ofNfc, ofVsphere, ofArchive, ofImage, ofSmoke, ofLive, ofWindows,
               left, job, images, outcome, whole, guest>>
restVddk == <<ofAzure, ofNfc, ofVsphere, ofArchive, ofImage, ofSmoke, ofLive, ofWindows,
              next, left, job, images, outcome, whole, guest>>
restNfc == <<ofAzure, ofVddk, ofVsphere, ofArchive, ofImage, ofSmoke, ofLive, ofWindows,
             next, part, local, job, images, outcome, whole, guest>>
restVsphere == <<ofAzure, ofVddk, ofNfc, ofArchive, ofImage, ofSmoke, ofLive, ofWindows,
                 run, attempt, next, part, local, left, outcome, whole, guest>>
restArchive == <<ofAzure, ofVddk, ofNfc, ofVsphere, ofImage, ofSmoke, ofLive, ofWindows,
                 attempt, part, local, result, job, whole, guest>>
restImage == <<ofAzure, ofVddk, ofNfc, ofVsphere, ofArchive, ofSmoke, ofLive, ofWindows,
               next, local, left, images, outcome, guest>>
restSmoke == <<ofAzure, ofVddk, ofNfc, ofVsphere, ofArchive, ofImage, ofLive, ofWindows,
               attempt, next, part, local, left, job, images, outcome, whole, guest>>
restLive == <<ofAzure, ofVddk, ofNfc, ofVsphere, ofArchive, ofImage, ofSmoke, ofWindows,
              attempt, next, part, local, result, left, job, images, whole>>
restWindows == <<ofAzure, ofVddk, ofNfc, ofVsphere, ofArchive, ofImage, ofSmoke, ofLive,
                 run, attempt, next, part, left, job, images, outcome>>

OtherNext ==
    /\ UNCHANGED subject
    /\ \/ subject = "vddk" /\ Vddk!Next /\ UNCHANGED restVddk
       \/ subject = "nfc" /\ Nfc!Next /\ UNCHANGED restNfc
       \/ subject = "vsphere" /\ Vsphere!Next /\ UNCHANGED restVsphere
       \/ subject = "archive" /\ Archive!Next /\ UNCHANGED restArchive
       \/ subject = "image" /\ Image!Next /\ UNCHANGED restImage
       \/ subject = "smoke" /\ Smoke!Next /\ UNCHANGED restSmoke
       \/ subject = "live" /\ Live!Next /\ UNCHANGED restLive
       \/ subject = "windows" /\ Windows!Next /\ UNCHANGED restWindows

ComponentsNext ==
    \/ subject = "azure" /\ Next /\ UNCHANGED <<subject, restAzure>>
    \/ OtherNext

ComponentsSpec == ComponentsInit /\ [][ComponentsNext]_all

\* The fairness of each, for the steps of its own behaviours.
Advance ==
    /\ UNCHANGED subject
    /\ \/ subject = "vddk" /\ Vddk!Advance /\ UNCHANGED restVddk
       \/ subject = "nfc" /\ Nfc!Advance /\ UNCHANGED restNfc
       \/ subject = "vsphere" /\ Vsphere!Advance /\ UNCHANGED restVsphere
       \/ subject = "archive" /\ Archive!Advance /\ UNCHANGED restArchive
       \/ subject = "image" /\ Image!Advance /\ UNCHANGED restImage
       \/ subject = "smoke" /\ Smoke!Advance /\ UNCHANGED restSmoke
       \/ subject = "live" /\ Live!Advance /\ UNCHANGED restLive
       \/ subject = "windows" /\ Windows!Advance /\ UNCHANGED restWindows

FairComponents ==
    /\ ComponentsSpec
    /\ WF_all(Advance) /\ WF_vars(subject = "azure" /\ Manage)
    /\ \A d \in Disks : WF_vars(subject = "azure" /\ Export(d))

\* The live fixer alone.
LiveSpec == ComponentsSpec /\ subject = "live" /\ WF_all(Advance)

-----------------------------------------------------------------------------
(* The properties of the components, each for its own behaviours.            *)

\* AzureExport!OneImage, AzureExport!CleanedUp and AzureExport!RemovedInOrder: a VHD is
\* of one snapshot, what was made in the cloud goes, and in which order.
AzureTrue == subject = "azure" => OneImage /\ CleanedUp
AzureOrder == [][subject = "azure" => RemovedInOrder]_all

\* AzureExport!Delivery, VddkDownload!VddkDelivery, NfcExport!OvaDelivery and
\* QemuConvert!ImageDelivery: what FileDelivery promises, of VHDs in a directory
\* that runs share, of a disk over VDDK, of an OVA and of a converted image.
FilesDelivered ==
    /\ subject = "azure" => Promise!Init
    /\ subject = "vddk" => Vddk!Promise!Init
    /\ subject = "nfc" => Nfc!Promise!Init
    /\ subject = "image" => Image!Promise!Init
    /\ [][/\ subject = "azure" => Promise!Next \/ UNCHANGED Promise!vars
          /\ subject = "vddk" => Vddk!Promise!Next \/ UNCHANGED Vddk!Promise!vars
          /\ subject = "nfc" => Nfc!Promise!Next \/ UNCHANGED Nfc!Promise!vars
          /\ subject = "image" => Image!Promise!Next \/ UNCHANGED Image!Promise!vars]_all

\* VddkDownload!PartStays, Extract!StaysWhole: what a run has read or extracted
\* no later run takes away.
FetchedStays ==
    [][/\ subject = "vddk" => Vddk!PartStays
       /\ subject = "archive" => Archive!StaysWhole]_all

\* NfcExport!ExportedNow: what was exported is the VM as it is now.
ExportedNow == subject = "nfc" => Nfc!ExportedNow

\* VsphereExport: passwords go, as far as their files can be removed, and what
\* is said to be exported is there whole.
ExportTrue ==
    subject = "vsphere" => Vsphere!PasswordGone /\ Vsphere!OnlyWhole /\ Vsphere!ChainTrue

\* Extract: a run that succeeds has found every disk and each has an image of
\* its own.
ExtractTrue == subject = "archive" => Archive!Complete /\ Archive!OwnImage

\* QemuConvert: the image under its name is whole and nobody writes to it.
ImageTrue == subject = "image" => Image!Settled

\* QemuConvert: the plan goes down.
PlanFalls == subject = "image" => Image!Downgrades

\* SmokeTest: a test that passes has seen its own image, and leaves nothing.
SmokeTrue == subject = "smoke" => Smoke!PassedOnOwn /\ Smoke!LeftNothing

\* LiveFixer and WindowsFixer: lines and entries that were there stay, unless a move
\* or an upload has left a part.
EditsStay ==
    [][/\ subject = "live" => Live!LinesStay
       /\ subject = "windows" => Windows!EntriesStay]_all

\* LiveFixer: the boot loader uses the file that was updated, and (what the code
\* does not do) no option is lost.
Generated == subject = "live" => Live!Generated
OptionsKept == [][subject = "live" => Live!OptionsStay]_all

\* WindowsFixer: a torn hive can be had back, a service has a script.
WindowsTrue == subject = "windows" => Windows!Recoverable /\ Windows!ScriptThere

\* Whatever is begun comes to an end.
Ended == {"done", "over", "killed"}
ComponentsEnd ==
    (subject = "azure" /\ phase = "exporting") \/ (subject # "azure" /\ pc \notin Ended)
        ~> (subject = "azure" /\ phase = "returned") \/ (subject # "azure" /\ pc \in Ended)
=============================================================================
