-------------------------------- MODULE Extract --------------------------------
(***************************************************************************)
(* The extractors (src/hyper2kvm/converters/extractors: ovf.py, vhd.py,    *)
(* raw.py, ami.py), as disk_discovery.py uses them: the members of an      *)
(* archive are written into one directory, out_root/extracted, the disks   *)
(* among them found and, when asked for, converted into out_root/qcow2.    *)
(* Run after run uses the same two directories, each with its own archive; *)
(* a run may fail or be killed anywhere, also in the middle of a member.   *)
(*                                                                         *)
(* A path is a directory, a stem and the number that a renamed file gets.  *)
(* External: tarfile, qemu-img, the file system.  Not here: what the       *)
(* safety checks of names and links refuse beyond "it fails", limits other *)
(* than that they end a run, permissions, probes, manifests, progress.     *)
(***************************************************************************)
EXTENDS Naturals, Sequences, FiniteSets

CONSTANTS
    Archives,   \* the archives, each with the options of its run
    MaxRuns,    \* bound: runs into the same directories
    None        \* no path

Kinds == {"ova", "vhd", "raw", "ami"}

\* What a member of an archive is: "blob" is a large file without a known
\* extension, "tar" an archive in the archive.
MemberKinds == {"disk", "ovf", "text", "blob", "tar", "special"}

IsPath(p) == p = [dir |-> p.dir, stem |-> p.stem, copy |-> p.copy]
IsList(l) == l \in Seq({l[i] : i \in DOMAIN l})
IsMember(m) == IsPath(m.path) /\ m.what \in MemberKinds

\* What is assumed of the constants.
ExtractAssumption ==
    /\ MaxRuns \in Nat \ {0}
    /\ \A a \in Archives :
         /\ a.kind \in Kinds /\ IsList(a.members) /\ IsList(a.nested)
         /\ \A i \in DOMAIN a.members : IsMember(a.members[i])
         /\ \A i \in DOMAIN a.nested : IsMember(a.nested[i])
         /\ (a.plain = None \/ IsPath(a.plain))
         /\ {a.convert, a.overwrite, a.rename, a.all, a.texts, a.special} \subseteq BOOLEAN

VARIABLES
    run,        \* number of the run
    archive,    \* its archive
    pc,         \* where the run is
    inner,      \* the tar within the tar that is being extracted, or None
    tars,       \* the ones still to do
    next,       \* the member that is next
    files,      \* out_root/extracted: path -> what lies there
    found,      \* the disks found: [path, origin]
    left,       \* those not yet converted
    images,     \* out_root/qcow2: name -> [run, path]
    results,    \* the names converted to in this run
    outcome     \* what the run has come to

exVars == <<run, archive, pc, inner, tars, next, files, found, left, images, results, outcome>>
job == <<run, archive>>
reading == <<inner, tars, next>>
converting == <<left, images, results>>

Fresh ==
    /\ inner = None /\ tars = {} /\ next = 1
    /\ found = {} /\ left = {} /\ results = {} /\ outcome = "none"

Init ==
    /\ run = 1 /\ archive \in Archives /\ pc = "open" /\ Fresh
    /\ files = <<>> /\ images = <<>>

With(f, p, m) == [q \in DOMAIN f \cup {p} |-> IF q = p THEN m ELSE f[q]]
Without(p) == [q \in DOMAIN files \ {p} |-> files[q]]

\* U.die and exceptions: nothing catches them in a run.
Stop == pc' = "done" /\ outcome' = "failed"

\* A plain image is its own result.
Open ==
    /\ pc = "open"
    /\ \/ /\ Stop /\ UNCHANGED found
       \/ /\ archive.plain = None /\ pc' = "members" /\ UNCHANGED <<found, outcome>>
       \/ /\ archive.plain # None /\ pc' = "found" /\ UNCHANGED outcome
          /\ found' = {[path |-> archive.plain, origin |-> archive.plain]}
    /\ UNCHANGED <<job, reading, files, converting>>

-----------------------------------------------------------------------------
(* One member after the other.                                             *)

Members == IF inner = None THEN archive.members ELSE files[inner].members
Member == Members[next]
Reading == pc = "members" /\ next <= Len(Members)

\* should_extract, and the specials that are left out.
Wanted(m) ==
    /\ m.what # "special"
    /\ \/ archive.kind \in {"ova", "ami"} \/ archive.all
       \/ m.what = "disk" \/ (m.what = "text" /\ archive.texts)
Refused(m) ==
    /\ m.what = "special" /\ ~archive.special
    /\ archive.kind \in {"vhd", "raw"} /\ archive.all

Skip ==
    /\ Reading /\ ~Wanted(Member) /\ ~Refused(Member) /\ next' = next + 1
    /\ UNCHANGED <<job, pc, inner, tars, files, found, outcome, converting>>

\* unique_path.
Unique(p) ==
    LET free == {c \in 1..(Cardinality(DOMAIN files) + 1) : [p EXCEPT !.copy = c] \notin DOMAIN files}
    IN  [p EXCEPT !.copy = CHOOSE c \in free : \A d \in free : c <= d]

\* An existing file is overwritten, made way for, or refused.
Careful == archive.kind \in {"vhd", "raw"} /\ ~archive.overwrite
Taken(p) == p \in DOMAIN files
Blocked(p) == Taken(p) /\ Careful /\ ~archive.rename
Target(p) == IF Taken(p) /\ Careful /\ archive.rename THEN Unique(p) ELSE p

Content(whole) == [run |-> run, member |-> Member.path, what |-> Member.what,
                   refs |-> Member.refs, whole |-> whole,
                   members |-> IF Member.what = "tar" THEN archive.nested ELSE <<>>]

Extracts ==
    /\ Reading /\ Wanted(Member) /\ ~Blocked(Member.path)
    /\ LET p == Target(Member.path) IN
         /\ files' = With(files, p, Content(TRUE))
         /\ found' = IF archive.kind \in {"vhd", "raw"} /\ Member.what = "disk"
                     THEN found \cup {[path |-> p, origin |-> Member.path]}
                     ELSE found
    /\ next' = next + 1
    /\ UNCHANGED <<job, pc, inner, tars, outcome, converting>>

\* Where a member is written first: under its own name, or under another one
\* that is replaced into place.
InPlace == archive.kind \in {"vhd", "ami"}

\* What a failure leaves under the name.  vhd.py removes the file, ami.py only
\* when it has raised the error itself.
LeftBy(p) ==
    CASE archive.kind = "vhd" -> {files, Without(p)}
      [] archive.kind = "ami" -> {files, Without(p), With(files, p, Content(FALSE))}
      [] OTHER -> {files}

\* Only extract_ova goes on.  (Weaker form: every extractor does.)
EachTolerant(kind) == TRUE
Tolerant(kind) == kind = "ova"

\* A member that is refused, or cannot be read or written.  In a tar within the
\* tar this ends that tar alone.
Fails ==
    /\ Reading /\ (Wanted(Member) \/ Refused(Member))
    /\ files' \in IF Blocked(Member.path) \/ Refused(Member) THEN {files}
                  ELSE LeftBy(Target(Member.path))
    /\ \/ Tolerant(archive.kind) /\ next' = next + 1 /\ UNCHANGED <<pc, outcome>>
       \/ ~Tolerant(archive.kind) /\ inner = None /\ Stop /\ UNCHANGED next
       \/ inner # None /\ next' = Len(Members) + 1 /\ UNCHANGED <<pc, outcome>>
    /\ UNCHANGED <<job, inner, tars, found, converting>>

-----------------------------------------------------------------------------
(* What lies there is looked through for disks.                            *)

Of(what) == {p \in DOMAIN files : files[p].what = what}

\* _extract_one_level_nested_tars: those that lie there now, also those of an
\* earlier run, one by one; one that cannot be opened is passed over.
Nested ==
    /\ pc = "members" /\ next > Len(Members) /\ archive.kind = "ami"
    /\ LET todo == IF inner # None THEN tars ELSE IF archive.deep THEN Of("tar") ELSE {} IN
         \/ /\ todo = {} /\ pc' = "discover" /\ inner' = None /\ UNCHANGED <<tars, next>>
         \/ \E t \in todo :
              /\ inner' = t /\ tars' = todo \ {t} /\ UNCHANGED pc
              /\ next' \in {1, Len(files[t].members) + 1}
    /\ UNCHANGED <<job, files, found, outcome, converting>>

\* extract_ovf, of every *.ovf there is: a reference that cannot be followed is
\* left out, and an OVF without any ends the run.
Refs(p) == files[p].refs
Parseable == Of("ovf") # {} /\ \A p \in Of("ovf") : Refs(p) # {}
Referenced == (UNION {Refs(p) : p \in Of("ovf")}) \cap DOMAIN files

\* _find_disk_payloads: what has the extension of a disk; without any, what is
\* large.
Payloads == IF Of("disk") # {} THEN Of("disk") ELSE Of("blob")

Seen == IF archive.kind = "ova" THEN IF Parseable THEN Referenced ELSE {} ELSE Payloads

Discover ==
    /\ \/ pc = "discover"
       \/ pc = "members" /\ next > Len(Members) /\ archive.kind # "ami"
    /\ found' = IF archive.kind \in {"vhd", "raw"} THEN found
                ELSE {[path |-> p, origin |-> p] : p \in Seen}
    /\ \/ found' = {} /\ Stop
       \/ found' # {} /\ pc' = "found" /\ UNCHANGED outcome
    /\ UNCHANGED <<job, reading, files, converting>>

-----------------------------------------------------------------------------
(* The conversion.                                                         *)

\* The paths are the result, or the images they become.
Found ==
    /\ pc = "found" /\ left' = found
    /\ IF archive.convert THEN pc' = "convert" /\ UNCHANGED outcome
       ELSE pc' = "done" /\ outcome' = "ok"
    /\ UNCHANGED <<job, reading, files, found, images, results>>

Name_(stem, copy, from, n) == [stem |-> stem, copy |-> copy, from |-> from, n |-> n]

\* The name of the image of d, the nth to be converted.  raw.py puts the hash
\* of the member's name into it; ami.py the hash of the path if the plain name
\* is taken.  (Weaker form: stems alone.)
ByStem(d, n) == Name_(d.path.stem, d.path.copy, None, 0)
Name(d, n) ==
    CASE archive.kind = "raw" -> Name_(d.path.stem, d.path.copy, d.origin, 0)
      [] archive.kind = "ami" ->
           LET plain == Name_(d.path.stem, d.path.copy, None, n)
           IN  IF plain \in DOMAIN images THEN [plain EXCEPT !.from = d.path] ELSE plain
      [] OTHER -> ByStem(d, n)

\* convert_image_with_progress replaces the image when it is whole.
Convert ==
    /\ pc = "convert"
    /\ \E d \in left :
         LET name == Name(d, Cardinality(found \ left) + 1) IN
         /\ images' = With(images, name, [run |-> run, path |-> d.path])
         /\ results' = results \cup {name} /\ left' = left \ {d}
    /\ UNCHANGED <<job, pc, reading, files, found, outcome>>

ConvertFails ==
    /\ pc = "convert" /\ left # {} /\ Stop
    /\ UNCHANGED <<job, reading, files, found, converting>>

Return ==
    /\ pc = "convert" /\ left = {} /\ pc' = "done" /\ outcome' = "ok"
    /\ UNCHANGED <<job, reading, files, found, converting>>

-----------------------------------------------------------------------------

\* Killed; what was being written in place stays as it is.
Kill ==
    /\ pc \notin {"done", "killed"} /\ pc' = "killed"
    /\ \/ UNCHANGED files
       \/ /\ Reading /\ Wanted(Member) /\ ~Blocked(Member.path) /\ InPlace
          /\ files' = With(files, Target(Member.path), Content(FALSE))
    /\ UNCHANGED <<job, reading, found, converting, outcome>>

Again ==
    /\ pc \in {"done", "killed"} /\ run < MaxRuns
    /\ run' = run + 1 /\ archive' \in Archives /\ pc' = "open"
    /\ inner' = None /\ tars' = {} /\ next' = 1
    /\ found' = {} /\ left' = {} /\ results' = {} /\ outcome' = "none"
    /\ UNCHANGED <<files, images>>

Advance ==
    \/ Open \/ Skip \/ Extracts \/ Fails \/ Nested \/ Discover \/ Found
    \/ Convert \/ ConvertFails \/ Return

Next == Advance \/ Kill \/ Again

Spec == Init /\ [][Next]_exVars
FairSpec == Spec /\ WF_exVars(Advance)

-----------------------------------------------------------------------------

\* A run on a vhd or raw archive that succeeds has found one disk for each disk
\* of the archive, extracted by this run and whole, whatever earlier runs left
\* in the directory: it neither skips a member that failed nor takes an old or
\* a torn file for one of its own.
Complete ==
    outcome = "ok" /\ archive.kind \in {"vhd", "raw"} /\ archive.plain = None =>
        \A i \in DOMAIN archive.members :
            archive.members[i].what = "disk" =>
                \E d \in found : /\ d.origin = archive.members[i].path
                                 /\ files[d.path].run = run /\ files[d.path].whole

\* Every disk has an image of its own: of two disks with the same name in two
\* directories of the archive neither replaces the other's image.  (An OVA or
\* VHD archive with two such disks loses one: see README.)
OwnImage ==
    archive.kind \in {"raw", "ami"} /\ archive.convert /\ (pc = "convert" \/ outcome = "ok") =>
        \A d \in found \ left :
            \E n \in results : images[n] = [run |-> run, path |-> d.path]

\* "avoid deleting/truncating preexisting files on failure": what an earlier
\* run extracted stays whole, until a whole file replaces it; only an option
\* and the AMI extractor write over a file in place.
StaysWhole ==
    \A p \in DOMAIN files :
        files[p].whole /\ ~(InPlace /\ (archive.kind = "ami" \/ archive.overwrite)) =>
            p \in DOMAIN files' /\ files'[p].whole

================================================================================
