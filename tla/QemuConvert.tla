----------------------------- MODULE QemuConvert ----------------------------
(***************************************************************************)
(* Convert.convert_image_with_progress                                     *)
(* (src/hyper2kvm/converters/qemu/converter.py): qemu-img writes the image *)
(* into <dst>.part, once for each entry of a plan of ever fewer options    *)
(* until one succeeds; the part is then renamed.  The parent reads what    *)
(* qemu-img says of its progress, and the size of the part until it says   *)
(* anything.                                                               *)
(*                                                                         *)
(* The image is asked for several times, as after a crash: a qemu-img      *)
(* whose parent was killed goes on writing to the file it has opened,      *)
(* whatever its name is by then.  Files are therefore told apart by inode. *)
(* Every caller leaves atomic, cache_mode, threads, compression_type and   *)
(* preallocation as they are by default or as the configuration has them.  *)
(* External: qemu-img, which opens its output soon after it has started: a *)
(* parent killed in between leaves no orphan.  Not here: the bar, the      *)
(* logs, the pace of polling.                                              *)
(***************************************************************************)
EXTENDS Integers, Sequences

CONSTANTS
    MaxRuns,    \* bound: how often the image is converted
    Full,       \* 100 %, in the steps that progress is counted in
    Jobs        \* what may be asked for: the options, qcow2 and compress

\* A set of options: cache_mode is on, threads, compression_type, whether there
\* is a level, and whether there is a preallocation.
Options == [cache : BOOLEAN, threads : BOOLEAN, ctype : {"zstd", "zlib", "none"},
            level : BOOLEAN, prealloc : BOOLEAN]

\* What is assumed of the constants.
ConvertAssumption ==
    /\ MaxRuns \in Nat \ {0} /\ Full \in Nat \ {0}
    /\ Jobs \subseteq [base : Options, qcow2 : BOOLEAN, compress : BOOLEAN]

VARIABLES
    run,        \* which conversion this is
    job,        \* what is asked for
    pc,         \* where it is
    plan,       \* the options to try, one entry after the other
    attempt,    \* attempt_no
    inodes,     \* how many files have been created
    part,       \* the inode <dst>.part names; 0: there is none
    mine,       \* the inode our qemu-img writes; 0: none is open
    orphans,    \* the inodes that a qemu-img without a parent writes
    whole,      \* the inodes that a qemu-img has written to the end
    image,      \* the inode <dst> names; 0: there is none
    saw,        \* saw_real_pct
    best,       \* best_pct
    told,       \* last_cb_frac; -1: nothing was reported
    result

vars == <<run, job, pc, plan, attempt, inodes, part, mine, orphans, whole, image,
          saw, best, told, result>>
call == <<run, job, result>>
files == <<inodes, part, mine, orphans, whole, image>>
progress == <<saw, best, told>>

Init ==
    /\ run = 1 /\ job \in Jobs /\ pc = "info" /\ plan = <<>> /\ attempt = 1 /\ result = "none"
    /\ inodes = 0 /\ part = 0 /\ mine = 0 /\ orphans = {} /\ whole = {} /\ image = 0
    /\ saw = FALSE /\ best = 0 /\ told = -1

-----------------------------------------------------------------------------
(* The plan                                                                 *)

Packed == job.qcow2 /\ job.compress

\* emit: what is in the plan already is not tried again.  (Weaker form: it is.)
Appended(c, seen, o) == IF c THEN Append(seen, o) ELSE seen
Emit(c, seen, o) ==
    IF c /\ \A i \in 1..Len(seen) : seen[i] # o THEN Append(seen, o) ELSE seen

\* What _fallback_plan emits, in this order, and when it does.
Plan ==
    LET base == job.base
        still == [base EXCEPT !.threads = FALSE]
        zlib == [still EXCEPT !.ctype = "zlib"]
        plain == [still EXCEPT !.ctype = "none"]
        loose == [plain EXCEPT !.level = FALSE]
        cached == [(IF Packed THEN loose ELSE still) EXCEPT !.cache = FALSE]
        none == [cache |-> FALSE, threads |-> FALSE, ctype |-> "none",
                 level |-> FALSE, prealloc |-> FALSE]
        stilled == Emit(base.threads, <<base>>, still)
        zlibbed == Emit(Packed /\ base.ctype = "zstd", stilled, zlib)
        loosened == Emit(Packed /\ base.level, Emit(Packed, zlibbed, plain), loose)
    IN  Emit(TRUE, Emit(base.cache, loosened, cached), none)

-----------------------------------------------------------------------------
(* The conversion                                                           *)

Raise == pc' = "done" /\ result' = "failed" /\ UNCHANGED <<run, job>>

\* The source is there, qemu-img info tells its format, and the plan is made; or
\* it raises.
Info ==
    /\ pc = "info"
    /\ \/ pc' = "attempt" /\ plan' = Plan /\ UNCHANGED call
       \/ Raise /\ UNCHANGED plan
    /\ UNCHANGED <<attempt, files, progress>>

\* What the part is once a stale one is out of the way.  (Weaker form: it is
\* left there, and qemu-img opens it.)
Kept == part
Cleared == 0

\* An attempt: a stale part is unlinked and qemu-img started.
Start ==
    /\ pc = "attempt"
    /\ \/ /\ pc' = "running" /\ part' = Cleared /\ saw' = FALSE /\ best' = 0 /\ told' = -1
          /\ UNCHANGED call
       \/ Raise /\ UNCHANGED <<part, progress>>
    /\ UNCHANGED <<plan, attempt, inodes, mine, orphans, whole, image>>

\* qemu-img opens its output: the file of that name, emptied, or a new one.
Create ==
    /\ pc = "running" /\ mine = 0
    /\ IF part = 0 THEN part' = inodes + 1 /\ inodes' = inodes + 1
                   ELSE UNCHANGED <<part, inodes>>
    /\ mine' = part' /\ whole' = whole \ {part'}
    /\ UNCHANGED <<call, pc, plan, attempt, orphans, image, progress>>

\* A callback is made when the fraction is above the last one.
Gated(b) == IF b > told THEN b ELSE told

\* One turn of the loop: a line of qemu-img's, whose first percentage is taken
\* for what it is and later ones only when they are higher; or, before there
\* was any, the size of the part, which never counts as all.
Poll ==
    /\ pc = "running"
    /\ \/ \E p \in 0..Full : /\ best' = IF saw /\ p < best THEN best ELSE p
                             /\ saw' = TRUE
       \/ /\ ~saw /\ mine # 0
          /\ \E e \in 0..(Full - 1) : best' = IF e > best THEN e ELSE best
          /\ UNCHANGED saw
    /\ told' = Gated(best')
    /\ UNCHANGED <<call, pc, plan, attempt, files>>

\* qemu-img has written the whole image and exits with 0.
Succeeds ==
    /\ pc = "running" /\ mine # 0
    /\ whole' = whole \cup {mine} /\ mine' = 0
    /\ best' = Full /\ told' = Gated(best') /\ pc' = "replace"
    /\ UNCHANGED <<call, plan, attempt, inodes, part, orphans, image, saw>>

\* It exits with another code, having created its output or not.  The next
\* entry is tried whatever the reason; after the last one the part is unlinked,
\* if that can be done, and the error raised.
Fails ==
    /\ pc = "running" /\ mine' = 0
    /\ IF attempt < Len(plan)
       THEN attempt' = attempt + 1 /\ pc' = "attempt" /\ UNCHANGED <<call, part>>
       ELSE part' \in {0, part} /\ Raise /\ UNCHANGED attempt
    /\ UNCHANGED <<plan, inodes, orphans, whole, image, progress>>

\* tmp_dst.replace(final_dst), and the last callback.
Replace ==
    /\ pc = "replace"
    /\ \/ /\ image' = part /\ part' = 0 /\ told' = Full
          /\ pc' = "done" /\ result' = "ok" /\ UNCHANGED <<run, job>>
       \/ Raise /\ UNCHANGED <<image, part, told>>
    /\ UNCHANGED <<plan, attempt, inodes, mine, orphans, whole, saw, best>>

\* ^C: qemu-img is terminated; one that does not stop in time is killed and not
\* waited for.  The part stays.
Interrupt ==
    /\ pc = "running" /\ mine' = 0 /\ Raise
    /\ orphans' \in {orphans, orphans \cup ({mine} \ {0})}
    /\ UNCHANGED <<plan, attempt, inodes, part, whole, image, progress>>

\* The parent is killed; its qemu-img goes on.
Kill ==
    /\ pc \notin {"done", "killed"} /\ pc' = "killed" /\ mine' = 0
    /\ orphans' = orphans \cup ({mine} \ {0})
    /\ UNCHANGED <<call, plan, attempt, inodes, part, whole, image, progress>>

\* A qemu-img without a parent comes to its end.
OrphanEnds ==
    /\ \E i \in orphans : /\ orphans' = orphans \ {i}
                          /\ whole' \in {whole, whole \cup {i}}
    /\ UNCHANGED <<call, pc, plan, attempt, inodes, part, mine, image, progress>>

Again ==
    /\ pc \in {"done", "killed"} /\ run < MaxRuns
    /\ run' = run + 1 /\ job' \in Jobs /\ pc' = "info" /\ plan' = <<>> /\ attempt' = 1
    /\ result' = "none" /\ saw' = FALSE /\ best' = 0 /\ told' = -1 /\ UNCHANGED files

Advance == Info \/ Start \/ Create \/ Succeeds \/ Fails \/ Replace

Next == Advance \/ Poll \/ Interrupt \/ Kill \/ OrphanEnds \/ Again

\* qemu-img ends; the loop that polls it does no more than wait for that.
FairSpec == Init /\ [][Next]_vars /\ WF_vars(Advance)

-----------------------------------------------------------------------------
(* Properties                                                               *)

TypeOK ==
    /\ run \in 1..MaxRuns /\ job \in Jobs /\ plan \in Seq(Options)
    /\ attempt \in 1..(Len(plan) + 1)
    /\ pc \in {"info", "attempt", "running", "replace", "done", "killed"}
    /\ inodes \in Nat /\ {part, mine, image} \cup orphans \cup whole \subseteq 0..inodes
    /\ saw \in BOOLEAN /\ best \in 0..Full /\ told \in -1..Full
    /\ result \in {"none", "ok", "failed"}

\* The image that is there under its own name was written to the end by one
\* qemu-img, and no other one, of a run that was killed or interrupted, still
\* writes to it (convert_image_with_progress: the stale part is unlinked, so
\* that no two of them ever open the same file).
Settled == image # 0 => image \in whole \ orphans

\* What a conversion promises (FileDelivery): the image appears whole, a later
\* conversion replaces it by a whole one or leaves it, and "ok" is told of an
\* image that is there (tmp_dst.replace(final_dst)).
There == image # 0 /\ image \in whole \ orphans
Promise ==
    INSTANCE FileDelivery
    WITH Files <- {1}, whole <- IF There THEN {1} ELSE {}, outcome <- <<result>>
ImageDelivery == Promise!Spec

\* The plan asks for less with every entry, for nothing with the last one, and
\* for the same options never twice (_fallback_plan).
Rank(o) ==
    <<IF o.cache THEN 1 ELSE 0, IF o.threads THEN 1 ELSE 0,
      CASE o.ctype = "zstd" -> 2 [] o.ctype = "zlib" -> 1 [] o.ctype = "none" -> 0,
      IF o.level THEN 1 ELSE 0, IF o.prealloc THEN 1 ELSE 0>>
AtLeast(o, p) == \A k \in 1..5 : Rank(o)[k] >= Rank(p)[k]
Downgrades == plan # <<>> =>
    /\ \A i, j \in 1..Len(plan) : i < j => plan[i] # plan[j] /\ AtLeast(plan[i], plan[j])
    /\ Rank(plan[Len(plan)]) = <<0, 0, 0, 0, 0>>

=============================================================================
