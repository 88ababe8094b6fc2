------------------------------ MODULE NfcExport ------------------------------
(***************************************************************************)
(* GovcNfcExporter.export (src/hyper2kvm/vmware/clients/nfc_lease.py): a   *)
(* VM is exported by govc into a fresh stage directory, again after a      *)
(* failure, and the result is published: an OVA by os.replace, an OVF      *)
(* directory file by file.  What is published already is not exported      *)
(* again.  Other programs call export_with_govc; nothing in the repository *)
(* does.                                                                   *)
(*                                                                         *)
(* An export is a set of pieces: the descriptor, which is piece 1, and the *)
(* disks; an OVA is one piece.  A piece is known by the version of the VM  *)
(* it is of, 0 if it is not there.  The caller may cancel, its progress    *)
(* callback may raise, and the process may be killed, which leaves govc    *)
(* running in a session of its own.                                        *)
(* External: govc.  Not here: the command line, backoff, progress.         *)
(***************************************************************************)
EXTENDS Naturals, FiniteSets

CONSTANTS
    Pieces,     \* files of an OVF export
    MaxRuns,    \* bound: how often the export is asked for
    MaxRetries, \* max_retries
    MaxGovc     \* bound: how many govc may be left behind

Versions == 1..MaxRuns
Descriptor == 1

\* What is assumed of the constants.
NfcAssumption ==
    /\ Pieces \in Nat \ {0} /\ MaxRuns \in Nat \ {0}
    /\ MaxRetries \in Nat \ {0} /\ MaxGovc \in Nat

VARIABLES
    ova,        \* export_ova, of every run
    skip,       \* skip_if_present and resume, of this run
    run,        \* which call of export this is
    version,    \* of the VM
    pc,         \* where the call is
    attempt,    \* which attempt
    stage,      \* the pieces in the stage directory of the attempt
    left,       \* other stage directories are there
    strays,     \* govc processes nobody waits for
    final,      \* the pieces under final_path
    result      \* what the call has come to

vars == <<ova, skip, run, version, pc, attempt, stage, left, strays, final, result>>
call == <<ova, skip, run, version>>

Piece == 1..(IF ova THEN 1 ELSE Pieces)
Nothing == [p \in Piece |-> 0]

Init ==
    /\ ova \in BOOLEAN /\ skip \in BOOLEAN /\ run = 1 /\ version = 1
    /\ pc = "start" /\ attempt = 0 /\ stage = Nothing /\ left = FALSE /\ strays = 0
    /\ final = Nothing /\ result = "none"

Raise == pc' = "done" /\ result' = "failed"

-----------------------------------------------------------------------------

Present == final[Descriptor] # 0

\* _gc_stage_dirs removes directories that are old enough; the preflight may
\* fail; what is published is returned as it is.
Start ==
    /\ pc = "start" /\ left' \in {left, FALSE}
    /\ \/ Raise
       \/ IF skip /\ Present THEN pc' = "done" /\ result' = "present"
                             ELSE pc' = "govc" /\ UNCHANGED result
    /\ attempt' = 0
    /\ UNCHANGED <<call, stage, strays, final>>

\* A fresh stage directory, and govc in it until it exits: with everything, or
\* having failed half way.
Exported == [p \in Piece |-> version]

Govc ==
    /\ pc = "govc" /\ attempt' = attempt + 1
    /\ \/ stage' = Exported /\ pc' = "publish"
       \/ stage' = Nothing /\ pc' = "failing"
    /\ UNCHANGED <<call, left, strays, final, result>>

\* cancel(), asked before an attempt and at each line of govc's output: the
\* process group is terminated, the stage directory stays.
Cancel ==
    /\ pc = "govc" /\ left' \in {left, TRUE} /\ Raise
    /\ UNCHANGED <<call, attempt, stage, strays, final>>

\* progress raises in the loop over the output: govc is not stopped, but it is
\* a failed attempt like others.
ProgressRaises ==
    /\ pc = "govc" /\ strays < MaxGovc /\ strays' = strays + 1
    /\ attempt' = attempt + 1 /\ pc' = "failing"
    /\ UNCHANGED <<call, stage, left, final, result>>

\* The files of the stage directory replace those of the directory one by one,
\* the OVA the OVA; rmtree removes the rest.
Move(p) ==
    /\ pc = "publish" /\ stage[p] # 0
    /\ final' = [final EXCEPT ![p] = stage[p]] /\ stage' = [stage EXCEPT ![p] = 0]
    /\ UNCHANGED <<call, pc, attempt, left, strays, result>>

\* (Weaker form: as soon as the descriptor is there.)
Listed == stage[Descriptor] = 0
Published == stage = Nothing

Return ==
    /\ pc = "publish" /\ Published /\ pc' = "done" /\ result' = "exported"
    /\ stage' = Nothing
    /\ UNCHANGED <<call, attempt, left, strays, final>>

PublishFails ==
    /\ pc = "publish" /\ \E p \in Piece : stage[p] # 0
    /\ pc' = "failing"
    /\ UNCHANGED <<call, attempt, stage, left, strays, final, result>>

\* The stage directory goes; again, unless that was the last attempt.
Fail ==
    /\ pc = "failing" /\ stage' = Nothing
    /\ IF attempt >= MaxRetries THEN Raise ELSE pc' = "govc" /\ UNCHANGED result
    /\ UNCHANGED <<call, attempt, left, strays, final>>

Advance ==
    \/ Start \/ Govc \/ Return \/ PublishFails \/ Fail
    \/ \E p \in Piece : Move(p)

-----------------------------------------------------------------------------

Kill ==
    /\ pc \in {"start", "govc", "publish", "failing"} /\ pc' = "killed" /\ stage' = Nothing
    /\ left' = (left \/ pc \in {"govc", "publish"})
    /\ strays' \in {strays} \cup (IF pc = "govc" /\ strays < MaxGovc THEN {strays + 1} ELSE {})
    /\ UNCHANGED <<call, attempt, final, result>>

\* A stray govc ends, in a stage directory nobody looks at.
StrayEnds == /\ strays > 0 /\ strays' = strays - 1
             /\ UNCHANGED <<call, pc, attempt, stage, left, final, result>>

\* The export is asked for again, of a VM that may have changed.
Again ==
    /\ pc \in {"done", "killed"} /\ run < MaxRuns /\ run' = run + 1
    /\ version' \in {version, run'} /\ skip' \in BOOLEAN
    /\ pc' = "start" /\ result' = "none" /\ stage' = Nothing
    /\ UNCHANGED <<ova, attempt, left, strays, final>>

Next == Advance \/ Cancel \/ ProgressRaises \/ Kill \/ StrayEnds \/ Again

Spec == Init /\ [][Next]_vars

\* govc exits.
FairSpec == Spec /\ WF_vars(Advance)

-----------------------------------------------------------------------------

TypeOK ==
    /\ ova \in BOOLEAN /\ skip \in BOOLEAN /\ run \in Versions /\ version \in 1..run
    /\ pc \in {"start", "govc", "publish", "failing", "done", "killed"}
    /\ attempt \in 0..MaxRetries /\ left \in BOOLEAN /\ strays \in 0..MaxGovc
    /\ stage \in [Piece -> 0..MaxRuns] /\ final \in [Piece -> 0..MaxRuns]
    /\ result \in {"none", "present", "exported", "failed"}

\* "OVA: atomic os.replace()": what an export promises of an OVA (FileDelivery),
\* over failures, cancelling, kills and exports that are skipped.
Promise ==
    INSTANCE FileDelivery
    WITH Files <- {1}, whole <- IF ova /\ final[1] # 0 THEN {1} ELSE {},
         outcome <- <<IF ~ova \/ pc # "done" THEN "none"
                     ELSE IF result = "failed" THEN "failed" ELSE "ok">>
OvaDelivery == Promise!Spec

\* An export that was made, not found, is the VM as it is now, all of it,
\* whatever earlier exports, failures in the middle and kills have left there.
ExportedNow ==
    pc = "done" /\ result = "exported" => \A p \in Piece : final[p] = version

=============================================================================
