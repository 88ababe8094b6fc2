-------------------------- MODULE Components_proofs --------------------------
(***************************************************************************)
(* Theorems about the components that run on their own, for every value of *)
(* their constants: any number of runs, any archives, jobs, guests, files  *)
(* and sequences of calls.  For each of them: an invariant of its          *)
(* behaviours, that each of its actions keeps it, and what follows.        *)
(***************************************************************************)
EXTENDS Components, AzureExport_proofs, FiniteSetTheorems, NaturalsInduction

-----------------------------------------------------------------------------
(* A behaviour of the composition is a behaviour of its subject.           *)

LEMMA Starts ==
    ASSUME ComponentsInit
    PROVE  /\ subject = "azure" => Init
           /\ subject = "vddk" => Vddk!Init
           /\ subject = "nfc" => Nfc!Init
           /\ subject = "vsphere" => Vsphere!Init
           /\ subject = "archive" => Archive!Init
           /\ subject = "image" => Image!Init
           /\ subject = "smoke" => Smoke!Init
           /\ subject = "live" => Live!Init
           /\ subject = "windows" => Windows!Init
BY DEF ComponentsInit

LEMMA Steps ==
    ASSUME [ComponentsNext]_all
    PROVE  /\ subject' = subject
           /\ subject = "azure" => [Next]_vars
           /\ subject = "vddk" => [Vddk!Next]_(Vddk!vars)
           /\ subject = "nfc" => [Nfc!Next]_(Nfc!vars)
           /\ subject = "vsphere" => [Vsphere!Next]_(Vsphere!vars)
           /\ subject = "archive" => [Archive!Next]_(Archive!exVars)
           /\ subject = "image" => [Image!Next]_(Image!vars)
           /\ subject = "smoke" => [Smoke!Next]_(Smoke!vars)
           /\ subject = "live" => [Live!Next]_(Live!liveVars)
           /\ subject = "windows" => [Windows!Next]_(Windows!vars)
<1>1. CASE ComponentsNext
  BY <1>1 DEF ComponentsNext, OtherNext
<1>2. CASE UNCHANGED all
  BY <1>2 DEF all, ofAzure, ofVddk, ofNfc, ofVsphere, ofArchive, ofImage, ofSmoke, ofLive,
       ofWindows, vars, Vddk!vars, Nfc!vars, Vsphere!vars, Archive!exVars, Image!vars,
       Smoke!vars, Live!liveVars, Windows!vars
<1> QED  BY <1>1, <1>2

-----------------------------------------------------------------------------
(* Sets of numbers.                                                        *)

LEMMA Least == ASSUME NEW T \in SUBSET Nat, T # {} PROVE \E x \in T : \A y \in T : x <= y
<1> DEFINE R == {ss \in Nat \X Nat : ss[1] < ss[2]}
<1>1. IsWellFoundedOn(R, Nat)  BY NatLessThanWellFounded DEF OpToRel
<1>2. T \subseteq Nat  OBVIOUS
<1> HIDE DEF R
<1>3. \E x \in T : \A y \in T : ~ (<<y, x>> \in R)  BY <1>1, <1>2, WFMin, Zenon
<1>4. PICK x \in T : \A y \in T : <<y, x>> \notin R  BY <1>3
<1>5. ASSUME NEW y \in T PROVE x <= y
  <2>1. <<y, x>> \in Nat \X Nat /\ <<y, x>> \notin R  BY <1>2, <1>4
  <2>2. ~(y < x)  BY <2>1 DEF R
  <2> QED  BY <1>2, <2>2
<1> QED  BY <1>4, <1>5

LEMMA Greatest ==
    ASSUME NEW n \in Nat, NEW T \in SUBSET (1..n), T # {}
    PROVE  \E x \in T : \A y \in T : y <= x
<1> DEFINE Below == {n - x : x \in T}
<1>1. Below \in SUBSET Nat /\ Below # {}
  <2>1. T \subseteq 1..n  OBVIOUS
  <2>2. \A x \in T : n - x \in Nat  BY <2>1
  <2> QED  BY <2>2
<1> HIDE DEF Below
<1>2. PICK z \in Below : \A y \in Below : z <= y  BY <1>1, Least
<1>3. PICK x \in T : z = n - x  BY DEF Below
<1>4. ASSUME NEW y \in T PROVE y <= x
  <2>1. n - x <= n - y  BY <1>2, <1>3 DEF Below
  <2> QED  BY <2>1
<1> QED  BY <1>4

-----------------------------------------------------------------------------
(* NfcExport: exports of VMs by govc.                                      *)

NfcTyped == Nfc!TypeOK /\ (pc = "govc" => attempt < MaxRetries)

\* What is being published is the VM as it is now: each piece has been moved, or
\* is still to be.  What is told is true.
Publishing ==
    /\ pc = "publish" =>
           \A p \in Nfc!Piece : stage[p] = version \/ (stage[p] = 0 /\ final[p] = version)
    /\ (pc # "done" => result = "none")
    /\ (result = "present" => final[1] # 0)
    /\ (pc = "done" => result # "none")

NfcInv == NfcTyped /\ Publishing /\ Nfc!ExportedNow

LEMMA NfcBounds ==
    /\ MaxCalls \in Nat \ {0} /\ MaxRetries \in Nat \ {0} /\ Pieces \in Nat \ {0}
    /\ MaxGovc \in Nat
BY ComponentsAssumption DEF Nfc!NfcAssumption

LEMMA NfcInit == ASSUME Nfc!Init PROVE NfcInv
<1> USE NfcBounds
<1>1. stage \in [Nfc!Piece -> 0..MaxCalls] /\ final \in [Nfc!Piece -> 0..MaxCalls]
  BY DEF Nfc!Init, Nfc!Nothing
<1>2. run \in Nfc!Versions /\ version \in 1..run /\ attempt \in 0..MaxRetries
     /\ strays \in 0..MaxGovc
  BY DEF Nfc!Init, Nfc!Versions
<1>3. NfcTyped  BY <1>1, <1>2 DEF NfcTyped, Nfc!TypeOK, Nfc!Init
<1> QED  BY <1>3 DEF Nfc!Init, NfcInv, Publishing, Nfc!ExportedNow

LEMMA NfcTypedNext == ASSUME NfcTyped, [Nfc!Next]_(Nfc!vars) PROVE NfcTyped'
<1> USE NfcBounds DEF NfcTyped, Nfc!call, Nfc!Raise
<1> DEFINE P == Nfc!Piece
           V == 0..MaxCalls
<1>0. /\ stage \in [P -> V] /\ final \in [P -> V] /\ 0 \in V
      /\ Nfc!Nothing \in [P -> V] /\ Nfc!Exported \in [P -> V]
      /\ (ova' = ova => P' = P)
  BY DEF Nfc!TypeOK, Nfc!Nothing, Nfc!Exported, Nfc!Versions, Nfc!Piece
<1>f. ASSUME UNCHANGED <<ova, skip, run, version>>, stage' \in [P -> V], final' \in [P -> V],
             attempt' \in 0..MaxRetries, left' \in BOOLEAN, strays' \in 0..MaxGovc,
             pc' \in {"start", "govc", "publish", "failing", "done", "killed"},
             result' \in {"none", "present", "exported", "failed"}
      PROVE  Nfc!TypeOK'
  BY <1>0, <1>f DEF Nfc!TypeOK, Nfc!Versions
<1> HIDE DEF P, V
<1>1. CASE Nfc!Start
  <2>1. left' \in BOOLEAN  BY <1>1 DEF Nfc!Start, Nfc!TypeOK
  <2> QED  BY <1>0, <1>1, <1>f, <2>1 DEF Nfc!Start, Nfc!TypeOK
<1>2. CASE Nfc!Govc  BY <1>0, <1>2, <1>f DEF Nfc!Govc, Nfc!TypeOK
<1>3. CASE Nfc!Cancel  BY <1>0, <1>3, <1>f DEF Nfc!Cancel, Nfc!TypeOK
<1>4. CASE Nfc!ProgressRaises  BY <1>0, <1>4, <1>f DEF Nfc!ProgressRaises, Nfc!TypeOK
<1>5. ASSUME NEW p \in Nfc!Piece, Nfc!Move(p) PROVE NfcTyped'
  <2>1. stage' \in [P -> V] /\ final' \in [P -> V]  BY <1>0, <1>5 DEF Nfc!Move, P
  <2> QED  BY <1>5, <1>f, <2>1 DEF Nfc!Move, Nfc!TypeOK
<1>6. CASE Nfc!Return  BY <1>0, <1>6, <1>f DEF Nfc!Return, Nfc!TypeOK
<1>7. CASE Nfc!PublishFails  BY <1>0, <1>7, <1>f DEF Nfc!PublishFails, Nfc!TypeOK
<1>8. CASE Nfc!Fail  BY <1>0, <1>8, <1>f DEF Nfc!Fail, Nfc!TypeOK
<1>9. CASE Nfc!Kill
  <2>1. left' \in BOOLEAN  BY <1>9 DEF Nfc!Kill, Nfc!TypeOK
  <2>2. strays' \in 0..MaxGovc  BY <1>9 DEF Nfc!Kill, Nfc!TypeOK
  <2> QED  BY <1>0, <1>9, <1>f, <2>1, <2>2 DEF Nfc!Kill, Nfc!TypeOK
<1>10. CASE Nfc!StrayEnds  BY <1>0, <1>10, <1>f DEF Nfc!StrayEnds, Nfc!TypeOK
<1>11. CASE Nfc!Again
  <2>1. P' = P /\ stage' \in [P -> V] /\ final' \in [P -> V]  BY <1>0, <1>11 DEF Nfc!Again
  <2> QED  BY <1>11, <2>1 DEF Nfc!Again, Nfc!TypeOK, Nfc!Versions, P, V
<1>12. CASE UNCHANGED Nfc!vars  BY <1>0, <1>12, <1>f DEF Nfc!vars, Nfc!TypeOK
<1> QED  BY <1>1, <1>2, <1>3, <1>4, <1>5, <1>6, <1>7, <1>8, <1>9, <1>10, <1>11, <1>12
         DEF Nfc!Next, Nfc!Advance

LEMMA NfcNext == ASSUME NfcInv, [Nfc!Next]_(Nfc!vars) PROVE NfcInv'
<1> USE NfcBounds DEF Nfc!call, Nfc!Raise
<1>t. NfcTyped /\ NfcTyped'  BY NfcTypedNext DEF NfcInv
<1>p. ova' = ova => Nfc!Piece' = Nfc!Piece  BY DEF Nfc!Piece
<1>d. 1 \in Nfc!Piece /\ version \in Nat \ {0}
  BY <1>t DEF NfcTyped, Nfc!TypeOK, Nfc!Piece, Nfc!Versions
<1> USE <1>t, <1>p DEF NfcInv, Publishing, Nfc!ExportedNow
<1>1. CASE Nfc!Start  BY <1>1 DEF Nfc!Start, Nfc!Present, Nfc!Descriptor
<1>2. CASE Nfc!Govc  BY <1>2 DEF Nfc!Govc, Nfc!Exported
<1>3. CASE Nfc!Cancel  BY <1>3 DEF Nfc!Cancel
<1>4. CASE Nfc!ProgressRaises  BY <1>4 DEF Nfc!ProgressRaises
<1>5. ASSUME NEW p \in Nfc!Piece, Nfc!Move(p) PROVE NfcInv'
  <2>1. ASSUME NEW q \in Nfc!Piece
        PROVE  stage'[q] = version \/ (stage'[q] = 0 /\ final'[q] = version)
    <3>1. stage[p] = version  BY <1>5 DEF Nfc!Move
    <3> QED  BY <1>5, <3>1 DEF Nfc!Move, NfcTyped, Nfc!TypeOK
  <2> QED  BY <1>5, <2>1 DEF Nfc!Move
<1>6. CASE Nfc!Return
  <2>1. \A p \in Nfc!Piece : final[p] = version
    BY <1>6, <1>d DEF Nfc!Return, Nfc!Published, Nfc!Nothing
  <2> QED  BY <1>6, <2>1 DEF Nfc!Return
<1>7. CASE Nfc!PublishFails  BY <1>7 DEF Nfc!PublishFails
<1>8. CASE Nfc!Fail  BY <1>8 DEF Nfc!Fail
<1>9. CASE Nfc!Kill  BY <1>9 DEF Nfc!Kill
<1>10. CASE Nfc!StrayEnds  BY <1>10 DEF Nfc!StrayEnds
<1>11. CASE Nfc!Again  BY <1>11 DEF Nfc!Again
<1>12. CASE UNCHANGED Nfc!vars  BY <1>12 DEF Nfc!vars
<1> QED  BY <1>1, <1>2, <1>3, <1>4, <1>5, <1>6, <1>7, <1>8, <1>9, <1>10, <1>11, <1>12
         DEF Nfc!Next, Nfc!Advance

LEMMA NfcHolds == ComponentsSpec => [](subject = "nfc" => NfcInv)
<1>1. ComponentsInit => (subject = "nfc" => NfcInv)  BY Starts, NfcInit
<1>2. (subject = "nfc" => NfcInv) /\ [ComponentsNext]_all => (subject = "nfc" => NfcInv)'
  BY Steps, NfcNext
<1> QED  BY <1>1, <1>2, PTL DEF ComponentsSpec

\* A step delivers the OVA, reports on it, begins again, or does nothing that
\* can be seen.
LEMMA NfcDelivers ==
    ASSUME NfcInv, NfcInv', [Nfc!Next]_(Nfc!vars)
    PROVE  [Nfc!Promise!Next]_(Nfc!Promise!vars)
<1> DEFINE there == IF ova /\ final[1] # 0 THEN {1} ELSE {}
           told1 == IF ~ova \/ pc # "done" THEN "none"
                    ELSE IF result = "failed" THEN "failed" ELSE "ok"
<1> USE DEF Nfc!call, Nfc!Raise
<1>1. \A x : <<x>> = [f \in {1} |-> x]  OBVIOUS
<1>2. 1 \in Nfc!Piece /\ (ova => Nfc!Piece = {1})  BY NfcBounds DEF Nfc!Piece
<1>s. ASSUME there' = there, told1' = told1 PROVE UNCHANGED Nfc!Promise!vars
  BY <1>s DEF Nfc!Promise!vars
<1>f. ASSUME there' = there, told1 = "none", told1' = "failed" PROVE Nfc!Promise!Next
  <2>1. Nfc!Promise!Fail(1)  BY <1>1, <1>f DEF Nfc!Promise!Fail
  <2> QED  BY <2>1 DEF Nfc!Promise!Next
<1>g. ASSUME there' = there, 1 \in there, told1 = "none", told1' = "ok" PROVE Nfc!Promise!Next
  <2>1. Nfc!Promise!Succeed(1)  BY <1>1, <1>g DEF Nfc!Promise!Succeed
  <2> QED  BY <2>1 DEF Nfc!Promise!Next
<1>3. CASE ~ova
  <2>1. ~ova'
    BY <1>3 DEF Nfc!Next, Nfc!Advance, Nfc!Start, Nfc!Govc, Nfc!Cancel, Nfc!ProgressRaises,
         Nfc!Move, Nfc!Return, Nfc!PublishFails, Nfc!Fail, Nfc!Kill, Nfc!StrayEnds, Nfc!Again,
         Nfc!vars
  <2> QED  BY <1>3, <1>s, <2>1
<1>4. CASE ova
  <2> USE <1>4
  <2>1. CASE Nfc!Start
    <3>1. there' = there  BY <2>1 DEF Nfc!Start
    <3>2. CASE pc' # "done"  BY <1>s, <2>1, <3>1, <3>2 DEF Nfc!Start
    <3>3. CASE pc' = "done" /\ result' = "failed"  BY <1>f, <2>1, <3>1, <3>3 DEF Nfc!Start
    <3>4. CASE pc' = "done" /\ result' # "failed"
      <4>1. final[1] # 0 /\ result' = "present"
        BY <2>1, <3>4 DEF Nfc!Start, Nfc!Present, Nfc!Descriptor
      <4> QED  BY <1>g, <2>1, <3>1, <3>4, <4>1 DEF Nfc!Start
    <3> QED  BY <3>2, <3>3, <3>4
  <2>2. CASE Nfc!Cancel  BY <1>f, <2>2 DEF Nfc!Cancel
  <2>3. ASSUME NEW p \in Nfc!Piece, Nfc!Move(p) PROVE Nfc!Promise!Next
    <3>1. p = 1 /\ told1' = told1  BY <1>2, <2>3 DEF Nfc!Move
    <3>2. final'[1] # 0
      BY <2>3, <3>1 DEF Nfc!Move, NfcInv, NfcTyped, Nfc!TypeOK
    <3>3. ova' = ova  BY <2>3 DEF Nfc!Move
    <3>4. there' = there \cup {1}  BY <3>2, <3>3
    <3>5. Nfc!Promise!Deliver(1)  BY <3>1, <3>4 DEF Nfc!Promise!Deliver
    <3> QED  BY <3>5 DEF Nfc!Promise!Next
  <2>4. CASE Nfc!Return
    <3>1. final[1] = version /\ version # 0
      BY <1>2, <2>4 DEF Nfc!Return, Nfc!Published, Nfc!Nothing, NfcInv, NfcTyped, Nfc!TypeOK,
           Nfc!Versions, Publishing
    <3> QED  BY <1>g, <2>4, <3>1 DEF Nfc!Return
  <2>5. CASE Nfc!Fail
    <3>1. CASE pc' = "done" /\ result' = "failed"  BY <1>f, <2>5, <3>1 DEF Nfc!Fail
    <3>2. CASE pc' = "govc"  BY <1>s, <2>5, <3>2 DEF Nfc!Fail
    <3> QED  BY <2>5, <3>1, <3>2 DEF Nfc!Fail
  <2>6. CASE Nfc!Again
    <3>1. there' = there /\ told1' = "none"  BY <2>6 DEF Nfc!Again
    <3>2. Nfc!Promise!Again  BY <1>1, <3>1 DEF Nfc!Promise!Again
    <3> QED  BY <3>2 DEF Nfc!Promise!Next
  <2>7. CASE \/ Nfc!Govc \/ Nfc!ProgressRaises \/ Nfc!PublishFails \/ Nfc!Kill \/ Nfc!StrayEnds
            \/ UNCHANGED Nfc!vars
    <3>1. there' = there /\ told1' = told1
      BY <2>7 DEF Nfc!Govc, Nfc!ProgressRaises, Nfc!PublishFails, Nfc!Kill, Nfc!StrayEnds, Nfc!vars
    <3> QED  BY <1>s, <3>1
  <2> QED  BY <2>1, <2>2, <2>3, <2>4, <2>5, <2>6, <2>7 DEF Nfc!Next, Nfc!Advance
<1> QED  BY <1>3, <1>4

LEMMA NfcDeliveryInit == ASSUME Nfc!Init PROVE Nfc!Promise!Init
BY DEF Nfc!Init, Nfc!Nothing, Nfc!Piece, Nfc!Promise!Init

\* An export by govc that was made, not found, is the VM as it is now, all of
\* it, for any number of pieces, attempts and earlier exports, failed, cancelled
\* or killed anywhere (GovcNfcExporter.export).
THEOREM ExportsAreNow == ComponentsSpec => []ExportedNow
<1>1. (subject = "nfc" => NfcInv) => ExportedNow  BY DEF NfcInv, ExportedNow
<1> QED  BY <1>1, NfcHolds, PTL

-----------------------------------------------------------------------------
(* SmokeTest: what the tests see, and leave.                               *)

\* From define on the domain is that of this run: a name that is taken cannot
\* be defined.
OwnDomain == pc \in {"start", "wait"} => domain = run

SmokeInv == OwnDomain /\ Smoke!PassedOnOwn /\ Smoke!LeftNothing

LEMMA SmokeInit == ASSUME Smoke!Init PROVE SmokeInv
BY DEF Smoke!Init, SmokeInv, OwnDomain, Smoke!PassedOnOwn, Smoke!LeftNothing

LEMMA SmokeNext == ASSUME SmokeInv, [Smoke!Next]_(Smoke!vars) PROVE SmokeInv'
<1> USE DEF SmokeInv, OwnDomain, Smoke!PassedOnOwn, Smoke!LeftNothing, Smoke!call, Smoke!virt,
        Smoke!bare, Smoke!Raise, Smoke!Fails
<1>1. CASE Smoke!Prepare  BY <1>1 DEF Smoke!Prepare
<1>2. CASE Smoke!WriteXml  BY <1>2 DEF Smoke!WriteXml
<1>3. CASE Smoke!Sweep  BY <1>3 DEF Smoke!Sweep
<1>4. CASE Smoke!Define  BY <1>4 DEF Smoke!Define, Smoke!Goes, Smoke!Undefined
<1>5. CASE Smoke!StartDomain  BY <1>5 DEF Smoke!StartDomain
<1>6. CASE Smoke!Wait  BY <1>6 DEF Smoke!Wait
<1>7. CASE Smoke!Finish  BY <1>7 DEF Smoke!Finish, Smoke!Unlinked
<1>8. CASE Smoke!Skip  BY <1>8 DEF Smoke!Skip
<1>9. CASE Smoke!Copy  BY <1>9 DEF Smoke!Copy
<1>10. CASE Smoke!Launch  BY <1>10 DEF Smoke!Launch
<1>11. CASE Smoke!Reap  BY <1>11 DEF Smoke!Reap
<1>12. CASE Smoke!GuestStops  BY <1>12 DEF Smoke!GuestStops
<1>13. CASE Smoke!Kill  BY <1>13 DEF Smoke!Kill
<1>14. CASE Smoke!Again  BY <1>14 DEF Smoke!Again, Smoke!Ended
<1>15. CASE UNCHANGED Smoke!vars  BY <1>15 DEF Smoke!vars
<1> QED  BY <1>1, <1>2, <1>3, <1>4, <1>5, <1>6, <1>7, <1>8, <1>9, <1>10, <1>11, <1>12,
            <1>13, <1>14, <1>15 DEF Smoke!Next, Smoke!Advance

\* A test that passes has seen the image of its own run, after any number of
\* runs that kept their domain, failed or were killed, and one that answers its
\* virsh leaves nothing behind (LibvirtTest.run).
THEOREM SmokeIsOwn == ComponentsSpec => []SmokeTrue
<1>1. ComponentsInit => (subject = "smoke" => SmokeInv)  BY Starts, SmokeInit
<1>2. (subject = "smoke" => SmokeInv) /\ [ComponentsNext]_all
      => (subject = "smoke" => SmokeInv)'
  BY Steps, SmokeNext
<1>3. (subject = "smoke" => SmokeInv) => SmokeTrue  BY DEF SmokeInv, SmokeTrue
<1> QED  BY <1>1, <1>2, <1>3, PTL DEF ComponentsSpec

-----------------------------------------------------------------------------
(* LiveFixer: the lines of /etc/fstab and /etc/default/grub, and what the  *)
(* boot loader uses.                                                       *)

\* What is to be written to /etc/fstab is what is there but for the names, and
\* /etc/default/grub is a sequence of lines.
LiveFiles ==
    /\ fstab \in Seq({"bypath", "stable", "other"})
    /\ newFstab \in Seq({"bypath", "stable", "other"})
    /\ pc = "write" => Live!Renamed(fstab, newFstab)
    /\ DOMAIN grub = 1..Len(grub) /\ Len(grub) \in Nat

\* The file is updated only between root and regen, and what is generated then
\* stays what the file says.
Regenerated ==
    /\ pc \in {"check", "fstab", "write", "tools", "map", "root"} => ~updated
    /\ pc \in {"post", "done"} /\ updated /\ ~lost /\ ~lopt.dryRun /\ guest.generator =>
           cfg = Live!InEffect(grub)

LiveInv == LiveFiles /\ Regenerated

LEMMA LiveBounds ==
    /\ \A f \in Fstabs : f \in Seq({"bypath", "stable", "other"})
    /\ \A g \in Grubs : DOMAIN g = 1..Len(g) /\ Len(g) \in Nat
<1>1. ASSUME NEW g \in Grubs PROVE DOMAIN g = 1..Len(g) /\ Len(g) \in Nat
  <2> DEFINE S == {g[i] : i \in DOMAIN g}
  <2>1. g \in Seq(S)  BY ComponentsAssumption DEF Live!LiveAssumption
  <2> HIDE DEF S
  <2> QED  BY <2>1
<1> QED  BY <1>1, ComponentsAssumption DEF Live!LiveAssumption

LEMMA LiveInit == ASSUME Live!Init PROVE LiveInv
BY LiveBounds DEF Live!Init, LiveInv, LiveFiles, Regenerated

\* Rewriting /etc/fstab changes by-path names only.
LEMMA RewriteKeeps ==
    ASSUME NEW f \in Seq({"bypath", "stable", "other"}), NEW known
    PROVE  /\ Live!Rewritten(f, known) \in Seq({"bypath", "stable", "other"})
           /\ Live!Renamed(f, Live!Rewritten(f, known))
BY DEF Live!Rewritten, Live!Renamed

\* Updating /etc/default/grub keeps the key and the options of each line.
LEMMA PatchKeeps ==
    ASSUME DOMAIN grub = 1..Len(grub), Len(grub) \in Nat
    PROVE  LET g == Live!NewGrub IN
           DOMAIN g = 1..Len(g) /\ Len(g) \in Nat /\ Live!Extended(grub, g)
<1>1. /\ DOMAIN Live!Patched(grub) = 1..Len(grub) /\ Len(Live!Patched(grub)) = Len(grub)
      /\ Live!Extended(grub, Live!Patched(grub))
  BY DEF Live!Patched, Live!Extended
<1> DEFINE line == [key |-> "linux", opts |-> {}, root |-> "stable"]
<1> HIDE DEF line
<1>2. /\ DOMAIN Append(grub, line) = 1..(Len(grub) + 1) /\ Len(Append(grub, line)) = Len(grub) + 1
      /\ \A i \in DOMAIN grub : Append(grub, line)[i] = grub[i]
  OBVIOUS
<1>3. Live!Extended(grub, Append(grub, line))  BY <1>2 DEF Live!Extended
<1> QED  BY <1>1, <1>2, <1>3 DEF Live!NewGrub, line

\* What a move that broke off may leave is a sequence of lines all the same.
LEMMA PartOf ==
    ASSUME NEW g, DOMAIN g = 1..Len(g), Len(g) \in Nat, NEW k \in 0..(Len(g) - 1)
    PROVE  LET p == SubSeq(g, 1, k) IN DOMAIN p = 1..Len(p) /\ Len(p) \in Nat
OBVIOUS

\* A step keeps what is known of the two files, and every line of theirs.
LEMMA LiveFilesNext ==
    ASSUME LiveFiles, [Live!Next]_(Live!liveVars)
    PROVE  LiveFiles' /\ Live!LinesStay
<1> DEFINE Devices == {"bypath", "stable", "other"}
<1> USE DEF LiveFiles, Live!LinesStay, Live!still, Live!Go, Live!Raise
<1>u. Live!Renamed(fstab, fstab) /\ Live!Extended(grub, grub)
  BY DEF Live!Renamed, Live!Extended
<1>1. CASE Live!RewriteFstab
  <2>1. PICK known : newFstab' = Live!Rewritten(fstab, known)  BY <1>1 DEF Live!RewriteFstab
  <2>2. newFstab' \in Seq(Devices) /\ Live!Renamed(fstab, newFstab')  BY <2>1, RewriteKeeps
  <2>3. UNCHANGED <<fstab, grub>>  BY <1>1 DEF Live!RewriteFstab
  <2>4. Live!Renamed(fstab', newFstab')  BY <2>2, <2>3
  <2> QED  BY <2>2, <2>3, <2>4, <1>u
<1>2. CASE Live!WriteFstab
  <2>1. pc' # "write" /\ UNCHANGED <<grub, newFstab>>  BY <1>2 DEF Live!WriteFstab
  <2>2. Live!Renamed(fstab, newFstab)  BY <1>2 DEF Live!WriteFstab
  <2>3. CASE fstab' \in {fstab, newFstab}
    <3>1. fstab' \in Seq(Devices) /\ Live!Renamed(fstab, fstab')  BY <2>2, <2>3, <1>u
    <3> QED  BY <2>1, <3>1, <1>u
  <2>4. CASE fstab' \notin {fstab, newFstab}
    <3>1. PICK k \in 0..(Len(newFstab) - 1) : fstab' = SubSeq(newFstab, 1, k)
      BY <1>2, <2>4 DEF Live!WriteFstab, Live!AfterFailure
    <3>2. fstab' \in Seq(Devices)  BY <3>1
    <3>3. "fstab" \in cut'  BY <1>2, <2>4 DEF Live!WriteFstab, Live!CutBy
    <3> QED  BY <2>1, <3>2, <3>3, <1>u
  <2> QED  BY <2>3, <2>4
<1>3. CASE Live!UpdateRoot
  <2>1. pc' # "write" /\ UNCHANGED <<fstab, newFstab>>  BY <1>3 DEF Live!UpdateRoot
  <2>2. UNCHANGED grub \/ \E fails \in BOOLEAN : ~lopt.dryRun /\ Live!WriteGrub(fails)
    BY <1>3 DEF Live!UpdateRoot, Live!WriteGrub
  <2>3. CASE grub' \in {grub, Live!NewGrub}
    <3>1. DOMAIN grub' = 1..Len(grub') /\ Len(grub') \in Nat /\ Live!Extended(grub, grub')
      BY <2>3, PatchKeeps, <1>u
    <3> QED  BY <2>1, <3>1, <1>u
  <2>4. CASE grub' \notin {grub, Live!NewGrub}
    <3>1. grub' \in Live!AfterFailure(grub, Live!NewGrub)
      BY <2>2, <2>4 DEF Live!WriteGrub
    <3>2. PICK k \in 0..(Len(Live!NewGrub) - 1) : grub' = SubSeq(Live!NewGrub, 1, k)
      BY <3>1, <2>4 DEF Live!AfterFailure
    <3>3. DOMAIN grub' = 1..Len(grub') /\ Len(grub') \in Nat  BY <3>2, PatchKeeps, PartOf
    <3>4. "grub" \in cut'  BY <2>2, <2>4 DEF Live!WriteGrub, Live!CutBy
    <3> QED  BY <2>1, <3>3, <3>4, <1>u
  <2> QED  BY <2>3, <2>4
<1>s. ASSUME UNCHANGED <<fstab, grub, newFstab>>, pc' = "write" => pc = "write"
      PROVE  LiveFiles' /\ Live!LinesStay
  BY <1>s, <1>u
<1>4. CASE Live!Check  BY <1>4, <1>s DEF Live!Check
<1>6. CASE Live!RemoveTools  BY <1>6, <1>s DEF Live!RemoveTools
<1>7. CASE Live!DeviceMap  BY <1>7, <1>s DEF Live!DeviceMap
<1>8. CASE Live!Regen  BY <1>8, <1>s DEF Live!Regen
<1>9. CASE Live!Postcheck  BY <1>9, <1>s DEF Live!Postcheck
<1>10. CASE Live!Breaks  BY <1>10, <1>s DEF Live!Breaks, Live!Lost
<1>11. CASE UNCHANGED Live!liveVars  BY <1>11, <1>s DEF Live!liveVars
<1>5. CASE Live!Again
  <2>1. <<>> \in Seq(Devices)  OBVIOUS
  <2>2. UNCHANGED <<fstab, grub>> /\ newFstab' = <<>> /\ pc' = "check"
    BY <1>5 DEF Live!Again
  <2> QED  BY <2>1, <2>2, <1>u
<1> QED  BY <1>1, <1>2, <1>3, <1>4, <1>5, <1>6, <1>7, <1>8, <1>9, <1>10, <1>11
         DEF Live!Next, Live!Advance

LEMMA LiveNext == ASSUME LiveInv, [Live!Next]_(Live!liveVars) PROVE LiveInv'
<1>1. LiveFiles'  BY LiveFilesNext DEF LiveInv
<1> USE DEF LiveInv, Regenerated, Live!still, Live!Go, Live!Raise
<1>2. CASE Live!Check  BY <1>1, <1>2 DEF Live!Check
<1>3. CASE Live!RewriteFstab  BY <1>1, <1>3 DEF Live!RewriteFstab
<1>4. CASE Live!WriteFstab  BY <1>1, <1>4 DEF Live!WriteFstab
<1>5. CASE Live!RemoveTools  BY <1>1, <1>5 DEF Live!RemoveTools
<1>6. CASE Live!DeviceMap  BY <1>1, <1>6 DEF Live!DeviceMap
<1>7. CASE Live!UpdateRoot  BY <1>1, <1>7 DEF Live!UpdateRoot
<1>8. CASE Live!Regen  BY <1>1, <1>8 DEF Live!Regen, Live!Regenerates
<1>9. CASE Live!Postcheck  BY <1>1, <1>9 DEF Live!Postcheck
<1>10. CASE Live!Breaks  BY <1>1, <1>10 DEF Live!Breaks, Live!Lost
<1>11. CASE Live!Again  BY <1>1, <1>11 DEF Live!Again
<1>12. CASE UNCHANGED Live!liveVars  BY <1>1, <1>12 DEF Live!liveVars
<1> QED  BY <1>2, <1>3, <1>4, <1>5, <1>6, <1>7, <1>8, <1>9, <1>10, <1>11, <1>12
         DEF Live!Next, Live!Advance

LEMMA LiveHolds == ComponentsSpec => [](subject = "live" => LiveInv)
<1>1. ComponentsInit => (subject = "live" => LiveInv)  BY Starts, LiveInit
<1>2. (subject = "live" => LiveInv) /\ [ComponentsNext]_all => (subject = "live" => LiveInv)'
  BY Steps, LiveNext
<1> QED  BY <1>1, <1>2, PTL DEF ComponentsSpec

\* A run of the live fixer that has updated /etc/default/grub, lost no connection
\* and had a generator that works leaves a boot loader that uses the file as it
\* is, for any files, options and number of runs (LiveGrubFixer.regen).
THEOREM BootLoaderFollows == ComponentsSpec => []Generated
<1>1. (subject = "live" => LiveInv) => Generated
  BY DEF LiveInv, Regenerated, Generated, Live!Generated
<1> QED  BY <1>1, LiveHolds, PTL

\* An option of the kernel that is in effect is lost in one way only, by the line
\* that is added where no line changes: patched lines keep their keys and options,
\* so what counts of the file stays what it was (update_grub_root).
THEOREM OptionsLostByLines ==
    ComponentsSpec => [][subject = "live" /\ Len(grub') = Len(grub) => Live!OptionsStay]_all
<1>1. ASSUME DOMAIN grub = 1..Len(grub), Len(grub) \in Nat, grub' = Live!Patched(grub)
      PROVE  Live!OptionsStay
  <2>1. /\ DOMAIN grub' = DOMAIN grub
        /\ \A i \in DOMAIN grub : grub'[i].key = grub[i].key /\ grub'[i].opts = grub[i].opts
    BY <1>1 DEF Live!Patched
  <2>2. ASSUME NEW key, NEW line \in Live!Line(grub, key)
        PROVE  \E new \in Live!Line(grub', key) : new.opts = line.opts
    <3> DEFINE of == {i \in DOMAIN grub : grub[i].key = key}
               last == CHOOSE i \in of : \A j \in of : j <= i
    <3>1. of = {i \in DOMAIN grub' : grub'[i].key = key}  BY <2>1
    <3>2. of # {} /\ line = grub[last] /\ last \in of
      <4>1. of # {} /\ line = grub[last]  BY <2>2 DEF Live!Line
      <4>2. of \subseteq 1..Len(grub)  BY <1>1
      <4>3. \E i \in of : \A j \in of : j <= i
        <5> HIDE DEF of
        <5> QED  BY <1>1, <4>1, <4>2, Greatest
      <4> QED  BY <4>1, <4>3
    <3>3. Live!Line(grub', key) = {grub'[last]}  BY <3>1, <3>2 DEF Live!Line
    <3> QED  BY <2>1, <3>2, <3>3
  <2> QED  BY <2>2 DEF Live!OptionsStay, Live!Kernel, Live!InEffect
<1>2. ASSUME LiveFiles, [Live!Next]_(Live!liveVars), Len(grub') = Len(grub)
      PROVE  Live!OptionsStay
  <2>1. UNCHANGED grub => Live!OptionsStay  BY DEF Live!OptionsStay
  <2>2. UNCHANGED grub \/ grub' = Live!NewGrub \/ "grub" \in cut'
    BY <1>2 DEF Live!Next, Live!Advance, Live!Check, Live!RewriteFstab, Live!WriteFstab,
         Live!RemoveTools, Live!DeviceMap, Live!UpdateRoot, Live!WriteGrub, Live!CutBy,
         Live!Regen, Live!Postcheck, Live!Breaks, Live!Again, Live!liveVars, Live!still
  <2>3. DOMAIN grub = 1..Len(grub) /\ Len(grub) \in Nat  BY <1>2 DEF LiveFiles
  <2>4. grub' = Live!NewGrub => grub' = Live!Patched(grub)
    <3> DEFINE line == [key |-> "linux", opts |-> {}, root |-> "stable"]
    <3> HIDE DEF line
    <3>1. Len(Append(grub, line)) = Len(grub) + 1  BY <2>3
    <3>2. \A n \in Nat : n + 1 # n  OBVIOUS
    <3>3. Len(Append(grub, line)) # Len(grub)  BY <2>3, <3>1, <3>2, Zenon
    <3> QED  BY <1>2, <3>3 DEF Live!NewGrub, line
  <2>5. "grub" \in cut' => Live!OptionsStay  BY DEF Live!OptionsStay
  <2> QED  BY <1>1, <2>1, <2>2, <2>3, <2>4, <2>5
<1>3. (subject = "live" => LiveInv) /\ [ComponentsNext]_all
      => [subject = "live" /\ Len(grub') = Len(grub) => Live!OptionsStay]_all
  BY <1>2, Steps DEF LiveInv
<1> QED  BY <1>3, LiveHolds, PTL DEF ComponentsSpec

-----------------------------------------------------------------------------
(* QemuConvert: the image under its name.                                  *)

\* Files are told apart by inode: ours is the part, nobody else writes to it,
\* and it is not the image; what is to be renamed is whole.
OwnPart ==
    /\ inodes \in Nat /\ part \in 0..inodes /\ mine \in 0..inodes /\ image \in 0..inodes
    /\ orphans \subseteq 1..inodes
    /\ mine # 0 => pc = "running" /\ mine = part
    /\ pc = "running" /\ mine = 0 => part = 0
    /\ mine # 0 => mine \notin orphans
    /\ part # 0 => part # image
    /\ pc = "replace" => part # 0 /\ part \in whole \ orphans
    /\ result \in {"none", "ok", "failed"} /\ (result # "none" <=> pc = "done")

\* A sequence of options that asks for less with every entry, down to the last.
Down(s, last) ==
    /\ s \in Seq(Image!Options) /\ s # <<>> /\ s[Len(s)] = last
    /\ \A i, j \in 1..Len(s) : i < j => s[i] # s[j] /\ Image!AtLeast(s[i], s[j])
NoOptions == [cache |-> FALSE, threads |-> FALSE, ctype |-> "none", level |-> FALSE,
            prealloc |-> FALSE]
Planned == job \in Conversions /\ (plan # <<>> => Down(plan, NoOptions))

\* What it is to ask for as much, in every respect.
LEMMA AtLeastIs ==
    ASSUME NEW o \in Image!Options, NEW p \in Image!Options
    PROVE  Image!AtLeast(o, p) <=>
             /\ p.cache => o.cache
             /\ p.threads => o.threads
             /\ p.ctype # "none" => o.ctype # "none"
             /\ p.ctype = "zstd" => o.ctype = "zstd"
             /\ p.level => o.level
             /\ p.prealloc => o.prealloc
<1> DEFINE T(q) == CASE q.ctype = "zstd" -> 2 [] q.ctype = "zlib" -> 1 [] q.ctype = "none" -> 0
<1>1. /\ o.cache \in BOOLEAN /\ o.threads \in BOOLEAN /\ o.level \in BOOLEAN
      /\ o.prealloc \in BOOLEAN /\ o.ctype \in {"zstd", "zlib", "none"}
      /\ p.cache \in BOOLEAN /\ p.threads \in BOOLEAN /\ p.level \in BOOLEAN
      /\ p.prealloc \in BOOLEAN /\ p.ctype \in {"zstd", "zlib", "none"}
  BY DEF Image!Options
<1>2. Image!AtLeast(o, p) <=>
        /\ Image!Rank(o)[1] >= Image!Rank(p)[1] /\ Image!Rank(o)[2] >= Image!Rank(p)[2]
        /\ Image!Rank(o)[3] >= Image!Rank(p)[3] /\ Image!Rank(o)[4] >= Image!Rank(p)[4]
        /\ Image!Rank(o)[5] >= Image!Rank(p)[5]
  BY DEF Image!AtLeast
<1>3. \A q : /\ Image!Rank(q)[1] = (IF q.cache THEN 1 ELSE 0)
             /\ Image!Rank(q)[2] = (IF q.threads THEN 1 ELSE 0)
             /\ Image!Rank(q)[3] = T(q)
             /\ Image!Rank(q)[4] = (IF q.level THEN 1 ELSE 0)
             /\ Image!Rank(q)[5] = (IF q.prealloc THEN 1 ELSE 0)
  BY DEF Image!Rank
<1>4. T(o) >= T(p) <=> /\ p.ctype # "none" => o.ctype # "none"
                       /\ p.ctype = "zstd" => o.ctype = "zstd"
  BY <1>1
<1> QED  BY <1>1, <1>2, <1>3, <1>4

\* Two sets of options that ask for as much as each other are the same.
LEMMA SameOptions ==
    ASSUME NEW o \in Image!Options, NEW p \in Image!Options,
           Image!AtLeast(o, p), Image!AtLeast(p, o)
    PROVE  o = p
<1>1. /\ o.cache = p.cache /\ o.threads = p.threads /\ o.ctype = p.ctype
      /\ o.level = p.level /\ o.prealloc = p.prealloc
  BY AtLeastIs DEF Image!Options
<1> QED  BY <1>1 DEF Image!Options

\* What emit does to such a sequence, of options that ask for no more than its last.
LEMMA EmitGoesDown ==
    ASSUME NEW s, NEW b \in Image!Options, NEW o \in Image!Options, NEW c \in BOOLEAN,
           Down(s, b), c => Image!AtLeast(b, o)
    PROVE  Down(Image!Emit(c, s, o), IF c THEN o ELSE b)
<1> USE DEF Down
<1>1. CASE ~c  BY <1>1 DEF Image!Emit
<1>2. CASE c /\ \E i \in 1..Len(s) : s[i] = o
  <2>1. PICK i \in 1..Len(s) : s[i] = o  BY <1>2
  <2>2. i = Len(s)
    <3>1. SUFFICES ASSUME i < Len(s) PROVE FALSE  BY <2>1
    <3>2. o # b /\ Image!AtLeast(o, b)  BY <2>1, <3>1
    <3> QED  BY <1>2, <3>2, SameOptions
  <2> QED  BY <1>2, <2>1, <2>2 DEF Image!Emit
<1>3. CASE c /\ \A i \in 1..Len(s) : s[i] # o
  <2> DEFINE t == Append(s, o)
  <2>1. Image!Emit(c, s, o) = t  BY <1>3 DEF Image!Emit
  <2>2. /\ t \in Seq(Image!Options) /\ Len(t) = Len(s) + 1 /\ t[Len(t)] = o
        /\ \A i \in 1..Len(s) : t[i] = s[i]
    OBVIOUS
  <2>3. \A i \in 1..Len(s) : s[i] # o /\ Image!AtLeast(s[i], o)
    <3> SUFFICES ASSUME NEW i \in 1..Len(s) PROVE Image!AtLeast(s[i], o)  BY <1>3
    <3>1. s[i] \in Image!Options /\ Image!AtLeast(b, o)  BY <1>3
    <3>2. CASE i = Len(s)  BY <3>1, <3>2
    <3>3. CASE i < Len(s)
      <4>1. Image!AtLeast(s[i], b)  BY <3>3
      <4> QED  BY <3>1, <4>1, AtLeastIs
    <3> QED  BY <3>2, <3>3
  <2>4. ASSUME NEW i \in 1..Len(t), NEW j \in 1..Len(t), i < j
        PROVE  t[i] # t[j] /\ Image!AtLeast(t[i], t[j])
    BY <2>2, <2>3, <2>4
  <2>5. t # <<>>  BY <2>2
  <2> HIDE DEF t
  <2> QED  BY <1>3, <2>1, <2>2, <2>4, <2>5
<1> QED  BY <1>1, <1>2, <1>3

\* The plan that is made goes down to nothing, whatever is asked for.
LEMMA PlanMade ==
    ASSUME job \in Conversions
    PROVE  Down(Image!Plan, NoOptions)
<1> DEFINE base == job.base
           P == job.qcow2 /\ job.compress
           still == [base EXCEPT !.threads = FALSE]
           zlib == [still EXCEPT !.ctype = "zlib"]
           plain == [still EXCEPT !.ctype = "none"]
           loose == [plain EXCEPT !.level = FALSE]
           cached == [(IF P THEN loose ELSE still) EXCEPT !.cache = FALSE]
           c1 == base.threads
           c2 == P /\ base.ctype = "zstd"
           c4 == P /\ base.level
           p1 == Image!Emit(c1, <<base>>, still)
           p2 == Image!Emit(c2, p1, zlib)
           p3 == Image!Emit(P, p2, plain)
           p4 == Image!Emit(c4, p3, loose)
           p5 == Image!Emit(base.cache, p4, cached)
           b1 == IF c1 THEN still ELSE base
           b2 == IF c2 THEN zlib ELSE b1
           b3 == IF P THEN plain ELSE b2
           b4 == IF c4 THEN loose ELSE b3
           b5 == IF base.cache THEN cached ELSE b4
<1>1. base \in Image!Options /\ job.qcow2 \in BOOLEAN /\ job.compress \in BOOLEAN
  BY ComponentsAssumption DEF Image!ConvertAssumption
<1>2. /\ still \in Image!Options /\ zlib \in Image!Options /\ plain \in Image!Options
      /\ loose \in Image!Options /\ cached \in Image!Options /\ NoOptions \in Image!Options
  BY <1>1 DEF Image!Options, NoOptions
<1>3. c1 \in BOOLEAN /\ c2 \in BOOLEAN /\ P \in BOOLEAN /\ c4 \in BOOLEAN
      /\ base.cache \in BOOLEAN
  BY <1>1 DEF Image!Options
<1>4. /\ b1 = still /\ b2 \in Image!Options /\ b3 \in Image!Options /\ b4 \in Image!Options
      /\ b5 \in Image!Options
  BY <1>1, <1>2 DEF Image!Options
<1>5. /\ Image!AtLeast(base, still)
      /\ c2 => Image!AtLeast(b1, zlib)
      /\ P => Image!AtLeast(b2, plain)
      /\ c4 => Image!AtLeast(b3, loose)
      /\ base.cache => Image!AtLeast(b4, cached)
      /\ Image!AtLeast(b5, NoOptions)
  <2> DEFINE Drops(q, o) == /\ q.cache = o.cache /\ ~q.threads /\ q.prealloc = o.prealloc
  <2>1. /\ Drops(still, base) /\ still.ctype = base.ctype /\ still.level = base.level
        /\ Drops(zlib, base) /\ zlib.ctype = "zlib" /\ zlib.level = base.level
        /\ Drops(plain, base) /\ plain.ctype = "none" /\ plain.level = base.level
        /\ Drops(loose, base) /\ loose.ctype = "none" /\ loose.level = FALSE
        /\ ~cached.cache /\ ~cached.threads /\ cached.prealloc = base.prealloc
        /\ cached.ctype = IF P THEN "none" ELSE base.ctype
        /\ cached.level = IF P THEN FALSE ELSE base.level
    BY <1>1 DEF Image!Options
  <2>2. /\ ~NoOptions.cache /\ ~NoOptions.threads /\ NoOptions.ctype = "none"
        /\ ~NoOptions.level /\ ~NoOptions.prealloc
    BY DEF NoOptions
  <2> HIDE DEF base, P, still, zlib, plain, loose, cached
  <2>3. Image!AtLeast(base, still)  BY <1>1, <1>2, <2>1, AtLeastIs
  <2>4. c2 => Image!AtLeast(b1, zlib)  BY <1>1, <1>2, <1>4, <2>1, AtLeastIs
  <2>5. P => Image!AtLeast(b2, plain)
    <3>1. b2 = still \/ b2 = zlib  BY <1>4
    <3> QED  BY <1>1, <1>2, <2>1, <3>1, AtLeastIs
  <2>6. c4 => Image!AtLeast(b3, loose)
    <3>1. P => b3 = plain  OBVIOUS
    <3> QED  BY <1>1, <1>2, <2>1, <3>1, AtLeastIs
  <2>7. base.cache => Image!AtLeast(b4, cached)
    <3>1. CASE P
      <4>1. b4 = loose \/ (b4 = plain /\ ~base.level)  BY <3>1
      <4> QED  BY <1>1, <1>2, <2>1, <3>1, <4>1, AtLeastIs
    <3>2. CASE ~P
      <4>1. b4 = still  BY <1>4, <3>2
      <4> QED  BY <1>1, <1>2, <2>1, <3>2, <4>1, AtLeastIs
    <3> QED  BY <3>1, <3>2
  <2>8. Image!AtLeast(b5, NoOptions)
    <3> HIDE DEF b5
    <3> QED  BY <1>2, <1>4, <2>2, AtLeastIs
  <2> QED  BY <2>3, <2>4, <2>5, <2>6, <2>7, <2>8
<1>6. Down(<<base>>, base)  BY <1>1 DEF Down
<1>7. Image!Plan = Image!Emit(TRUE, p5, NoOptions)  BY DEF Image!Plan, Image!Packed, NoOptions
<1> HIDE DEF base, P, still, zlib, plain, loose, cached, c1, c2, c4
<1>11. Down(p1, b1)  BY <1>1, <1>2, <1>3, <1>5, <1>6, EmitGoesDown
<1> HIDE DEF p1, b1
<1>12. Down(p2, b2)  BY <1>1, <1>2, <1>3, <1>4, <1>5, <1>11, EmitGoesDown
<1> HIDE DEF p2, b2
<1>13. Down(p3, b3)  BY <1>2, <1>3, <1>4, <1>5, <1>12, EmitGoesDown
<1> HIDE DEF p3, b3
<1>14. Down(p4, b4)  BY <1>2, <1>3, <1>4, <1>5, <1>13, EmitGoesDown
<1> HIDE DEF p4, b4
<1>15. Down(p5, b5)  BY <1>2, <1>3, <1>4, <1>5, <1>14, EmitGoesDown
<1> HIDE DEF p5, b5
<1>16. Down(Image!Emit(TRUE, p5, NoOptions), IF TRUE THEN NoOptions ELSE b5)
  BY <1>2, <1>4, <1>5, <1>15, EmitGoesDown
<1> QED  BY <1>7, <1>16

ImageInv == OwnPart /\ Image!Settled /\ Planned

LEMMA ImageInit == ASSUME Image!Init PROVE ImageInv
BY DEF Image!Init, ImageInv, OwnPart, Image!Settled, Planned

LEMMA ImageNext == ASSUME ImageInv, [Image!Next]_(Image!vars) PROVE ImageInv'
<1>p. Planned'
  <2> USE DEF ImageInv, Planned, Down
  <2>1. CASE Image!Info
    <3>1. UNCHANGED job /\ (plan' = Image!Plan \/ UNCHANGED plan)
      BY <2>1 DEF Image!Info, Image!call, Image!Raise
    <3> QED  BY <3>1, PlanMade
  <2>2. CASE Image!Again  BY <2>2 DEF Image!Again
  <2>3. CASE UNCHANGED <<plan, job>>  BY <2>3
  <2> QED  BY <2>1, <2>2, <2>3 DEF Image!Next, Image!Advance, Image!Start, Image!Create,
        Image!Poll, Image!Succeeds, Image!Fails, Image!Replace, Image!Interrupt, Image!Kill,
        Image!OrphanEnds, Image!call, Image!Raise, Image!vars
<1> USE <1>p DEF ImageInv, OwnPart, Image!Settled, Image!call, Image!files, Image!Raise
<1>1. CASE Image!Info  BY <1>1 DEF Image!Info
<1>2. CASE Image!Start  BY <1>2 DEF Image!Start, Image!Cleared
<1>3. CASE Image!Create  BY <1>3 DEF Image!Create
<1>4. CASE Image!Poll  BY <1>4 DEF Image!Poll
<1>5. CASE Image!Succeeds  BY <1>5 DEF Image!Succeeds
<1>6. CASE Image!Fails  BY <1>6 DEF Image!Fails
<1>7. CASE Image!Replace  BY <1>7 DEF Image!Replace
<1>8. CASE Image!Interrupt  BY <1>8 DEF Image!Interrupt
<1>9. CASE Image!Kill  BY <1>9 DEF Image!Kill
<1>10. CASE Image!OrphanEnds  BY <1>10 DEF Image!OrphanEnds
<1>11. CASE Image!Again  BY <1>11 DEF Image!Again
<1>12. CASE UNCHANGED Image!vars  BY <1>12 DEF Image!vars
<1> QED  BY <1>1, <1>2, <1>3, <1>4, <1>5, <1>6, <1>7, <1>8, <1>9, <1>10, <1>11, <1>12
         DEF Image!Next, Image!Advance

\* The abstract specification.
LEMMA ImageDeliveryInit == ASSUME Image!Init PROVE Image!Promise!Init
<1>1. <<"none">> = [f \in {1} |-> "none"]  OBVIOUS
<1> QED  BY <1>1 DEF Image!Init, Image!There, Image!Promise!Init

LEMMA ImageDelivers ==
    ASSUME ImageInv, ImageInv', [Image!Next]_(Image!vars)
    PROVE  [Image!Promise!Next]_(Image!Promise!vars)
<1> DEFINE there == IF Image!There THEN {1} ELSE {}
<1> USE DEF Image!call, Image!files, Image!progress, Image!Raise
<1>0. \A x : <<x>> = [f \in {1} |-> x]  OBVIOUS
<1>a. ASSUME image' = image PROVE there' = there
  <2>1. Image!There <=> image # 0  BY DEF ImageInv, Image!Settled, Image!There
  <2>2. Image!There' <=> image' # 0  BY DEF ImageInv, Image!Settled, Image!There
  <2> QED  BY <1>a, <2>1, <2>2
<1>b. ASSUME image' = image, result' = result PROVE UNCHANGED Image!Promise!vars
  BY <1>a, <1>b DEF Image!Promise!vars
<1>c. ASSUME image' = image, pc # "done", result' = "failed" PROVE Image!Promise!Next
  <2>1. <<result>> = [f \in {1} |-> "none"] /\ <<result'>> = [f \in {1} |-> "failed"]
    BY <1>c, <1>0 DEF ImageInv, OwnPart
  <2>2. Image!Promise!Fail(1)  BY <1>a, <1>c, <2>1 DEF Image!Promise!Fail
  <2> QED  BY <2>2 DEF Image!Promise!Next
<1>1. CASE Image!Replace
  <2>1. CASE image' = part /\ result' = "ok"
    <3>1. part # 0  BY <1>1 DEF Image!Replace, ImageInv, OwnPart
    <3>2. there' = there \cup {1}
      BY <2>1, <3>1 DEF ImageInv, Image!Settled, Image!There
    <3>3. <<result>> = [f \in {1} |-> "none"] /\ <<result'>> = [f \in {1} |-> "ok"]
      BY <1>1, <2>1, <1>0 DEF Image!Replace, ImageInv, OwnPart
    <3>4. Image!Promise!Succeed(1)  BY <3>2, <3>3 DEF Image!Promise!Succeed
    <3> QED  BY <3>4 DEF Image!Promise!Next
  <2>2. CASE image' = image /\ result' = "failed"
    BY <1>1, <1>c, <2>2 DEF Image!Replace
  <2> QED  BY <1>1, <2>1, <2>2 DEF Image!Replace
<1>2. CASE Image!Again
  <2>1. there' = there  BY <1>2, <1>a DEF Image!Again
  <2>2. <<result'>> = [f \in {1} |-> "none"]  BY <1>2, <1>0 DEF Image!Again
  <2>3. Image!Promise!Again  BY <2>1, <2>2 DEF Image!Promise!Again
  <2> QED  BY <2>3 DEF Image!Promise!Next
<1>3. CASE Image!Info \/ Image!Start \/ Image!Fails \/ Image!Interrupt
  <2>1. image' = image /\ pc # "done" /\ (result' = result \/ result' = "failed")
    BY <1>3 DEF Image!Info, Image!Start, Image!Fails, Image!Interrupt
  <2> QED  BY <1>b, <1>c, <2>1
<1>4. CASE Image!Create \/ Image!Poll \/ Image!Succeeds \/ Image!Kill \/ Image!OrphanEnds
  <2>1. image' = image /\ result' = result
    BY <1>4 DEF Image!Create, Image!Poll, Image!Succeeds, Image!Kill, Image!OrphanEnds
  <2> QED  BY <1>b, <2>1
<1>5. CASE UNCHANGED Image!vars  BY <1>5, <1>b DEF Image!vars
<1> QED  BY <1>1, <1>2, <1>3, <1>4, <1>5 DEF Image!Next, Image!Advance

LEMMA ImageHolds == ComponentsSpec => [](subject = "image" => ImageInv)
<1>1. ComponentsInit => (subject = "image" => ImageInv)  BY Starts, ImageInit
<1>2. (subject = "image" => ImageInv) /\ [ComponentsNext]_all
      => (subject = "image" => ImageInv)'
  BY Steps, ImageNext
<1> QED  BY <1>1, <1>2, PTL DEF ComponentsSpec

\* The image under its name was written to the end by one qemu-img, and no other
\* one still writes to it, for any plan and number of conversions, interrupted or
\* killed anywhere (convert_image_with_progress).
THEOREM ImageIsWhole == ComponentsSpec => []ImageTrue
<1>1. (subject = "image" => ImageInv) => ImageTrue  BY DEF ImageInv, ImageTrue
<1> QED  BY <1>1, ImageHolds, PTL

\* The plan asks for less with every entry, for the same options never twice, and
\* for nothing in the end, whatever was asked for (_fallback_plan).
THEOREM PlanGoesDown == ComponentsSpec => []PlanFalls
<1>1. (subject = "image" => ImageInv) => PlanFalls
  <2>1. Down(plan, NoOptions) => Image!Downgrades
    <3>1. Image!Rank(NoOptions) = <<0, 0, 0, 0, 0>>  BY DEF Image!Rank, NoOptions
    <3> QED  BY <3>1 DEF Down, Image!Downgrades
  <2> QED  BY <2>1 DEF ImageInv, Planned, PlanFalls, Image!Downgrades
<1> QED  BY <1>1, ImageHolds, PTL

-----------------------------------------------------------------------------
(* VsphereExport: passwords, the images that are handed over, and what a   *)
(* job that went well has left.                                            *)

\* Where the exporter is at a VM, and where VsphereMode is, which has none.
AtVm == pc \in {"next", "password", "convert", "unlink", "vddk", "miss"} \/ (pc = "list" /\ vm # 0)
InMode ==
    \/ pc \in {"require", "act", "prepare", "drives", "power", "folder", "govc", "pack", "fetch",
               "ovftool", "disconnect"}
    \/ pc = "list" /\ vm = 0

VsphereTyped ==
    /\ job \in Vsphere!JobType /\ vm \in Nat /\ password \subseteq Vsphere!Dirs
    /\ dir \in [Vsphere!Dirs -> SUBSET Vsphere!Items]
    /\ failed \subseteq Nat /\ images \subseteq Nat \X Vsphere!Items
    /\ pc = "connect" => vm = 0 /\ images = {} /\ failed = {}
    /\ pc = "connect" \/ AtVm => job.kind # "none"
    /\ AtVm => vm # 0
    /\ pc \in {"password", "convert", "unlink", "vddk"} => vm \in Vsphere!Vms
    /\ InMode => vm = 0 /\ images = {}

\* The VMs that have images, or have failed, have been done with; what virt-v2v
\* left of one that failed lies where the exporter has been.
DoneWith ==
    /\ AtVm => (\A i \in images : i[1] < vm) /\ (\A v \in failed : v < vm)
    /\ pc = "connect" \/ AtVm =>
           \A v \in Vsphere!Dirs :
               "torn" \in dir[v] => v < vm \/ (pc = "unlink" /\ raised /\ v = vm)

\* The links of the chain, and what is told at the end of one.
Links ==
    /\ pc = "folder" => step = "https"
    /\ pc = "fetch" /\ job.action = "export_vm" => step = "https"
    /\ pc = "pack" => step = "ova"
    /\ pc = "list" /\ vm = 0 => job.action = "download_only_vm"
    /\ pc = "ovftool" => job.action \in {"ovftool_export", "ovftool_deploy"}
    /\ result = "ok" => pc \in {"disconnect", "done", "killed"}

VsphereInv ==
    /\ VsphereTyped /\ DoneWith /\ Links
    /\ Vsphere!PasswordGone /\ Vsphere!OnlyWhole /\ Vsphere!ChainTrue

LEMMA VsphereBounds == MaxVms \in Nat /\ VsphereJobs \subseteq Vsphere!JobType
BY ComponentsAssumption DEF Vsphere!VsphereAssumption

LEMMA VsphereInit == ASSUME Vsphere!Init PROVE VsphereInv
<1>1. job \in Vsphere!JobType  BY VsphereBounds DEF Vsphere!Init
<1>2. dir \in [Vsphere!Dirs -> SUBSET Vsphere!Items]
     /\ \A v \in Vsphere!Dirs : "torn" \notin dir[v]
  BY DEF Vsphere!Init, Vsphere!Items
<1>4. VsphereTyped
  BY <1>1, <1>2 DEF Vsphere!Init, VsphereTyped, AtVm, InMode
<1>5. DoneWith /\ Links  BY <1>2 DEF Vsphere!Init, DoneWith, Links, AtVm
<1> QED  BY <1>4, <1>5 DEF Vsphere!Init, VsphereInv, Vsphere!PasswordGone, Vsphere!Secrets,
            Vsphere!OnlyWhole, Vsphere!ChainTrue

\* The VMs of a job have directories.
LEMMA VmsHaveDirs ==
    ASSUME VsphereTyped
    PROVE  /\ job.vms \in 0..MaxVms /\ Vsphere!Vms \subseteq Vsphere!Dirs
           /\ Vsphere!Dirs \subseteq Nat /\ 0 \in Vsphere!Dirs
BY VsphereBounds DEF VsphereTyped, Vsphere!JobType, Vsphere!Vms, Vsphere!Dirs

\* The exporter's steps.
LEMMA ExporterTyped == ASSUME VsphereTyped, Vsphere!Exporter PROVE VsphereTyped'
<1>j. job.vms \in 0..MaxVms /\ Vsphere!Vms \subseteq Vsphere!Dirs /\ Vsphere!Dirs \subseteq Nat
      /\ 0 \in Vsphere!Dirs
  BY VmsHaveDirs
<1>v. \A v \in Vsphere!Vms : v \in Nat /\ v # 0  BY <1>j DEF Vsphere!Vms
<1>w. job' = job => Vsphere!Vms' = Vsphere!Vms  BY DEF Vsphere!Vms
<1> USE DEF VsphereTyped, AtVm, InMode, Vsphere!Goto, Vsphere!exporter, Vsphere!mode,
        Vsphere!machine, Vsphere!disk, Vsphere!Skip, Vsphere!Holds
<1>g. ASSUME job' = job, vm' \in Nat \ {0}, job.kind # "none",
             pc' \in {"next", "password", "convert", "unlink", "vddk", "list", "miss"},
             pc' \in {"password", "convert", "unlink", "vddk"} => vm' \in Vsphere!Vms,
             password' \subseteq Vsphere!Dirs, failed' \subseteq Nat,
             dir' \in [Vsphere!Dirs -> SUBSET Vsphere!Items],
             images' \subseteq Nat \X Vsphere!Items
      PROVE  VsphereTyped'
  BY <1>g, <1>w
<1>t. /\ job \in Vsphere!JobType /\ vm \in Nat /\ password \subseteq Vsphere!Dirs
      /\ dir \in [Vsphere!Dirs -> SUBSET Vsphere!Items]
      /\ failed \subseteq Nat /\ images \subseteq Nat \X Vsphere!Items
      /\ (AtVm => vm \in Nat \ {0} /\ job.kind # "none")
      /\ (pc \in {"password", "convert", "unlink", "vddk"} => vm \in Vsphere!Vms)
  OBVIOUS
<1>1. CASE Vsphere!Connect
  <2>1. pc' = "next" => 1 \in Vsphere!Vms  BY <1>j, <1>1 DEF Vsphere!Connect, Vsphere!Vms
  <2> QED  BY <1>1, <2>1, <1>w DEF Vsphere!Connect
<1>9. CASE Vsphere!Exported  BY <1>w, <1>9 DEF Vsphere!Exported
<1>s. Vsphere!Skip => vm' \in Nat \ {0} /\ failed' \subseteq Nat /\ pc' = "next"
  BY <1>t
<1> HIDE DEF VsphereTyped, Vsphere!Skip
<1>2. CASE Vsphere!Begin
  <2>1. CASE job.snapshot  BY <1>v, <1>t, <1>g, <1>s, <1>2, <2>1 DEF Vsphere!Begin
  <2>2. CASE ~job.snapshot
    <3>1. job.kind \in {"v2v", "vddk_download", "download_only"}
      BY <1>t, <1>2 DEF Vsphere!Begin, Vsphere!JobType, Vsphere!Kinds
    <3>2. pc' \in {"password", "vddk", "list"}
      BY <1>2, <2>2, <3>1 DEF Vsphere!Begin, Vsphere!Export
    <3> QED  BY <1>v, <1>t, <1>g, <1>s, <1>2, <2>2, <3>2 DEF Vsphere!Begin
  <2> QED  BY <2>1, <2>2
<1>3. CASE Vsphere!Password
  <2>1. password' \subseteq Vsphere!Dirs  BY <1>t, <1>j, <1>3 DEF Vsphere!Password
  <2> QED  BY <1>v, <1>t, <1>g, <1>s, <1>3, <2>1 DEF Vsphere!Password
<1>4. CASE Vsphere!Convert
  <2>1. dir' \in [Vsphere!Dirs -> SUBSET Vsphere!Items]
    BY <1>t, <1>4 DEF Vsphere!Convert, Vsphere!Items
  <2> QED  BY <1>v, <1>t, <1>g, <1>4, <2>1 DEF Vsphere!Convert
<1>5. CASE Vsphere!Unlink
  <2>1. images' \subseteq Nat \X Vsphere!Items
    BY <1>t, <1>v, <1>s, <1>5 DEF Vsphere!Unlink, Vsphere!Items
  <2>2. vm' \in Nat \ {0} /\ failed' \subseteq Nat /\ pc' = "next"
    <3>1. CASE Vsphere!Skip  BY <1>s, <3>1
    <3>2. CASE vm' = vm + 1 /\ pc' = "next" /\ UNCHANGED failed
      BY <1>t, <1>5, <3>2 DEF Vsphere!Unlink
    <3> QED  BY <1>5, <3>1, <3>2 DEF Vsphere!Unlink
  <2> QED  BY <1>t, <1>g, <1>s, <1>5, <2>1, <2>2 DEF Vsphere!Unlink
<1>6. CASE Vsphere!Vddk
  <2>1. dir' \in [Vsphere!Dirs -> SUBSET Vsphere!Items]
    BY <1>t, <1>6 DEF Vsphere!Vddk, Vsphere!Items
  <2>2. images' \subseteq Nat \X Vsphere!Items
    BY <1>t, <1>v, <1>s, <1>6 DEF Vsphere!Vddk, Vsphere!Items
  <2>3. vm' \in Nat \ {0} /\ failed' \subseteq Nat /\ pc' = "next"
    <3>1. CASE Vsphere!Skip  BY <1>s, <3>1
    <3>2. CASE vm' = vm + 1 /\ pc' = "next" /\ UNCHANGED failed
      BY <1>t, <1>6, <3>2 DEF Vsphere!Vddk
    <3> QED  BY <1>6, <3>1, <3>2 DEF Vsphere!Vddk
  <2> QED  BY <1>t, <1>g, <1>s, <1>6, <2>1, <2>2, <2>3 DEF Vsphere!Vddk
<1>7. CASE Vsphere!ListDirectory
  <2>1. vm' \in Nat \ {0} /\ failed' \subseteq Nat /\ pc' \in {"next", "miss"}
    BY <1>t, <1>s, <1>7 DEF Vsphere!ListDirectory
  <2> QED  BY <1>t, <1>g, <1>s, <1>7, <2>1 DEF Vsphere!ListDirectory
<1>8. CASE Vsphere!DirectoryDone  BY <1>t, <1>g, <1>8 DEF Vsphere!DirectoryDone
<1>10. ASSUME NEW f \in Files, Vsphere!Miss(f) PROVE VsphereTyped'
  BY <1>t, <1>g, <1>10 DEF Vsphere!Miss
<1> QED  BY <1>1, <1>2, <1>3, <1>4, <1>5, <1>6, <1>7, <1>8, <1>9, <1>10 DEF Vsphere!Exporter

\* VsphereMode's steps: they leave the exporter's variables alone.
LEMMA ModeStep ==
    ASSUME VsphereTyped, Vsphere!Mode
    PROVE  /\ InMode /\ UNCHANGED <<job, vm, password, kept, raised, failed, images>>
           /\ pc' \in {"require", "act", "prepare", "drives", "power", "folder", "govc", "pack",
                       "list", "fetch", "ovftool", "disconnect", "done"}
           /\ dir' \in [Vsphere!Dirs -> SUBSET Vsphere!Items]
<1>0. 0 \in Vsphere!Dirs  BY VmsHaveDirs
<1>t. dir \in [Vsphere!Dirs -> SUBSET Vsphere!Items]  BY DEF VsphereTyped
<1> USE DEF InMode, Vsphere!Goto, Vsphere!exporter, Vsphere!mode, Vsphere!machine, Vsphere!disk,
        Vsphere!Raise, Vsphere!Return, Vsphere!Listing
<1>r. ASSUME NEW old, NEW new \in Vsphere!Items, Vsphere!Replaced(old, new)
      PROVE  dir' \in [Vsphere!Dirs -> SUBSET Vsphere!Items]
  BY <1>t, <1>r DEF Vsphere!Replaced
<1>i. {"ovf", "ova", "part.ovf", "part.ova"} \subseteq Vsphere!Items  BY DEF Vsphere!Items
<1>1. CASE Vsphere!Require  BY <1>t, <1>1 DEF Vsphere!Require
<1>2. CASE Vsphere!Act
  BY <1>t, <1>2 DEF Vsphere!Act, Vsphere!Refused, Vsphere!ListNames, Vsphere!BeginExport,
       Vsphere!OvftoolExport, Vsphere!OvftoolDeploy, Vsphere!FetchOne, Vsphere!ListVm,
       Vsphere!Acts, Vsphere!Unacted
<1>3. CASE Vsphere!Clean
  <2>1. PICK rest \in Vsphere!Cleaned(dir[0]) : dir' = [dir EXCEPT ![0] = rest]
    BY <1>3 DEF Vsphere!Clean
  <2>2. rest \subseteq dir[0]  BY <2>1 DEF Vsphere!Cleaned
  <2>3. dir' \in [Vsphere!Dirs -> SUBSET Vsphere!Items]  BY <1>0, <1>t, <2>1, <2>2
  <2> QED  BY <1>3, <2>3 DEF Vsphere!Clean
<1>4. CASE Vsphere!RemoveDrives  BY <1>t, <1>4 DEF Vsphere!RemoveDrives
<1>5. CASE Vsphere!PowerOff  BY <1>t, <1>5 DEF Vsphere!PowerOff
<1>6. CASE Vsphere!ExportOvf
  <2>1. dir' \in [Vsphere!Dirs -> SUBSET Vsphere!Items]
    BY <1>t, <1>r, <1>i, <1>6 DEF Vsphere!ExportOvf
  <2> QED  BY <1>6, <2>1 DEF Vsphere!ExportOvf, Vsphere!AfterOvf
<1>7. CASE Vsphere!ExportTmp  BY <1>t, <1>7 DEF Vsphere!ExportTmp, Vsphere!AfterOva
<1>8. CASE Vsphere!Pack
  <2>1. dir' \in [Vsphere!Dirs -> SUBSET Vsphere!Items]
    BY <1>t, <1>r, <1>i, <1>8 DEF Vsphere!Pack
  <2> QED  BY <1>8, <2>1 DEF Vsphere!Pack, Vsphere!PackFailed, Vsphere!AfterOva
<1>9. CASE Vsphere!ListFolder  BY <1>t, <1>9 DEF Vsphere!ListFolder
<1>10. CASE Vsphere!List  BY <1>t, <1>10 DEF Vsphere!List
<1>11. CASE Vsphere!Fetched  BY <1>t, <1>11 DEF Vsphere!Fetched
<1>12. CASE Vsphere!RunExport
  <2>1. dir' \in [Vsphere!Dirs -> SUBSET Vsphere!Items]
    BY <1>t, <1>r, <1>i, <1>12 DEF Vsphere!RunExport
  <2> QED  BY <1>12, <2>1 DEF Vsphere!RunExport, Vsphere!OvftoolFails
<1>13. CASE Vsphere!RunDeploy  BY <1>t, <1>13 DEF Vsphere!RunDeploy, Vsphere!OvftoolFails
<1>14. CASE Vsphere!Disconnect  BY <1>t, <1>14 DEF Vsphere!Disconnect
<1>15. ASSUME NEW f \in Files, Vsphere!Fetch(f) \/ Vsphere!FetchOrMiss(f)
       PROVE  /\ InMode /\ UNCHANGED <<job, vm, password, kept, raised, failed, images>>
              /\ pc' \in {"fetch", "disconnect"} /\ dir' = dir
  BY <1>15 DEF Vsphere!Fetch, Vsphere!FetchOrMiss, Vsphere!Arrives
<1> QED  BY <1>t, <1>1, <1>2, <1>3, <1>4, <1>5, <1>6, <1>7, <1>8, <1>9, <1>10, <1>11, <1>12, <1>13,
            <1>14, <1>15 DEF Vsphere!Mode

LEMMA VsphereTypedNext == ASSUME VsphereTyped, [Vsphere!Next]_(Vsphere!vars) PROVE VsphereTyped'
<1>1. CASE Vsphere!Exporter  BY <1>1, ExporterTyped
<1>2. CASE Vsphere!Mode  BY <1>2, ModeStep DEF VsphereTyped, AtVm, InMode
<1>3. CASE Vsphere!Kill
  BY <1>3 DEF Vsphere!Kill, Vsphere!Goto, VsphereTyped, AtVm, InMode, Vsphere!exporter,
       Vsphere!disk
<1>4. CASE UNCHANGED Vsphere!vars
  BY <1>4 DEF Vsphere!vars, VsphereTyped, AtVm, InMode, Vsphere!Vms
<1> QED  BY <1>1, <1>2, <1>3, <1>4 DEF Vsphere!Next, Vsphere!Advance

\* The exporter hands over what is whole, of VMs that did not fail.
LEMMA ExporterDone ==
    ASSUME VsphereTyped, VsphereTyped', DoneWith, Vsphere!OnlyWhole, Vsphere!PasswordGone,
           Vsphere!Exporter
    PROVE  DoneWith' /\ Vsphere!OnlyWhole' /\ Vsphere!PasswordGone'
<1>t. /\ vm \in Nat /\ vm' \in Nat /\ images \subseteq Nat \X Vsphere!Items /\ failed \subseteq Nat
      /\ dir \in [Vsphere!Dirs -> SUBSET Vsphere!Items] /\ Vsphere!Dirs \subseteq Nat
      /\ (pc \in {"password", "convert", "unlink", "vddk"} => vm \in Vsphere!Dirs)
      /\ (pc = "connect" => vm = 0 /\ images = {} /\ failed = {})
  BY VmsHaveDirs DEF VsphereTyped
<1>n. /\ \A v \in Nat : v < vm => v < vm + 1 /\ v # vm
      /\ \A i \in images : i[1] \in Nat
      /\ \A v \in Nat : vm \in Vsphere!Dirs /\ v < vm => v \in Vsphere!Dirs
  BY <1>t, VsphereBounds DEF Vsphere!Dirs
<1> USE DEF DoneWith, Vsphere!OnlyWhole, Vsphere!PasswordGone, Vsphere!Secrets, AtVm, Vsphere!Goto,
        Vsphere!exporter, Vsphere!mode, Vsphere!machine, Vsphere!disk
<1>s. ASSUME AtVm, vm' = vm + 1, pc' = "next", failed' \in {failed, failed \cup {vm}},
             UNCHANGED <<dir, images>>, Vsphere!Secrets' = {}
      PROVE  DoneWith' /\ Vsphere!OnlyWhole' /\ Vsphere!PasswordGone'
  <2>1. \A v \in Vsphere!Dirs : "torn" \in dir[v] => v < vm + 1  BY <1>t, <1>n, <1>s
  <2>2. \A v \in failed' : v < vm + 1  BY <1>t, <1>n, <1>s
  <2>3. \A i \in images : i[1] < vm + 1 /\ i[1] \notin failed'  BY <1>t, <1>n, <1>s
  <2> QED  BY <1>s, <2>1, <2>2, <2>3
<1>1. CASE Vsphere!Connect  BY <1>t, <1>1 DEF Vsphere!Connect
<1>2. CASE Vsphere!Begin
  <2>1. CASE job.snapshot  BY <1>s, <1>2, <2>1 DEF Vsphere!Begin, Vsphere!Skip
  <2>2. CASE ~job.snapshot
    <3>1. job.kind \in {"v2v", "vddk_download", "download_only"}
      BY <1>2 DEF Vsphere!Begin, Vsphere!JobType, Vsphere!Kinds, VsphereTyped
    <3>2. pc' \in {"password", "vddk", "list"}
      BY <1>2, <2>2, <3>1 DEF Vsphere!Begin, Vsphere!Export
    <3> QED  BY <1>t, <1>2, <2>2, <3>2 DEF Vsphere!Begin
  <2> QED  BY <2>1, <2>2
<1>3. CASE Vsphere!Password
  <2>1. CASE Vsphere!Skip  BY <1>s, <1>3, <2>1 DEF Vsphere!Password, Vsphere!Skip
  <2>2. CASE ~Vsphere!Skip  BY <1>t, <1>3, <2>2 DEF Vsphere!Password
  <2> QED  BY <2>1, <2>2
<1>4. CASE Vsphere!Convert
  <2>1. PICK new \in {"image", "torn"} :
            /\ UNCHANGED dir \/ Vsphere!Holds(vm, new)
            /\ new = "torn" => raised'
    BY <1>4 DEF Vsphere!Convert
  <2>2. \A v \in Vsphere!Dirs : dir[v] \subseteq dir'[v] /\ (v # vm => dir'[v] = dir[v])
    BY <1>t, <2>1 DEF Vsphere!Holds
  <2>3. ~raised' => ("torn" \in dir'[vm] => "torn" \in dir[vm])
    BY <1>t, <1>4, <2>1 DEF Vsphere!Convert, Vsphere!Holds
  <2>4. \A i \in images : i[1] \in Vsphere!Dirs
    BY <1>t, <1>n, <1>4 DEF Vsphere!Convert
  <2> QED  BY <1>t, <1>4, <2>2, <2>3, <2>4 DEF Vsphere!Convert
<1>5. CASE Vsphere!Unlink
  <2>1. CASE raised
    <3>1. /\ images' = images /\ failed' = failed \cup {vm} /\ vm' = vm + 1 /\ pc' = "next"
          /\ UNCHANGED <<dir, raised>>
      BY <1>5, <2>1 DEF Vsphere!Unlink, Vsphere!Skip, Vsphere!Takes
    <3>2. Vsphere!Secrets' = {}  BY <1>5 DEF Vsphere!Unlink, Vsphere!Unlinked
    <3> QED  BY <1>s, <1>5, <3>1, <3>2 DEF Vsphere!Unlink
  <2>2. CASE ~raised
    <3>1. /\ images' = images \cup ({vm} \X (dir[vm] \cap {"old", "image", "torn"}))
          /\ failed' = failed /\ vm' = vm + 1 /\ pc' = "next" /\ UNCHANGED <<dir, raised>>
      BY <1>5, <2>2 DEF Vsphere!Unlink, Vsphere!Takes
    <3>2. Vsphere!Secrets' = {}  BY <1>5 DEF Vsphere!Unlink, Vsphere!Unlinked
    <3>3. "torn" \notin dir[vm]  BY <1>t, <1>5, <2>2 DEF Vsphere!Unlink
    <3>4. \A v \in failed : v < vm  BY <1>5 DEF Vsphere!Unlink
    <3>5. ASSUME NEW i \in images'
          PROVE  i[1] < vm + 1 /\ i[1] \notin failed /\ i[2] # "torn" /\ i[2] \in dir[i[1]]
      <4>1. CASE i \in images  BY <1>n, <1>5, <4>1 DEF Vsphere!Unlink
      <4>2. CASE i \notin images
        <5>1. i[1] = vm /\ i[2] \in dir[vm]  BY <3>1, <4>2
        <5> QED  BY <1>t, <3>3, <3>4, <5>1
      <4> QED  BY <4>1, <4>2
    <3> QED  BY <1>t, <1>n, <1>5, <3>1, <3>2, <3>4, <3>5 DEF Vsphere!Unlink
  <2> QED  BY <2>1, <2>2
<1>6. CASE Vsphere!Vddk
  <2>1. CASE Vsphere!Skip /\ UNCHANGED <<dir, images>>
    BY <1>s, <1>6, <2>1 DEF Vsphere!Vddk, Vsphere!Skip
  <2>2. CASE ~(Vsphere!Skip /\ UNCHANGED <<dir, images>>)
    <3>1. /\ Vsphere!Holds(vm, "vmdk") /\ images' = images \cup {<<vm, "vmdk">>}
          /\ vm' = vm + 1 /\ pc' = "next" /\ UNCHANGED <<failed, password, kept, raised>>
      BY <1>6, <2>2 DEF Vsphere!Vddk
    <3>2. \A v \in Vsphere!Dirs : /\ dir[v] \subseteq dir'[v]
                                  /\ "torn" \in dir'[v] => "torn" \in dir[v]
      BY <1>t, <3>1 DEF Vsphere!Holds
    <3>3. vm \in Vsphere!Dirs /\ "vmdk" \in dir'[vm]
      BY <1>t, <1>6, <3>1 DEF Vsphere!Vddk, Vsphere!Holds
    <3>4. \A v \in failed : v < vm  BY <1>6 DEF Vsphere!Vddk
    <3>5. ASSUME NEW i \in images'
          PROVE  i[1] < vm + 1 /\ i[1] \notin failed /\ i[2] # "torn" /\ i[2] \in dir'[i[1]]
      <4>1. CASE i \in images
        <5>1. i[1] \in Vsphere!Dirs  BY <1>t, <1>n, <1>6, <4>1 DEF Vsphere!Vddk
        <5> QED  BY <1>n, <1>6, <3>2, <4>1, <5>1 DEF Vsphere!Vddk
      <4>2. CASE i \notin images
        <5>1. i[1] = vm /\ i[2] = "vmdk"  BY <3>1, <4>2
        <5> QED  BY <1>t, <3>3, <3>4, <5>1
      <4> QED  BY <4>1, <4>2
    <3> QED  BY <1>t, <1>n, <1>6, <3>1, <3>2, <3>4, <3>5 DEF Vsphere!Vddk
  <2> QED  BY <2>1, <2>2
<1>7. CASE Vsphere!ListDirectory
  <2>1. CASE Vsphere!Skip  BY <1>s, <1>7, <2>1 DEF Vsphere!ListDirectory, Vsphere!Skip
  <2>2. CASE ~Vsphere!Skip  BY <1>t, <1>7, <2>2 DEF Vsphere!ListDirectory
  <2> QED  BY <2>1, <2>2
<1>8. CASE Vsphere!DirectoryDone  BY <1>s, <1>8 DEF Vsphere!DirectoryDone
<1>9. CASE Vsphere!Exported  BY <1>9 DEF Vsphere!Exported
<1>10. ASSUME NEW f \in Files, Vsphere!Miss(f)
       PROVE  DoneWith' /\ Vsphere!OnlyWhole' /\ Vsphere!PasswordGone'
  BY <1>10 DEF Vsphere!Miss
<1> QED  BY <1>1, <1>2, <1>3, <1>4, <1>5, <1>6, <1>7, <1>8, <1>9, <1>10 DEF Vsphere!Exporter

\* The links of the chain, and what is answered at its end.
LEMMA LinksNext ==
    ASSUME VsphereTyped, Links, Vsphere!ChainTrue, [Vsphere!Next]_(Vsphere!vars)
    PROVE  Links' /\ Vsphere!ChainTrue'
<1>t. 0 \in Vsphere!Dirs /\ dir \in [Vsphere!Dirs -> SUBSET Vsphere!Items]
  BY VmsHaveDirs DEF VsphereTyped
<1> USE DEF Links, Vsphere!ChainTrue, Vsphere!Goto, Vsphere!exporter, Vsphere!mode,
        Vsphere!machine, Vsphere!disk, Vsphere!Raise, Vsphere!Return, Vsphere!Listing
<1>r. ASSUME NEW old, NEW new, Vsphere!Replaced(old, new) PROVE new \in dir'[0]
  BY <1>t, <1>r DEF Vsphere!Replaced
<1>n. ASSUME job' = job, step' = step, result' # "ok",
             pc' \in {"next", "convert", "unlink", "miss", "prepare", "drives", "power", "govc",
                      "disconnect", "done", "killed"}
      PROVE  Links' /\ Vsphere!ChainTrue'
  BY <1>n
<1>1. CASE Vsphere!Exporter
  <2>1. CASE Vsphere!Connect  BY <2>1 DEF Vsphere!Connect
  <2>2. CASE Vsphere!Begin
    <3>1. CASE job.snapshot  BY <1>n, <2>2, <3>1 DEF Vsphere!Begin, Vsphere!Skip
    <3>2. CASE ~job.snapshot
      <4>1. job.kind \in {"v2v", "vddk_download", "download_only"} /\ vm # 0
        BY <2>2 DEF Vsphere!Begin, Vsphere!JobType, Vsphere!Kinds, VsphereTyped, AtVm
      <4>2. pc' \in {"password", "vddk", "list"} /\ vm' = vm
        BY <2>2, <3>2, <4>1 DEF Vsphere!Begin, Vsphere!Export
      <4> QED  BY <2>2, <4>1, <4>2 DEF Vsphere!Begin
    <3> QED  BY <3>1, <3>2
  <2>3. CASE Vsphere!Password  BY <2>3 DEF Vsphere!Password, Vsphere!Skip
  <2>4. CASE Vsphere!Convert  BY <2>4 DEF Vsphere!Convert
  <2>5. CASE Vsphere!Unlink  BY <2>5 DEF Vsphere!Unlink, Vsphere!Skip
  <2>6. CASE Vsphere!Vddk  BY <2>6 DEF Vsphere!Vddk, Vsphere!Skip
  <2>7. CASE Vsphere!ListDirectory  BY <2>7 DEF Vsphere!ListDirectory, Vsphere!Skip
  <2>8. CASE Vsphere!DirectoryDone  BY <2>8 DEF Vsphere!DirectoryDone
  <2>9. CASE Vsphere!Exported  BY <2>9 DEF Vsphere!Exported
  <2>10. ASSUME NEW f \in Files, Vsphere!Miss(f) PROVE Links' /\ Vsphere!ChainTrue'
    BY <2>10 DEF Vsphere!Miss
  <2> QED  BY <1>1, <2>1, <2>2, <2>3, <2>4, <2>5, <2>6, <2>7, <2>8, <2>9,
       <2>10 DEF Vsphere!Exporter
<1>2. CASE Vsphere!Mode
  <2>1. CASE Vsphere!Require  BY <2>1 DEF Vsphere!Require
  <2>2. CASE Vsphere!Act
    BY <2>2 DEF Vsphere!Act, Vsphere!Refused, Vsphere!ListNames, Vsphere!BeginExport,
         Vsphere!OvftoolExport, Vsphere!OvftoolDeploy, Vsphere!FetchOne, Vsphere!ListVm,
         Vsphere!Acts, Vsphere!Unacted
  <2>3. CASE Vsphere!Clean  BY <2>3 DEF Vsphere!Clean
  <2>4. CASE Vsphere!RemoveDrives  BY <2>4 DEF Vsphere!RemoveDrives
  <2>5. CASE Vsphere!PowerOff  BY <2>5 DEF Vsphere!PowerOff
  <2>6. CASE Vsphere!ExportOvf
    <3>1. CASE result' = "ok"
      <4>1. step' = "ovf" /\ "ovf" \in dir'[0] /\ pc' = "disconnect" /\ job' = job
        BY <1>r, <2>6, <3>1 DEF Vsphere!ExportOvf
      <4> QED  BY <4>1
    <3>2. CASE result' # "ok"  BY <2>6, <3>2 DEF Vsphere!ExportOvf, Vsphere!AfterOvf
    <3> QED  BY <3>1, <3>2
  <2>7. CASE Vsphere!ExportTmp  BY <2>7 DEF Vsphere!ExportTmp, Vsphere!AfterOva
  <2>8. CASE Vsphere!Pack
    <3>1. CASE result' = "ok"
      <4>1. step' = "ova" /\ "ova" \in dir'[0] /\ pc' = "disconnect" /\ job' = job
        BY <1>r, <2>8, <3>1 DEF Vsphere!Pack, Vsphere!PackFailed, Vsphere!AfterOva
      <4> QED  BY <4>1
    <3>2. CASE result' # "ok"  BY <2>8, <3>2 DEF Vsphere!Pack, Vsphere!PackFailed, Vsphere!AfterOva
    <3> QED  BY <3>1, <3>2
  <2>9. CASE Vsphere!ListFolder  BY <2>9 DEF Vsphere!ListFolder
  <2>10. CASE Vsphere!List  BY <2>10 DEF Vsphere!List
  <2>11. CASE Vsphere!Fetched  BY <2>11 DEF Vsphere!Fetched
  <2>12. CASE Vsphere!RunExport  BY <2>12 DEF Vsphere!RunExport, Vsphere!OvftoolFails
  <2>13. CASE Vsphere!RunDeploy  BY <2>13 DEF Vsphere!RunDeploy, Vsphere!OvftoolFails
  <2>14. CASE Vsphere!Disconnect  BY <2>14 DEF Vsphere!Disconnect
  <2>15. ASSUME NEW f \in Files, Vsphere!Fetch(f) \/ Vsphere!FetchOrMiss(f)
         PROVE  Links' /\ Vsphere!ChainTrue'
    BY <2>15 DEF Vsphere!Fetch, Vsphere!FetchOrMiss, Vsphere!Arrives
  <2> QED  BY <1>2, <2>1, <2>2, <2>3, <2>4, <2>5, <2>6, <2>7, <2>8, <2>9, <2>10, <2>11, <2>12,
              <2>13, <2>14, <2>15 DEF Vsphere!Mode
<1>3. CASE Vsphere!Kill  BY <1>3 DEF Vsphere!Kill
<1>4. CASE UNCHANGED Vsphere!vars  BY <1>4 DEF Vsphere!vars
<1> QED  BY <1>1, <1>2, <1>3, <1>4 DEF Vsphere!Next, Vsphere!Advance

LEMMA VsphereNext == ASSUME VsphereInv, [Vsphere!Next]_(Vsphere!vars) PROVE VsphereInv'
<1>1. VsphereTyped' /\ Links' /\ Vsphere!ChainTrue'
  BY VsphereTypedNext, LinksNext DEF VsphereInv
<1>2. CASE Vsphere!Exporter  BY <1>1, <1>2, ExporterDone DEF VsphereInv
<1>3. CASE Vsphere!Mode
  <2>1. DoneWith' /\ Vsphere!OnlyWhole' /\ Vsphere!PasswordGone'
    BY <1>3, ModeStep DEF VsphereInv, VsphereTyped, InMode, AtVm, DoneWith, Vsphere!OnlyWhole,
         Vsphere!PasswordGone, Vsphere!Secrets
  <2> QED  BY <1>1, <2>1 DEF VsphereInv
<1>4. CASE Vsphere!Kill \/ UNCHANGED Vsphere!vars
  <2>1. DoneWith' /\ Vsphere!OnlyWhole' /\ Vsphere!PasswordGone'
    BY <1>4 DEF VsphereInv, Vsphere!Kill, Vsphere!Goto, Vsphere!vars, Vsphere!exporter,
         Vsphere!disk, AtVm, DoneWith, Vsphere!OnlyWhole, Vsphere!PasswordGone,
         Vsphere!Secrets
  <2> QED  BY <1>1, <2>1 DEF VsphereInv
<1> QED  BY <1>2, <1>3, <1>4 DEF Vsphere!Next, Vsphere!Advance

\* The password of vCenter lies in a file only while virt-v2v runs; no image that
\* is handed over is torn or of a VM that failed; an export_vm that answers 0 has
\* left something whole: for any job, number of VMs and files, whatever fails and
\* in which link (VsphereExporter.export_many_sync, VsphereMode.run).
THEOREM ExportsAreTrue == ComponentsSpec => []ExportTrue
<1>1. ComponentsInit => (subject = "vsphere" => VsphereInv)  BY Starts, VsphereInit
<1>2. (subject = "vsphere" => VsphereInv) /\ [ComponentsNext]_all
      => (subject = "vsphere" => VsphereInv)'
  BY Steps, VsphereNext
<1>3. (subject = "vsphere" => VsphereInv) => ExportTrue  BY DEF VsphereInv, ExportTrue
<1> QED  BY <1>1, <1>2, <1>3, PTL DEF ComponentsSpec

-----------------------------------------------------------------------------
(* Extract: archives that are extracted into the same directories.         *)

LEMMA Counting == \A S : Archive!Cardinality(S) = Cardinality(S)
BY DEF Archive!Cardinality, Cardinality

\* Of one more name than there are files, one is free; unique_path takes it.
LEMMA UniqueIsFree ==
    ASSUME NEW p, Archive!IsPath(p), IsFiniteSet(DOMAIN extracted)
    PROVE  /\ Archive!Unique(p) \notin DOMAIN extracted
           /\ Archive!Unique(p) = [dir |-> p.dir, stem |-> p.stem, copy |-> Archive!Unique(p).copy]
<1> DEFINE n == Cardinality(DOMAIN extracted)
           name(c) == [p EXCEPT !.copy = c]
           free == {c \in 1..(n + 1) : name(c) \notin DOMAIN extracted}
<1>1. n \in Nat  BY FS_CardinalityType
<1>2. \A c : name(c) = [dir |-> p.dir, stem |-> p.stem, copy |-> c]  BY DEF Archive!IsPath
<1>3. free # {}
  <2> SUFFICES ASSUME free = {} PROVE FALSE  OBVIOUS
  <2> DEFINE f == [c \in 1..(n + 1) |-> name(c)]
  <2>1. f \in [1..(n + 1) -> DOMAIN extracted]  OBVIOUS
  <2>2. IsFiniteSet(1..(n + 1)) /\ Cardinality(1..(n + 1)) = n + 1  BY <1>1, FS_Interval
  <2>3. n < Cardinality(1..(n + 1))  BY <1>1, <2>2
  <2> DEFINE S == 1..(n + 1)
             T == DOMAIN extracted
  <2>4. f \in [S -> T] /\ IsFiniteSet(S) /\ IsFiniteSet(T) /\ Cardinality(T) < Cardinality(S)
    BY <2>1, <2>2, <2>3
  <2> HIDE DEF f, S, T
  <2>5. \E x, y \in S : x # y /\ f[x] = f[y]  BY <2>4, FS_PigeonHole
  <2>6. PICK x \in 1..(n + 1), y \in 1..(n + 1) : x # y /\ f[x] = f[y]  BY <2>5 DEF S
  <2>7. f[x] = name(x) /\ f[y] = name(y)  BY DEF f
  <2> HIDE DEF name
  <2>8. name(x).copy = x /\ name(y).copy = y  BY <1>2
  <2> QED  BY <2>6, <2>7, <2>8
<1>4. \E c \in free : \A d \in free : c <= d
  <2>1. free \in SUBSET Nat  BY <1>1
  <2> HIDE DEF free
  <2> QED  BY <1>3, <2>1, Least
<1> DEFINE least == CHOOSE c \in free : \A d \in free : c <= d
<1>5. least \in free  BY <1>4
<1>6. Archive!Unique(p) = name(least)  BY Counting DEF Archive!Unique
<1>7. Archive!Unique(p) \notin DOMAIN extracted  BY <1>5, <1>6
<1> HIDE DEF free, least, name
<1>8. name(least) = [dir |-> p.dir, stem |-> p.stem, copy |-> least]  BY <1>2
<1> QED  BY <1>6, <1>7, <1>8

Plain == archive.kind \in {"vhd", "raw"}

ArchiveTyped ==
    /\ archive \in Archives
    /\ IsFiniteSet(DOMAIN extracted) /\ IsFiniteSet(found)
    /\ archive.kind # "ami" => inner = None /\ next \in Nat \ {0}
    /\ outcome = "ok" => pc = "done"
    /\ pc = "open" => next = 1
    /\ pc = "discover" => archive.kind = "ami"

\* Each disk among the members that have been read has been found, extracted by
\* this run and whole; all have been read when the disks are taken.
OwnDisk(i) ==
    \E d \in found :
        /\ d.origin = archive.members[i].path /\ d.path \in DOMAIN extracted
        /\ extracted[d.path].run = run /\ extracted[d.path].whole
EachDisk ==
    Plain /\ archive.plain = None =>
        /\ pc \in {"members", "found", "convert"} \/ outcome = "ok" =>
               \A i \in DOMAIN archive.members :
                   i < next /\ archive.members[i].what = "disk" => OwnDisk(i)
        /\ pc \in {"found", "convert"} \/ outcome = "ok" =>
               \A i \in DOMAIN archive.members : i < next

\* Where raw.py extracts a member to: its own directory and stem.
Beside ==
    archive.kind = "raw" =>
        \A d \in found :
            d.path = [dir |-> d.origin.dir, stem |-> d.origin.stem, copy |-> d.path.copy]

\* Each disk that has been converted has an image, under a name that no other of
\* this run has: raw.py's tells the member, ami.py's how many there were before.
ImageOf(d, n) ==
    /\ n \in results /\ n \in DOMAIN images /\ images[n] = [run |-> run, path |-> d.path]
    /\ archive.kind = "raw" => n = Archive!Name_(d.path.stem, d.path.copy, d.origin, 0)
    /\ archive.kind = "ami" => n.n \in Nat /\ n.n <= Cardinality(found \ left)
Converted ==
    /\ archive.kind \in {"raw", "ami"} /\ archive.convert /\ (pc = "convert" \/ outcome = "ok")
    => left \subseteq found /\ \A d \in found \ left : \E n \in results : ImageOf(d, n)

ArchiveInv == ArchiveTyped /\ EachDisk /\ Beside /\ Converted

LEMMA ArchiveBounds ==
    ASSUME archive \in Archives
    PROVE  /\ archive.kind \in Archive!Kinds
           /\ DOMAIN archive.members = 1..Len(archive.members) /\ Len(archive.members) \in Nat
           /\ \A i \in DOMAIN archive.members : Archive!IsMember(archive.members[i])
           /\ archive.plain = None \/ Archive!IsPath(archive.plain)
           /\ archive.overwrite \in BOOLEAN /\ archive.rename \in BOOLEAN
<1>1. Archive!ExtractAssumption  BY ComponentsAssumption
<1>2. Archive!IsList(archive.members)  BY <1>1 DEF Archive!ExtractAssumption
<1>3. DOMAIN archive.members = 1..Len(archive.members) /\ Len(archive.members) \in Nat
  <2> DEFINE S == {archive.members[i] : i \in DOMAIN archive.members}
  <2>1. archive.members \in Seq(S)  BY <1>2 DEF Archive!IsList
  <2> HIDE DEF S
  <2> QED  BY <2>1
<1> QED  BY <1>1, <1>3 DEF Archive!ExtractAssumption

LEMMA ArchiveInit == ASSUME Archive!Init PROVE ArchiveInv
<1>1. DOMAIN extracted = {}  BY DEF Archive!Init
<1>2. IsFiniteSet({})  BY FS_EmptySet
<1> QED  BY <1>1, <1>2, ArchiveBounds DEF Archive!Init, Archive!Fresh, ArchiveInv, ArchiveTyped,
            EachDisk, Beside, Converted

\* The member that is read, where there are no tars in the tar.
LEMMA MemberIs ==
    ASSUME ArchiveTyped, archive.kind # "ami"
    PROVE  /\ Archive!Members = archive.members
           /\ Archive!Reading => /\ next \in DOMAIN archive.members
                                 /\ Archive!Member = archive.members[next]
                                 /\ Archive!IsPath(Archive!Member.path)
BY ArchiveBounds DEF ArchiveTyped, Archive!Members, Archive!Member, Archive!Reading,
     Archive!IsMember

\* What vhd.py extracts without overwriting, and does not refuse, is nowhere yet.
LEMMA TargetIs ==
    ASSUME ArchiveTyped, Plain, Archive!Reading, ~Archive!Blocked(Archive!Member.path)
    PROVE  LET p == Archive!Target(Archive!Member.path) IN
           /\ ~archive.overwrite => p \notin DOMAIN extracted
           /\ p = [dir |-> Archive!Member.path.dir, stem |-> Archive!Member.path.stem, copy |-> p.copy]
<1> DEFINE m == Archive!Member.path
<1>1. Archive!IsPath(m) /\ IsFiniteSet(DOMAIN extracted)
  BY MemberIs DEF Plain, ArchiveTyped
<1>2. m = [dir |-> m.dir, stem |-> m.stem, copy |-> m.copy]  BY <1>1 DEF Archive!IsPath
<1> HIDE DEF m
<1>3. /\ Archive!Unique(m) \notin DOMAIN extracted
      /\ Archive!Unique(m) = [dir |-> m.dir, stem |-> m.stem, copy |-> Archive!Unique(m).copy]
  BY <1>1, UniqueIsFree
<1>4. ~Archive!Blocked(m)  BY DEF m
<1>5. CASE Archive!Target(m) = Archive!Unique(m)  BY <1>3, <1>5 DEF m
<1>6. CASE Archive!Target(m) # Archive!Unique(m)
  <2>1. Archive!Target(m) = m  BY <1>6 DEF Archive!Target
  <2>2. ~archive.overwrite => m \notin DOMAIN extracted
    BY <1>4, <1>6 DEF Archive!Target, Archive!Blocked, Archive!Careful, Archive!Taken, Plain
  <2> QED  BY <1>2, <2>1, <2>2 DEF m
<1> QED  BY <1>5, <1>6

\* What a step does to the files: a whole one stays, and there are finitely many.
LEMMA FilesNext ==
    ASSUME ArchiveTyped, [Archive!Next]_(Archive!exVars)
    PROVE  IsFiniteSet(DOMAIN extracted') /\ Archive!StaysWhole
<1> DEFINE target == Archive!Target(Archive!Member.path)
           Put(m) == Archive!With(extracted, target, m)
<1> HIDE DEF target
<1>0. IsFiniteSet(DOMAIN extracted)  BY DEF ArchiveTyped
<1>1. ASSUME UNCHANGED extracted PROVE IsFiniteSet(DOMAIN extracted') /\ Archive!StaysWhole
  BY <1>0, <1>1 DEF Archive!StaysWhole
<1>2. ASSUME NEW m, extracted' = Put(m)
      PROVE  /\ IsFiniteSet(DOMAIN extracted')
             /\ m.whole \/ target \notin DOMAIN extracted => Archive!StaysWhole
  <2>1. /\ DOMAIN extracted' = DOMAIN extracted \cup {target} /\ extracted'[target] = m
        /\ \A q \in DOMAIN extracted : q # target => extracted'[q] = extracted[q]
    BY <1>2 DEF Archive!With
  <2>2. IsFiniteSet(DOMAIN extracted')  BY <1>0, <2>1, FS_AddElement
  <2> QED  BY <2>1, <2>2 DEF Archive!StaysWhole
<1>3. ASSUME extracted' = Archive!Without(target)
      PROVE  /\ IsFiniteSet(DOMAIN extracted')
             /\ target \notin DOMAIN extracted => Archive!StaysWhole
  <2>1. /\ DOMAIN extracted' = DOMAIN extracted \ {target}
        /\ \A q \in DOMAIN extracted : q # target => extracted'[q] = extracted[q]
    BY <1>3 DEF Archive!Without
  <2>2. IsFiniteSet(DOMAIN extracted')  BY <1>0, <2>1, FS_RemoveElement
  <2> QED  BY <2>1, <2>2 DEF Archive!StaysWhole
<1>4. ASSUME archive.kind = "ami" \/ (archive.kind = "vhd" /\ archive.overwrite)
      PROVE  Archive!StaysWhole
  BY <1>4 DEF Archive!StaysWhole, Archive!InPlace
<1>5. ASSUME archive.kind = "vhd", Archive!Reading, ~Archive!Blocked(Archive!Member.path),
             ~archive.overwrite
      PROVE  target \notin DOMAIN extracted
  BY <1>5, TargetIs DEF Plain, target
<1>6. CASE Archive!Extracts
  <2>1. extracted' = Put(Archive!Content(TRUE))  BY <1>6 DEF Archive!Extracts, target
  <2>2. Archive!Content(TRUE).whole  BY DEF Archive!Content
  <2> QED  BY <1>2, <2>1, <2>2
<1>7. CASE Archive!Fails
  <2>1. \/ UNCHANGED extracted
        \/ /\ archive.kind \in {"vhd", "ami"} /\ Archive!Reading
           /\ ~Archive!Blocked(Archive!Member.path) /\ extracted' = Archive!Without(target)
        \/ archive.kind = "ami" /\ extracted' = Put(Archive!Content(FALSE))
    BY <1>7 DEF Archive!Fails, Archive!LeftBy, target
  <2>2. archive.kind = "vhd" => archive.overwrite \/ ~archive.overwrite  OBVIOUS
  <2> QED  BY <1>1, <1>2, <1>3, <1>4, <1>5, <2>1, <2>2
<1>8. CASE Archive!Kill
  <2>1. \/ UNCHANGED extracted
        \/ /\ archive.kind \in {"vhd", "ami"} /\ Archive!Reading
           /\ ~Archive!Blocked(Archive!Member.path) /\ extracted' = Put(Archive!Content(FALSE))
    BY <1>8 DEF Archive!Kill, Archive!InPlace, target
  <2> QED  BY <1>1, <1>2, <1>4, <1>5, <2>1
<1>9. CASE UNCHANGED extracted  BY <1>1, <1>9
<1>10. \/ Archive!Extracts \/ Archive!Fails \/ Archive!Kill \/ UNCHANGED extracted
  BY DEF Archive!Next, Archive!Advance, Archive!Open, Archive!Skip, Archive!Nested,
     Archive!Discover, Archive!Found, Archive!Convert, Archive!ConvertFails, Archive!Return,
     Archive!Again, Archive!exVars
<1> QED  BY <1>6, <1>7, <1>8, <1>9, <1>10

LEMMA ArchiveTypedNext == ASSUME ArchiveTyped, [Archive!Next]_(Archive!exVars) PROVE ArchiveTyped'
<1>f. IsFiniteSet(DOMAIN extracted')  BY FilesNext
<1> USE <1>f DEF ArchiveTyped, Archive!job, Archive!reading, Archive!converting, Archive!Stop
<1>1. CASE Archive!Open
  <2>1. IsFiniteSet({[path |-> archive.plain, origin |-> archive.plain]})  BY FS_Singleton
  <2> QED  BY <1>1, <2>1 DEF Archive!Open
<1>2. CASE Archive!Skip  BY <1>2 DEF Archive!Skip, Archive!Reading
<1>3. CASE Archive!Extracts
  <2>1. IsFiniteSet(found')
    <3>1. CASE found' = found  BY <3>1
    <3>2. CASE found' # found
      <4> DEFINE d == [path |-> Archive!Target(Archive!Member.path), origin |-> Archive!Member.path]
      <4>1. found' = found \cup {d}  BY <1>3, <3>2 DEF Archive!Extracts
      <4> HIDE DEF d
      <4> QED  BY <4>1, FS_AddElement
    <3> QED  BY <3>1, <3>2
  <2>2. /\ pc = "members" /\ next' = next + 1
        /\ UNCHANGED <<run, archive, pc, inner, outcome>>
    BY <1>3 DEF Archive!Extracts, Archive!Reading
  <2> QED  BY <2>1, <2>2
<1>4. CASE Archive!Fails
  <2>1. archive.kind # "ami" => next' \in Nat \ {0}  BY <1>4 DEF Archive!Fails
  <2> QED  BY <1>4, <2>1 DEF Archive!Fails, Archive!Reading
<1>5. CASE Archive!Nested  BY <1>5 DEF Archive!Nested
<1>6. CASE Archive!Discover
  <2>1. IsFiniteSet(found')
    <3>1. CASE found' = found  BY <3>1
    <3>2. CASE found' = {[path |-> p, origin |-> p] : p \in Archive!Seen}
      <4> DEFINE f == [d \in found' |-> d.path]
                 S == found'
                 T == DOMAIN extracted
      <4>1. Archive!Seen \subseteq T
        <5>1. \A what : Archive!Of(what) \subseteq T  BY DEF Archive!Of
        <5>2. Archive!Referenced \subseteq T  BY DEF Archive!Referenced
        <5> QED  BY <5>1, <5>2 DEF Archive!Seen, Archive!Payloads
      <4>2. f \in Injection(S, T)  BY <3>2, <4>1 DEF Injection, IsInjective
      <4>3. IsFiniteSet(T)  OBVIOUS
      <4> HIDE DEF f, S, T
      <4>4. IsFiniteSet(S)  BY <4>2, <4>3, FS_Injection
      <4> QED  BY <4>4 DEF S
    <3> QED  BY <1>6, <3>1, <3>2 DEF Archive!Discover
  <2> QED  BY <1>6, <2>1 DEF Archive!Discover
<1>7. CASE Archive!Found  BY <1>7 DEF Archive!Found
<1>8. CASE Archive!Convert  BY <1>8 DEF Archive!Convert
<1>9. CASE Archive!ConvertFails  BY <1>9 DEF Archive!ConvertFails
<1>10. CASE Archive!Return  BY <1>10 DEF Archive!Return
<1>11. CASE Archive!Kill  BY <1>11 DEF Archive!Kill
<1>12. CASE Archive!Again
  <2>1. IsFiniteSet({})  BY FS_EmptySet
  <2> QED  BY <1>12, <2>1 DEF Archive!Again
<1>13. CASE UNCHANGED Archive!exVars  BY <1>13 DEF Archive!exVars
<1> QED  BY <1>1, <1>2, <1>3, <1>4, <1>5, <1>6, <1>7, <1>8, <1>9, <1>10, <1>11, <1>12, <1>13
         DEF Archive!Next, Archive!Advance

\* A member that is extracted is one more disk of its own; none is passed over.
LEMMA EachDiskNext ==
    ASSUME ArchiveTyped, EachDisk, [Archive!Next]_(Archive!exVars) PROVE EachDisk'
<1>t. /\ archive \in Archives /\ (archive.kind # "ami" => inner = None /\ next \in Nat \ {0})
      /\ (outcome = "ok" => pc = "done") /\ (pc = "open" => next = 1)
      /\ (pc = "discover" => archive.kind = "ami")
      /\ DOMAIN archive.members = 1..Len(archive.members) /\ Len(archive.members) \in Nat
      /\ (archive.kind # "ami" => Archive!Members = archive.members)
  BY ArchiveBounds, MemberIs DEF ArchiveTyped
<1> USE DEF EachDisk, OwnDisk, Plain, Archive!job, Archive!reading, Archive!converting,
     Archive!Stop
<1>1. CASE Archive!Open  BY <1>t, <1>1 DEF Archive!Open
<1>2. CASE Archive!Skip
  <2>1. Plain => archive.members[next].what # "disk"
    BY <1>t, <1>2, MemberIs DEF Archive!Skip, Archive!Wanted
  <2> QED  BY <1>t, <1>2, <2>1 DEF Archive!Skip, Archive!Reading
<1>3. CASE Archive!Extracts
  <2> SUFFICES ASSUME Plain, archive.plain = None PROVE EachDisk'
    BY <1>3 DEF Archive!Extracts
  <2> DEFINE p == Archive!Target(Archive!Member.path)
             c == Archive!Content(TRUE)
             d0 == [path |-> p, origin |-> Archive!Member.path]
  <2>1. /\ pc = "members" /\ pc' = pc /\ next' = next + 1 /\ UNCHANGED <<run, archive, outcome>>
        /\ extracted' = Archive!With(extracted, p, c)
        /\ found' = IF Archive!Member.what = "disk" THEN found \cup {d0} ELSE found
    BY <1>3 DEF Archive!Extracts, Archive!Reading
  <2>2. c.run = run /\ c.whole  BY DEF Archive!Content
  <2> HIDE DEF p, c
  <2>3. /\ DOMAIN extracted' = DOMAIN extracted \cup {p} /\ extracted'[p] = c
        /\ \A q \in DOMAIN extracted : q # p => extracted'[q] = extracted[q]
    BY <2>1 DEF Archive!With
  <2>4. ASSUME NEW i \in DOMAIN archive.members, i < next + 1, archive.members[i].what = "disk"
        PROVE  OwnDisk(i)'
    <3>1. CASE i < next
      <4>1. PICK d \in found : /\ d.origin = archive.members[i].path
                               /\ d.path \in DOMAIN extracted
                               /\ extracted[d.path].run = run /\ extracted[d.path].whole
        BY <1>t, <2>1, <2>4, <3>1
      <4>2. d \in found'  BY <2>1
      <4>3. extracted'[d.path].run = run /\ extracted'[d.path].whole  BY <2>2, <2>3, <4>1
      <4> QED  BY <2>1, <2>3, <4>1, <4>2, <4>3
    <3>2. CASE i = next
      <4>1. Archive!Member = archive.members[i]
        BY <1>3, <3>2, MemberIs DEF Archive!Extracts
      <4>2. d0 \in found' /\ d0.path = p /\ d0.origin = archive.members[i].path
        BY <2>1, <2>4, <4>1
      <4> QED  BY <2>1, <2>2, <2>3, <4>2
    <3> QED  BY <1>t, <2>4, <3>1, <3>2
  <2> QED  BY <1>t, <2>1, <2>4
<1>4. CASE Archive!Fails
  <2>1. Plain => pc' = "done" /\ outcome' = "failed"
    BY <1>t, <1>4 DEF Archive!Fails, Archive!Tolerant
  <2> QED  BY <1>4, <2>1 DEF Archive!Fails
<1>5. CASE Archive!Nested  BY <1>5 DEF Archive!Nested
<1>6. CASE Archive!Discover
  <2> SUFFICES ASSUME Plain, archive.plain = None, pc' # "done" PROVE EachDisk'
    BY <1>t, <1>6 DEF Archive!Discover
  <2>1. pc = "members" /\ next > Len(archive.members) /\ found' = found /\ pc' = "found"
    BY <1>t, <1>6 DEF Archive!Discover
  <2>2. UNCHANGED <<run, archive, next, extracted>>  BY <1>6 DEF Archive!Discover
  <2>3. \A i \in DOMAIN archive.members : i < next  BY <1>t, <2>1
  <2> QED  BY <2>1, <2>2, <2>3
<1>7. CASE Archive!Found  BY <1>7 DEF Archive!Found
<1>8. CASE Archive!Convert  BY <1>8 DEF Archive!Convert
<1>9. CASE Archive!ConvertFails  BY <1>9 DEF Archive!ConvertFails
<1>10. CASE Archive!Return  BY <1>10 DEF Archive!Return
<1>11. CASE Archive!Kill  BY <1>t, <1>11 DEF Archive!Kill
<1>12. CASE Archive!Again  BY <1>12 DEF Archive!Again
<1>13. CASE UNCHANGED Archive!exVars  BY <1>13 DEF Archive!exVars
<1> QED  BY <1>1, <1>2, <1>3, <1>4, <1>5, <1>6, <1>7, <1>8, <1>9, <1>10, <1>11, <1>12, <1>13
         DEF Archive!Next, Archive!Advance

LEMMA BesideNext ==
    ASSUME ArchiveTyped, Beside, [Archive!Next]_(Archive!exVars) PROVE Beside'
<1> USE DEF Beside, Archive!job, Archive!reading, Archive!converting
<1>t. archive \in Archives  BY DEF ArchiveTyped
<1>1. CASE Archive!Open
  <2>1. archive' = archive  BY <1>1 DEF Archive!Open
  <2>2. CASE found' = found  BY <2>1, <2>2
  <2>3. CASE found' # found
    <3>1. archive.plain # None /\ found' = {[path |-> archive.plain, origin |-> archive.plain]}
      BY <1>1, <2>3 DEF Archive!Open
    <3>2. Archive!IsPath(archive.plain)  BY <1>t, <3>1, ArchiveBounds
    <3> QED  BY <2>1, <3>1, <3>2 DEF Archive!IsPath
  <2> QED  BY <2>2, <2>3
<1>2. CASE Archive!Extracts
  <2> SUFFICES ASSUME archive.kind = "raw" PROVE Beside'  BY <1>2 DEF Archive!Extracts
  <2> DEFINE p == Archive!Target(Archive!Member.path)
             d0 == [path |-> p, origin |-> Archive!Member.path]
  <2>1. p = [dir |-> Archive!Member.path.dir, stem |-> Archive!Member.path.stem, copy |-> p.copy]
    BY <1>2, TargetIs DEF Archive!Extracts, Plain
  <2>2. archive' = archive /\ (found' = found \/ found' = found \cup {d0})
    BY <1>2 DEF Archive!Extracts
  <2> HIDE DEF p
  <2>3. d0.path = [dir |-> d0.origin.dir, stem |-> d0.origin.stem, copy |-> d0.path.copy]
    BY <2>1
  <2> HIDE DEF d0
  <2> QED  BY <2>2, <2>3
<1>3. CASE Archive!Discover  BY <1>3 DEF Archive!Discover
<1>4. CASE Archive!Again  BY <1>4 DEF Archive!Again
<1>5. CASE UNCHANGED <<archive, found>>  BY <1>5
<1>6. \/ Archive!Open \/ Archive!Extracts \/ Archive!Discover \/ Archive!Again
      \/ UNCHANGED <<archive, found>>
  BY DEF Archive!Next, Archive!Advance, Archive!Skip, Archive!Fails, Archive!Nested,
     Archive!Found, Archive!Convert, Archive!ConvertFails, Archive!Return, Archive!Kill,
     Archive!exVars
<1> QED  BY <1>1, <1>2, <1>3, <1>4, <1>5, <1>6

\* The name of an image, with the parts that tell it from others.
LEMMA NameIs ==
    ASSUME NEW d, NEW n
    PROVE  /\ archive.kind = "raw" =>
                  Archive!Name(d, n) = Archive!Name_(d.path.stem, d.path.copy, d.origin, 0)
           /\ archive.kind = "ami" => Archive!Name(d, n).n = n
<1>1. ASSUME archive.kind = "raw"
      PROVE  Archive!Name(d, n) = Archive!Name_(d.path.stem, d.path.copy, d.origin, 0)
  BY <1>1, Zenon DEF Archive!Name
<1>2. ASSUME archive.kind = "ami" PROVE Archive!Name(d, n).n = n
  <2> DEFINE plain == Archive!Name_(d.path.stem, d.path.copy, None, n)
  <2>1. Archive!Name(d,
       n) = IF plain \in DOMAIN images THEN [plain EXCEPT !.from = d.path] ELSE plain
    BY <1>2, Zenon DEF Archive!Name
  <2>2. plain.n = n /\ [plain EXCEPT !.from = d.path].n = n  BY DEF Archive!Name_
  <2> QED  BY <2>1, <2>2
<1> QED  BY <1>1, <1>2

\* An image that is added takes no other disk's name.
LEMMA ConvertedNext ==
    ASSUME ArchiveTyped, Beside, Converted, [Archive!Next]_(Archive!exVars) PROVE Converted'
<1>t. /\ (outcome = "ok" => pc = "done") /\ IsFiniteSet(found)  BY DEF ArchiveTyped
<1> USE DEF Converted, Archive!job, Archive!reading, Archive!converting, Archive!Stop
<1>1. CASE Archive!Found
  <2> SUFFICES ASSUME archive.convert PROVE Converted'  BY <1>1 DEF Archive!Found
  <2>1. left' = found /\ found' = found  BY <1>1 DEF Archive!Found
  <2> QED  BY <2>1
<1>2. CASE Archive!Convert
  <2> SUFFICES ASSUME archive.kind \in {"raw", "ami"}, archive.convert
               PROVE  left' \subseteq found' /\ \A d \in (found \ left)' : \E n \in results' : ImageOf(d, n)'
    BY <1>2 DEF Archive!Convert
  <2>1. pc = "convert" /\ UNCHANGED <<run, archive, found>>  BY <1>2 DEF Archive!Convert
  <2>2. left \subseteq found /\ \A d \in found \ left : \E n \in results : ImageOf(d, n)
    BY <2>1
  <2> DEFINE k == Cardinality(found \ left)
             entry(d) == [run |-> run, path |-> d.path]
  <2>3. PICK d0 \in left :
           LET name == Archive!Name(d0, k + 1) IN
           /\ images' = Archive!With(images, name, entry(d0))
           /\ results' = results \cup {name} /\ left' = left \ {d0}
    BY <1>2, Counting DEF Archive!Convert
  <2>n. PICK name : name = Archive!Name(d0, k + 1)  OBVIOUS
  <2>4. /\ (archive.kind = "raw" =>
               name = Archive!Name_(d0.path.stem, d0.path.copy, d0.origin, 0))
        /\ (archive.kind = "ami" => name.n = k + 1)
    BY <2>n, NameIs
  <2>5. /\ results' = results \cup {name} /\ left' = left \ {d0}
        /\ images' = Archive!With(images, name, entry(d0))
    BY <2>n, <2>3
  <2>6. /\ DOMAIN images' = DOMAIN images \cup {name} /\ images'[name] = entry(d0)
        /\ \A q \in DOMAIN images : q # name => images'[q] = images[q]
    BY <2>5 DEF Archive!With
  <2>7. (found \ left)' = (found \ left) \cup {d0}  BY <2>1, <2>2, <2>5
  <2>8. k \in Nat /\ k' = k + 1
    <3> DEFINE S == found \ left
    <3>1. IsFiniteSet(S)  BY <1>t, FS_Subset
    <3>2. d0 \notin S  OBVIOUS
    <3> HIDE DEF S
    <3>3. Cardinality(S) \in Nat /\ Cardinality(S \cup {d0}) = Cardinality(S) + 1
      BY <3>1, <3>2, FS_CardinalityType, FS_AddElement
    <3> QED  BY <2>7, <3>3 DEF S
  <2>9. ASSUME NEW d, d = d0 PROVE \E n \in results' : ImageOf(d, n)'
    <3>1. /\ name \in results' /\ name \in DOMAIN images'
          /\ images'[name] = [run |-> run', path |-> d.path]
      BY <2>1, <2>5, <2>6, <2>9
    <3>2. archive'.kind = "ami" => name.n \in Nat /\ name.n <= Cardinality((found \ left)')
      BY <2>1, <2>4, <2>8
    <3>3. archive'.kind = "raw" => name = Archive!Name_(d.path.stem, d.path.copy, d.origin, 0)
      BY <2>1, <2>4, <2>9
    <3>4. ImageOf(d, name)'  BY <3>1, <3>2, <3>3 DEF ImageOf
    <3> QED  BY <3>1, <3>4
  <2>10. ASSUME NEW d \in found \ left PROVE \E n \in results' : ImageOf(d, n)'
    <3>1. PICK n \in results : ImageOf(d, n)  BY <2>2
    <3>2. n \in results'  BY <2>5
    <3>3. archive.kind = "ami" => n.n \in Nat /\ n.n <= k' /\ n.n # k + 1
      BY <2>8, <3>1 DEF ImageOf
    <3>4. CASE n # name
      <4>1. n \in DOMAIN images' /\ images'[n] = entry(d)
        BY <2>6, <3>1, <3>4 DEF ImageOf
      <4> QED  BY <2>1, <3>1, <3>2, <3>3, <4>1 DEF ImageOf
    <3>5. CASE n = name
      <4>1. archive.kind = "raw"  BY <2>4, <3>3, <3>5
      <4>2. /\ d.path.stem = d0.path.stem /\ d.path.copy = d0.path.copy
            /\ d.origin = d0.origin
        BY <2>4, <3>1, <3>5, <4>1 DEF ImageOf, Archive!Name_
      <4>3. /\ d.path = [dir |-> d.origin.dir, stem |-> d.origin.stem, copy |-> d.path.copy]
            /\ d0.path = [dir |-> d0.origin.dir, stem |-> d0.origin.stem, copy |-> d0.path.copy]
        BY <2>2, <4>1 DEF Beside
      <4>4. d.path = d0.path  BY <4>2, <4>3
      <4>5. n \in DOMAIN images' /\ images'[n] = entry(d)  BY <2>6, <3>5, <4>4
      <4> QED  BY <2>1, <3>1, <3>2, <3>3, <4>1, <4>5 DEF ImageOf
    <3> QED  BY <3>4, <3>5
  <2>11. ASSUME NEW d \in (found \ left)' PROVE \E n \in results' : ImageOf(d, n)'
    <3>1. CASE d = d0  BY <2>9, <3>1
    <3>2. CASE d # d0  BY <2>7, <2>10, <3>2
    <3> QED  BY <3>1, <3>2
  <2> QED  BY <2>1, <2>2, <2>5, <2>11
<1>3. CASE pc' # "convert" /\ outcome' # "ok"  BY <1>3
<1>4. CASE /\ UNCHANGED <<run, archive, found, left, images, results>>
           /\ pc' = "convert" \/ outcome' = "ok" => pc = "convert" \/ outcome = "ok"
  BY <1>4 DEF ImageOf
<1>5. Archive!Found \/ Archive!Convert \/ ~(Archive!Found \/ Archive!Convert)  OBVIOUS
<1>6. ASSUME ~(Archive!Found \/ Archive!Convert)
      PROVE  \/ pc' # "convert" /\ outcome' # "ok"
             \/ /\ UNCHANGED <<run, archive, found, left, images, results>>
                /\ pc' = "convert" \/ outcome' = "ok" => pc = "convert" \/ outcome = "ok"
  <2>1. CASE Archive!Open  BY <1>t, <2>1 DEF Archive!Open
  <2>2. CASE Archive!Skip  BY <1>t, <2>2 DEF Archive!Skip, Archive!Reading
  <2>3. CASE Archive!Extracts  BY <1>t, <2>3 DEF Archive!Extracts, Archive!Reading
  <2>4. CASE Archive!Fails  BY <1>t, <2>4 DEF Archive!Fails, Archive!Reading
  <2>5. CASE Archive!Nested  BY <1>t, <2>5 DEF Archive!Nested
  <2>6. CASE Archive!Discover  BY <1>t, <2>6 DEF Archive!Discover
  <2>7. CASE Archive!ConvertFails  BY <1>t, <2>7 DEF Archive!ConvertFails
  <2>8. CASE Archive!Return  BY <1>t, <2>8 DEF Archive!Return
  <2>9. CASE Archive!Kill  BY <1>t, <2>9 DEF Archive!Kill
  <2>10. CASE Archive!Again  BY <1>t, <2>10 DEF Archive!Again
  <2>11. CASE UNCHANGED Archive!exVars  BY <1>t, <2>11 DEF Archive!exVars
  <2> QED  BY <1>6, <2>1, <2>2, <2>3, <2>4, <2>5, <2>6, <2>7, <2>8, <2>9, <2>10, <2>11
           DEF Archive!Next, Archive!Advance
<1> QED  BY <1>1, <1>2, <1>3, <1>4, <1>5, <1>6

LEMMA ArchiveHolds == ComponentsSpec => [](subject = "archive" => ArchiveInv)
<1>1. ComponentsInit => (subject = "archive" => ArchiveInv)  BY Starts, ArchiveInit
<1>2. (subject = "archive" => ArchiveInv) /\ [ComponentsNext]_all => (subject = "archive"
     => ArchiveInv)'
  BY Steps, ArchiveTypedNext, EachDiskNext, BesideNext, ConvertedNext DEF ArchiveInv
<1> QED  BY <1>1, <1>2, PTL DEF ComponentsSpec

\* A run of a vhd or raw extractor that succeeds has found each disk of its
\* archive, extracted by itself and whole; of the disks of a raw or ami archive
\* each has an image of its own (extract_vhd_or_tar, extract_raw_or_tar,
\* extract_ami_or_tar, convert_image_with_progress).
THEOREM ArchivesAreTrue == ComponentsSpec => []ExtractTrue
<1>1. ArchiveInv => Archive!Complete /\ Archive!OwnImage
  <2>1. ASSUME EachDisk, outcome = "ok", Plain, archive.plain = None,
               NEW i \in DOMAIN archive.members, archive.members[i].what = "disk"
        PROVE  \E d \in found : /\ d.origin = archive.members[i].path
                                /\ extracted[d.path].run = run /\ extracted[d.path].whole
    BY <2>1 DEF EachDisk, OwnDisk
  <2>2. ArchiveInv => Archive!Complete  BY <2>1 DEF ArchiveInv, Archive!Complete, Plain
  <2>3. ArchiveInv => Archive!OwnImage
    BY DEF ArchiveInv, Converted, ImageOf, Archive!OwnImage
  <2> QED  BY <2>2, <2>3
<1>2. (subject = "archive" => ArchiveInv) => ExtractTrue  BY <1>1 DEF ExtractTrue
<1> QED  BY <1>2, ArchiveHolds, PTL

-----------------------------------------------------------------------------
(* VddkDownload: disks read over VDDK.                                     *)

\* The sectors of a file are in their places, from the first one on.
InPlaces(s) == \A i \in 1..Len(s) : s[i][1] = i

\* What is in the part is a beginning of a disk; a part is renamed only when it
\* has been verified; the file, if there is one, is a whole disk, and a call
\* that is over has failed or has left one.
VddkSound ==
    /\ InPlaces(part)
    /\ (~partThere => part = <<>>)
    /\ (pc = "read" => partThere)
    /\ (pc = "replace" => Vddk!Verified)
    /\ (local # <<>> => Vddk!Whole)
    /\ (result = "ok" => Vddk!Whole)
    /\ (pc \in {"close", "disconnect", "done"} => result # "none")

LEMMA VddkAssumed == Vddk!VddkAssumption
BY ComponentsAssumption

\* What a read or a write adds.
LEMMA VddkBounds == ASSUME Vddk!TypeOK
                    PROVE  /\ remote \in Vddk!Versions /\ Vddk!Cap \in Nat \ {0}
                           /\ PerRead \in Nat \ {0} /\ Len(part) \in Nat
BY VddkAssumed DEF Vddk!VddkAssumption, Vddk!TypeOK, Vddk!Versions, Vddk!Cap

LEMMA AppendedKeeps ==
    ASSUME Vddk!TypeOK, NEW n \in Nat
    PROVE  /\ Vddk!Appended(n) \in Seq(Vddk!Sector)
           /\ Len(Vddk!Appended(n)) = Len(part) + n
           /\ InPlaces(part) => InPlaces(Vddk!Appended(n))
<1> DEFINE more == [i \in 1..n |-> <<Len(part) + i, remote>>]
<1>1. remote \in Vddk!Versions /\ Len(part) \in Nat /\ part \in Seq(Vddk!Sector)
  BY VddkBounds DEF Vddk!TypeOK
<1>2. \A i \in 1..n : <<Len(part) + i, remote>> \in Vddk!Sector
  BY <1>1 DEF Vddk!Sector
<1>3. more \in Seq(Vddk!Sector) /\ Len(more) = n
  BY <1>2
<1>4. Vddk!Appended(n) = part \o more
  BY DEF Vddk!Appended
<1>5. part \o more \in Seq(Vddk!Sector) /\ Len(part \o more) = Len(part) + n
  <2>1. part \o more \in Seq(Vddk!Sector) /\ Len(part \o more) = Len(part) + Len(more)
    BY <1>1, <1>3, ConcatProperties
  <2> QED  BY <1>3, <2>1
<1>6. ASSUME InPlaces(part), NEW i \in 1..Len(part) + n PROVE (part \o more)[i][1] = i
  <2>1. CASE i <= Len(part)
    <3>1. i \in 1..Len(part) /\ (part \o more)[i] = part[i]
      BY <2>1, <1>1, <1>3
    <3> QED  BY <3>1, <1>6 DEF InPlaces
  <2>2. CASE i > Len(part)
    <3>1. i - Len(part) \in 1..n /\ (part \o more)[i] = more[i - Len(part)]
      BY <2>2, <1>1, <1>3
    <3>2. more[i - Len(part)] = <<Len(part) + (i - Len(part)), remote>>
      BY <3>1
    <3>3. Len(part) + (i - Len(part)) = i
      BY <1>1
    <3> QED  BY <3>1, <3>2, <3>3
  <2> QED  BY <2>1, <2>2, <1>1
<1> QED  BY <1>4, <1>5, <1>6 DEF InPlaces

LEMMA MostFits ==
    ASSUME Vddk!TypeOK, Len(part) < Vddk!Cap
    PROVE  Vddk!Most \in Nat \ {0} /\ Len(part) + Vddk!Most <= Vddk!Cap
BY VddkBounds DEF Vddk!Most

\* Every variable keeps its type.
LEMMA VddkTypeInit == ASSUME Vddk!Init PROVE Vddk!TypeOK
<1>1. <<>> \in Seq(Vddk!Sector)  BY EmptySeq
<1>2. 1 \in Vddk!Versions /\ 0 \in 0..ReadRetries
  BY VddkAssumed DEF Vddk!VddkAssumption, Vddk!Versions
<1>3. remote \in 1..run  BY DEF Vddk!Init
<1> QED  BY <1>1, <1>2, <1>3 DEF Vddk!Init, Vddk!TypeOK

LEMMA VddkTypeNext == ASSUME Vddk!TypeOK, [Vddk!Next]_(Vddk!vars) PROVE Vddk!TypeOK'
<1> USE VddkAssumed, Vddk!TypeOK
<1> USE DEF Vddk!call, Vddk!session, Vddk!disk, Vddk!Raise
<1>1. CASE Vddk!Select  BY <1>1 DEF Vddk!Select, Vddk!Unconnected, Vddk!TypeOK
<1>2. CASE Vddk!Load  BY <1>2 DEF Vddk!Load, Vddk!Unconnected, Vddk!TypeOK
<1>3. CASE Vddk!Loaded  BY <1>3 DEF Vddk!Loaded, Vddk!TypeOK
<1>4. CASE Vddk!InitOnce  BY <1>4 DEF Vddk!InitOnce, Vddk!Unconnected, Vddk!TypeOK
<1>5. CASE Vddk!Connect  BY <1>5 DEF Vddk!Connect, Vddk!TypeOK
<1>6. CASE Vddk!Open  BY <1>6 DEF Vddk!Open, Vddk!TypeOK
<1>7. CASE Vddk!Decide
  <2>1. part' \in Seq(Vddk!Sector)  BY <1>7, EmptySeq DEF Vddk!Decide, Vddk!TypeOK
  <2>2. torn' \in BOOLEAN  BY <1>7 DEF Vddk!Decide, Vddk!TypeOK, Vddk!Resumable
  <2>3. attempt' \in 0..ReadRetries  BY <1>7 DEF Vddk!Decide, Vddk!TypeOK, Vddk!VddkAssumption
  <2> QED  BY <1>7, <2>1, <2>2, <2>3 DEF Vddk!Decide, Vddk!TypeOK
<1>8. CASE Vddk!Read
  <2>1. part' \in Seq(Vddk!Sector)
    BY <1>8, MostFits, AppendedKeeps DEF Vddk!Read
  <2> QED  BY <1>8, <2>1 DEF Vddk!Read, Vddk!TypeOK, Vddk!VddkAssumption
<1>9. CASE Vddk!ReadFails  BY <1>9 DEF Vddk!ReadFails, Vddk!Transient, Vddk!TypeOK,
     Vddk!VddkAssumption
<1>10. CASE Vddk!WriteFails
  <2>1. part' \in Seq(Vddk!Sector)
    BY <1>10, MostFits, AppendedKeeps DEF Vddk!WriteFails
  <2> QED  BY <1>10, <2>1 DEF Vddk!WriteFails, Vddk!TypeOK
<1>11. CASE Vddk!Verify  BY <1>11 DEF Vddk!Verify, Vddk!TypeOK
<1>12. CASE Vddk!Replace
  <2>1. <<>> \in Seq(Vddk!Sector)  BY EmptySeq
  <2> QED  BY <1>12, <2>1 DEF Vddk!Replace, Vddk!Kept, Vddk!TypeOK
<1>13. CASE Vddk!Close  BY <1>13 DEF Vddk!Close, Vddk!TypeOK
<1>14. CASE Vddk!Disconnect  BY <1>14 DEF Vddk!Disconnect, Vddk!TypeOK
<1>15. CASE Vddk!Kill
  <2>1. part' \in Seq(Vddk!Sector)
    <3>1. CASE pc = "read" /\ Len(part) < Vddk!Cap
      BY <1>15, <3>1, MostFits, AppendedKeeps DEF Vddk!Kill
    <3>2. CASE ~(pc = "read" /\ Len(part) < Vddk!Cap)
      BY <1>15, <3>2 DEF Vddk!Kill, Vddk!TypeOK
    <3> QED  BY <3>1, <3>2
  <2>2. torn' \in BOOLEAN
    <3>1. torn \in BOOLEAN  BY DEF Vddk!TypeOK
    <3>2. (Len(part') < Vddk!Cap) \in BOOLEAN  OBVIOUS
    <3>3. torn' \in {torn, Len(part') < Vddk!Cap} \/ torn' = torn  BY <1>15 DEF Vddk!Kill
    <3> QED  BY <3>1, <3>2, <3>3, Zenon
  <2> QED  BY <1>15, <2>1, <2>2 DEF Vddk!Kill, Vddk!TypeOK
<1>16. CASE Vddk!Again  BY <1>16 DEF Vddk!Again, Vddk!TypeOK, Vddk!VddkAssumption, Vddk!Versions
<1>17. CASE UNCHANGED Vddk!vars  BY <1>17 DEF Vddk!vars, Vddk!TypeOK
<1> QED
  BY <1>1, <1>2, <1>3, <1>4, <1>5, <1>6, <1>7, <1>8, <1>9, <1>10, <1>11, <1>12, <1>13,
     <1>14, <1>15, <1>16, <1>17 DEF Vddk!Next, Vddk!Advance

\* What is delivered.
LEMMA VddkSoundInit == ASSUME Vddk!Init PROVE VddkSound
BY DEF Vddk!Init, VddkSound, InPlaces, Vddk!Verified

LEMMA VddkSoundNext ==
    ASSUME Vddk!TypeOK, Vddk!TypeOK', VddkSound, [Vddk!Next]_(Vddk!vars) PROVE VddkSound'
<1> USE VddkAssumed, Vddk!TypeOK, VddkSound
<1> USE DEF Vddk!call, Vddk!session, Vddk!disk, Vddk!Raise
<1>a. ASSUME UNCHANGED <<remote, Vddk!disk, result>>, pc' # "replace",
             pc' = "read" => partThere,
             pc' \in {"close", "disconnect", "done"} => result' # "none"
      PROVE  VddkSound'
  BY <1>a DEF VddkSound, InPlaces, Vddk!Whole
<1>b. ASSUME UNCHANGED Vddk!disk, result' # "ok", pc' # "replace",
             pc' = "read" => partThere,
             pc' \in {"close", "disconnect", "done"} => result' # "none"
      PROVE  VddkSound'
  BY <1>b DEF VddkSound, InPlaces, Vddk!Whole
<1>1. CASE Vddk!Select  BY <1>1, <1>a, <1>b DEF Vddk!Select, Vddk!Unconnected
<1>2. CASE Vddk!Load  BY <1>2, <1>a, <1>b DEF Vddk!Load, Vddk!Unconnected
<1>3. CASE Vddk!Loaded  BY <1>3, <1>a DEF Vddk!Loaded
<1>4. CASE Vddk!InitOnce  BY <1>4, <1>a, <1>b DEF Vddk!InitOnce, Vddk!Unconnected
<1>5. CASE Vddk!Connect  BY <1>5, <1>a, <1>b DEF Vddk!Connect
<1>6. CASE Vddk!Open  BY <1>6, <1>a, <1>b DEF Vddk!Open
<1>7. CASE Vddk!Decide
  <2>1. CASE Vddk!Raise  BY <1>7, <2>1, <1>b DEF Vddk!Decide
  <2>2. CASE ~Vddk!Raise
    <3>1. InPlaces(part)'  BY <1>7, <2>2 DEF Vddk!Decide, VddkSound, InPlaces
    <3> QED  BY <1>7, <2>2, <3>1 DEF Vddk!Decide, VddkSound, Vddk!Whole
  <2> QED  BY <2>1, <2>2
<1>8. CASE Vddk!Read
  <2>1. InPlaces(part)'
    BY <1>8, MostFits, AppendedKeeps DEF Vddk!Read, VddkSound, InPlaces
  <2>2. partThere'  BY <1>8 DEF Vddk!Read, VddkSound
  <2> QED  BY <1>8, <2>1, <2>2 DEF Vddk!Read, VddkSound, Vddk!Whole
<1>9. CASE Vddk!ReadFails  BY <1>9, <1>a, <1>b DEF Vddk!ReadFails, Vddk!Transient, VddkSound
<1>10. CASE Vddk!WriteFails
  <2>1. PICK n \in 0..(Vddk!Most - 1) : part' = Vddk!Appended(n)  BY <1>10 DEF Vddk!WriteFails
  <2>2. n \in Nat  BY <1>10, MostFits DEF Vddk!WriteFails
  <2>3. InPlaces(part)'  BY <2>1, <2>2, AppendedKeeps DEF VddkSound, InPlaces
  <2> QED  BY <1>10, <2>3 DEF Vddk!WriteFails, VddkSound, Vddk!Whole
<1>11. CASE Vddk!Verify
  <2>1. CASE Vddk!Verified
    <3>1. Vddk!Verified'  BY <1>11, <2>1 DEF Vddk!Verify, Vddk!Verified, Vddk!Cap
    <3>2. Vddk!Whole' = Vddk!Whole  BY <1>11, <2>1 DEF Vddk!Verify, Vddk!Whole
    <3>3. InPlaces(part)'  BY <1>11, <2>1 DEF Vddk!Verify, VddkSound, InPlaces
    <3> QED  BY <1>11, <2>1, <3>1, <3>2, <3>3 DEF Vddk!Verify, VddkSound
  <2>2. CASE ~Vddk!Verified  BY <1>11, <2>2, <1>b DEF Vddk!Verify
  <2> QED  BY <2>1, <2>2
<1>12. CASE Vddk!Replace
  <2>1. CASE local' = part /\ part' = <<>> /\ pc' = "close" /\ result' = "ok"
    <3>1. Len(local') = Capacity[remote] /\ remote \in Vddk!Versions
      BY <1>12, <2>1, VddkBounds DEF Vddk!Replace, VddkSound, Vddk!Verified, Vddk!Cap
    <3>2. Vddk!Whole'  BY <2>1, <3>1 DEF VddkSound, InPlaces, Vddk!Whole
    <3> QED  BY <2>1, <3>2 DEF VddkSound, InPlaces
  <2>2. CASE UNCHANGED Vddk!disk /\ Vddk!Raise  BY <2>2, <1>b
  <2> QED  BY <1>12, <2>1, <2>2 DEF Vddk!Replace, Vddk!Kept
<1>13. CASE Vddk!Close  BY <1>13, <1>a DEF Vddk!Close, VddkSound
<1>14. CASE Vddk!Disconnect  BY <1>14, <1>a DEF Vddk!Disconnect, VddkSound
<1>15. CASE Vddk!Kill
  <2>1. InPlaces(part)' /\ (~partThere' => part' = <<>>)
    <3>1. CASE pc = "read" /\ Len(part) < Vddk!Cap
      <4>1. PICK n \in 0..Vddk!Most : part' = Vddk!Appended(n)  BY <1>15, <3>1 DEF Vddk!Kill
      <4>2. n \in Nat  BY <3>1, MostFits
      <4> QED  BY <1>15, <3>1, <4>1, <4>2, AppendedKeeps DEF Vddk!Kill, VddkSound, InPlaces
    <3>2. CASE ~(pc = "read" /\ Len(part) < Vddk!Cap)
      BY <1>15, <3>2 DEF Vddk!Kill, VddkSound, InPlaces
    <3> QED  BY <3>1, <3>2
  <2> QED  BY <1>15, <2>1 DEF Vddk!Kill, VddkSound, Vddk!Whole
<1>16. CASE Vddk!Again  BY <1>16, <1>b DEF Vddk!Again
<1>17. CASE UNCHANGED Vddk!vars  BY <1>17 DEF Vddk!vars, VddkSound, InPlaces, Vddk!Whole,
     Vddk!Verified, Vddk!Cap
<1> QED
  BY <1>1, <1>2, <1>3, <1>4, <1>5, <1>6, <1>7, <1>8, <1>9, <1>10, <1>11, <1>12, <1>13,
     <1>14, <1>15, <1>16, <1>17 DEF Vddk!Next, Vddk!Advance

LEMMA VddkHolds == ComponentsSpec => [](subject = "vddk" => Vddk!TypeOK /\ VddkSound)
<1>1. ComponentsInit => (subject = "vddk" => Vddk!TypeOK /\ VddkSound)
  BY Starts, VddkTypeInit, VddkSoundInit
<1>2. (subject = "vddk" => Vddk!TypeOK /\ VddkSound) /\ [ComponentsNext]_all
      => (subject = "vddk" => Vddk!TypeOK /\ VddkSound)'
  BY Steps, VddkTypeNext, VddkSoundNext
<1> QED  BY <1>1, <1>2, PTL DEF ComponentsSpec

\* Sectors that were read stay in the part until it cannot be resumed or takes
\* the name of the file (download_vmdk, resume).
LEMMA PartStaysNext ==
    ASSUME Vddk!TypeOK, VddkSound, [Vddk!Next]_(Vddk!vars) PROVE Vddk!PartStays
<1> USE VddkAssumed
<1> USE DEF Vddk!call, Vddk!session, Vddk!disk, Vddk!Raise
<1>1. ASSUME part' = part PROVE Vddk!PartStays  BY <1>1, VddkBounds DEF Vddk!PartStays
<1>2. ASSUME NEW n \in Nat, part' = Vddk!Appended(n) PROVE Vddk!PartStays
  <2>1. Len(part') >= Len(part)  BY <1>2, VddkBounds, AppendedKeeps
  <2> QED  BY <2>1, <1>2, VddkBounds, AppendedKeeps DEF Vddk!PartStays
<1>3. CASE Vddk!Decide
  <2>1. CASE Vddk!Resumable \/ part' = part  BY <1>1, <1>3, <2>1 DEF Vddk!Decide
  <2>2. CASE ~Vddk!Resumable /\ part' # part
    <3>1. part # <<>>  BY <1>3, <2>2 DEF Vddk!Decide
    <3>2. torn \/ Len(part) > Vddk!Cap
      BY <2>2, <3>1, VddkBounds DEF Vddk!Resumable, VddkSound
    <3> QED  BY <3>2 DEF Vddk!PartStays
  <2> QED  BY <2>1, <2>2
<1>4. CASE Vddk!Read  BY <1>2, <1>4, MostFits DEF Vddk!Read
<1>5. CASE Vddk!WriteFails
  <2>1. PICK n \in 0..(Vddk!Most - 1) : part' = Vddk!Appended(n)  BY <1>5 DEF Vddk!WriteFails
  <2>2. n \in Nat  BY <1>5, MostFits DEF Vddk!WriteFails
  <2> QED  BY <1>2, <2>1, <2>2
<1>6. CASE Vddk!Replace  BY <1>1, <1>6 DEF Vddk!Replace, Vddk!PartStays
<1>7. CASE Vddk!Kill
  <2>1. CASE pc = "read" /\ Len(part) < Vddk!Cap
    <3>1. PICK n \in 0..Vddk!Most : part' = Vddk!Appended(n)  BY <1>7, <2>1 DEF Vddk!Kill
    <3>2. n \in Nat  BY <2>1, MostFits
    <3> QED  BY <1>2, <3>1, <3>2
  <2>2. CASE ~(pc = "read" /\ Len(part) < Vddk!Cap)  BY <1>1, <1>7, <2>2 DEF Vddk!Kill
  <2> QED  BY <2>1, <2>2
<1>8. CASE Vddk!Select \/ Vddk!Load \/ Vddk!InitOnce
  BY <1>1, <1>8 DEF Vddk!Select, Vddk!Load, Vddk!InitOnce, Vddk!Unconnected
<1>9. CASE \/ Vddk!Loaded \/ Vddk!Connect \/ Vddk!Open \/ Vddk!ReadFails \/ Vddk!Verify
          \/ Vddk!Close \/ Vddk!Disconnect \/ Vddk!Again
  BY <1>1, <1>9 DEF Vddk!Loaded, Vddk!Connect, Vddk!Open, Vddk!ReadFails, Vddk!Verify,
       Vddk!Close, Vddk!Disconnect, Vddk!Again
<1>10. CASE UNCHANGED Vddk!vars  BY <1>1, <1>10 DEF Vddk!vars
<1> QED  BY <1>3, <1>4, <1>5, <1>6, <1>7, <1>8, <1>9, <1>10 DEF Vddk!Next, Vddk!Advance

\* The abstract specification.
LEMMA VddkDeliveryInit == ASSUME Vddk!Init PROVE Vddk!Promise!Init
<1>1. <<"none">> = [f \in {1} |-> "none"]  OBVIOUS
<1> QED  BY <1>1 DEF Vddk!Init, Vddk!Promise!Init

LEMMA VddkDelivers ==
    ASSUME Vddk!TypeOK, VddkSound, VddkSound', [Vddk!Next]_(Vddk!vars)
    PROVE  [Vddk!Promise!Next]_(Vddk!Promise!vars)
<1> DEFINE told1 == <<IF pc = "done" THEN result ELSE "none">>
           there == IF Vddk!Whole THEN {1} ELSE {}
<1> USE VddkAssumed, Vddk!TypeOK, VddkSound
<1> USE DEF Vddk!call, Vddk!session, Vddk!disk, Vddk!Raise
<1>0. \A x : <<x>> = [f \in {1} |-> x]  OBVIOUS
<1>a. ASSUME local' = local PROVE there' = there  BY <1>a DEF Vddk!Whole
<1>b. ASSUME there' = there, told1' = told1 PROVE UNCHANGED Vddk!Promise!vars
  BY <1>b DEF Vddk!Promise!vars
<1>c. ASSUME there' = there, pc # "done", pc' = "done", result' = "failed"
      PROVE  Vddk!Promise!Next
  <2>1. told1 = [f \in {1} |-> "none"] /\ told1' = [f \in {1} |-> "failed"]
    BY <1>c, <1>0
  <2>2. Vddk!Promise!Fail(1)  BY <1>c, <2>1 DEF Vddk!Promise!Fail
  <2> QED  BY <2>2 DEF Vddk!Promise!Next
<1>1. CASE Vddk!Replace
  <2>1. told1' = told1  BY <1>1 DEF Vddk!Replace
  <2>2. CASE local' = local  BY <2>1, <2>2, <1>a, <1>b
  <2>3. CASE local' = part /\ result' = "ok"
    <3>1. Vddk!Whole'  BY <2>3 DEF VddkSound
    <3>2. there' = there \cup {1}  BY <3>1
    <3>3. Vddk!Promise!Deliver(1)  BY <2>1, <3>2 DEF Vddk!Promise!Deliver
    <3> QED  BY <3>3 DEF Vddk!Promise!Next
  <2> QED  BY <1>1, <2>2, <2>3 DEF Vddk!Replace, Vddk!Kept
<1>2. CASE Vddk!Disconnect
  <2>1. there' = there  BY <1>2, <1>a DEF Vddk!Disconnect
  <2>2. told1 = [f \in {1} |-> "none"] /\ told1' = [f \in {1} |-> result]
    BY <1>2, <1>0 DEF Vddk!Disconnect
  <2>3. CASE result = "failed"  BY <1>2, <1>c, <2>1, <2>3 DEF Vddk!Disconnect
  <2>4. CASE result = "ok"
    <3>1. Vddk!Whole  BY <2>4 DEF VddkSound
    <3>2. Vddk!Promise!Succeed(1)  BY <2>1, <2>2, <2>4, <3>1 DEF Vddk!Promise!Succeed
    <3> QED  BY <3>2 DEF Vddk!Promise!Next
  <2> QED  BY <1>2, <2>3, <2>4 DEF Vddk!Disconnect, VddkSound, Vddk!TypeOK
<1>3. CASE Vddk!Again
  <2>1. there' = there  BY <1>3, <1>a DEF Vddk!Again
  <2>2. told1' = [f \in {1} |-> "none"]  BY <1>3, <1>0 DEF Vddk!Again
  <2>3. Vddk!Promise!Again  BY <2>1, <2>2 DEF Vddk!Promise!Again
  <2> QED  BY <2>3 DEF Vddk!Promise!Next
<1>4. CASE Vddk!Select \/ Vddk!Load \/ Vddk!InitOnce
  <2>1. there' = there
    BY <1>4, <1>a DEF Vddk!Select, Vddk!Load, Vddk!InitOnce, Vddk!Unconnected
  <2>2. CASE pc' = "done"
    BY <1>4, <1>c, <2>1, <2>2 DEF Vddk!Select, Vddk!Load, Vddk!InitOnce, Vddk!Unconnected
  <2>3. CASE pc' # "done"
    BY <1>4, <1>b, <2>1, <2>3 DEF Vddk!Select, Vddk!Load, Vddk!InitOnce, Vddk!Unconnected
  <2> QED  BY <2>2, <2>3
<1>5. CASE Vddk!Connect
  <2>1. there' = there  BY <1>5, <1>a DEF Vddk!Connect
  <2> QED  BY <1>5, <1>b, <1>c, <2>1 DEF Vddk!Connect
<1>6. CASE Vddk!Loaded \/ Vddk!Open \/ Vddk!Decide \/ Vddk!Read \/ Vddk!ReadFails
     \/ Vddk!WriteFails \/ Vddk!Verify \/ Vddk!Close \/ Vddk!Kill
  <2>1. there' = there
    BY <1>6, <1>a DEF Vddk!Loaded, Vddk!Open, Vddk!Decide, Vddk!Read, Vddk!ReadFails,
         Vddk!WriteFails, Vddk!Verify, Vddk!Close, Vddk!Kill
  <2>2. told1' = told1
    BY <1>6 DEF Vddk!Loaded, Vddk!Open, Vddk!Decide, Vddk!Read, Vddk!ReadFails, Vddk!Transient,
         Vddk!WriteFails, Vddk!Verify, Vddk!Close, Vddk!Kill
  <2> QED  BY <1>b, <2>1, <2>2
<1>7. CASE UNCHANGED Vddk!vars
  BY <1>7, <1>a, <1>b DEF Vddk!vars
<1> QED  BY <1>1, <1>2, <1>3, <1>4, <1>5, <1>6, <1>7 DEF Vddk!Next, Vddk!Advance

-----------------------------------------------------------------------------
(* WindowsFixer: its theorems carry over, for Windows and the module that  *)
(* WindowsFixer_proofs extends are the same: unfolded, no difference is    *)
(* left.                                                                   *)

Proved == INSTANCE WindowsFixer_proofs WITH files <- put

LEMMA SameWindows ==
    /\ Windows!WindowsAssumption => Proved!WindowsAssumption
    /\ Windows!Init <=> Proved!Init
    /\ [Windows!Next]_(Windows!vars) <=> [Proved!Next]_(Proved!vars)
    /\ Windows!Recoverable <=> Proved!Recoverable
    /\ Windows!ScriptThere <=> Proved!ScriptThere
    /\ Windows!EntriesStay <=> Proved!EntriesStay
<1>1. Windows!WindowsAssumption => Proved!WindowsAssumption
  BY DEF
     Windows!Kinds, Proved!Kinds, Windows!GuestType, Proved!GuestType, Windows!CallType,
     Proved!CallType, Windows!Keys, Proved!Keys, Windows!Entries, Proved!Entries,
     Windows!WindowsAssumption, Proved!WindowsAssumption
<1>2. Windows!Init <=> Proved!Init
  BY DEF
     Windows!Hives, Proved!Hives, Windows!Seconds, Proved!Seconds, Windows!Own, Proved!Own,
     Windows!Init, Proved!Init
<1>3. [Windows!Next]_(Windows!vars) <=> [Proved!Next]_(Proved!vars)
  BY DEF
     Windows!vars, Proved!vars, Windows!registry, Proved!registry, Windows!copies,
     Proved!copies, Windows!payload, Proved!payload, Windows!Call, Proved!Call, Windows!H,
     Proved!H, Windows!Own, Proved!Own, Windows!Staged, Proved!Staged, Windows!Goto,
     Proved!Goto, Windows!Fail, Proved!Fail, Windows!Succeed, Proved!Succeed, Windows!Begin,
     Proved!Begin, Windows!Remounted, Proved!Remounted, Windows!EnsureRoot, Proved!EnsureRoot,
     Windows!Backup, Proved!Backup, Windows!BackupFailed, Proved!BackupFailed, Windows!BackUp,
     Proved!BackUp, Windows!Download, Proved!Download, Windows!Detected, Proved!Detected,
     Windows!Target, Proved!Target, Windows!WithService, Proved!WithService,
     Windows!WithDevices, Proved!WithDevices, Windows!WithDrivers, Proved!WithDrivers,
     Windows!Erroneous, Proved!Erroneous, Windows!WithPath, Proved!WithPath, Windows!WithDword,
     Proved!WithDword, Windows!WithRunOnce, Proved!WithRunOnce, Windows!WithFirstboot,
     Proved!WithFirstboot, Windows!Edits, Proved!Edits, Windows!Edit, Proved!Edit,
     Windows!Upload, Proved!Upload, Windows!Verify, Proved!Verify, Windows!Mode, Proved!Mode,
     Windows!Snapshot, Proved!Snapshot, Windows!Stage, Proved!Stage, Windows!WriteScript,
     Proved!WriteScript, Windows!Bcd, Proved!Bcd, Windows!Tick, Proved!Tick, Windows!Kill,
     Proved!Kill, Windows!Over, Proved!Over, Windows!Advance, Proved!Advance, Windows!Next,
     Proved!Next
<1>4. Windows!Recoverable <=> Proved!Recoverable
  BY DEF
     Windows!Hives, Proved!Hives, Windows!Seconds, Proved!Seconds, Windows!Recoverable,
     Proved!Recoverable
<1>5. Windows!ScriptThere <=> Proved!ScriptThere
  BY DEF
     Windows!ScriptThere, Proved!ScriptThere
<1>6. Windows!EntriesStay <=> Proved!EntriesStay
  BY DEF
     Windows!Hives, Proved!Hives, Windows!Overrides, Proved!Overrides, Windows!EntriesStay,
     Proved!EntriesStay
<1> QED  BY <1>1, <1>2, <1>3, <1>4, <1>5, <1>6

\* A behaviour about Windows keeps WindowsFixer_proofs' invariant.
LEMMA WindowsStep ==
    ASSUME Proved!IInv, [Windows!Next]_(Windows!vars)
    PROVE  Proved!IInv' /\ Windows!EntriesStay
<1>1. Proved!WindowsAssumption /\ [Proved!Next]_(Proved!vars)
  BY ComponentsAssumption, SameWindows
<1>2. Proved!IInv'  BY <1>1, Proved!InvNext
<1>3. Proved!EntriesStay  BY <1>1, Proved!EntriesNext
<1> QED  BY <1>2, <1>3, SameWindows

LEMMA WindowsHolds == ComponentsSpec => [](subject = "windows" => Proved!IInv)
<1>1. ComponentsInit => (subject = "windows" => Proved!IInv)
  BY ComponentsAssumption, Starts, SameWindows, Proved!InvInit
<1>2. (subject = "windows" => Proved!IInv) /\ [ComponentsNext]_all
      => (subject = "windows" => Proved!IInv)'
  BY Steps, WindowsStep
<1> QED  BY <1>1, <1>2, PTL DEF ComponentsSpec

\* A torn hive can be had back from a backup, and a service that Windows starts
\* has its script, whatever calls were made, failed or were killed
\* (_hive_backup_best_effort, provision_firstboot_payload_and_service).
THEOREM HivesRecoverable == ComponentsSpec => []WindowsTrue
<1>1. Proved!IInv => Windows!Recoverable /\ Windows!ScriptThere
  BY SameWindows, Proved!ServiceHasScript DEF Proved!IInv, Proved!Safe
<1>2. (subject = "windows" => Proved!IInv) => WindowsTrue  BY <1>1 DEF WindowsTrue
<1> QED  BY <1>2, WindowsHolds, PTL

-----------------------------------------------------------------------------
(* AzureExport, and what several components have in common.                *)

LEMMA AzureHolds == ComponentsSpec => [](subject = "azure" => IInv)
<1>1. ComponentsInit => (subject = "azure" => IInv)  BY Starts, IInvInit
<1>2. (subject = "azure" => IInv) /\ [ComponentsNext]_all => (subject = "azure" => IInv)'
  BY Steps, IInvStep
<1> QED  BY <1>1, <1>2, PTL DEF ComponentsSpec

\* A VHD holds the bytes of one snapshot, over any number of reads and broken
\* connections (download_http_with_resume); and when fetch has returned nothing it
\* made is left in the cloud, unless it was asked to keep it or a call of Azure
\* failed (AzureSourceProvider.fetch).
THEOREM AzureIsTrue == ComponentsSpec => []AzureTrue
<1>1. IInv => OneImage  BY DEF IInv, Own, OneImage
<1>2. IInv => CleanedUp  BY NothingLeft
<1>3. (subject = "azure" => IInv) => AzureTrue  BY <1>1, <1>2 DEF AzureTrue
<1> QED  BY <1>3, AzureHolds, PTL

\* A resource is deleted after its SAS is revoked, and a snapshot after the
\* temporary disk made of it.
THEOREM RemovalsInOrder == ComponentsSpec => AzureOrder
<1>1. (subject = "azure" => IInv) /\ [ComponentsNext]_all
      => [subject = "azure" => RemovedInOrder]_all
  BY Steps, RemovedNext
<1> QED  BY <1>1, AzureHolds, PTL DEF ComponentsSpec, AzureOrder

\* Exports of disks, downloads over VDDK, exports by govc and conversions of
\* images implement FileDelivery: a file appears whole under its name, stays, and
\* is reported only when it is there (fetch, vddk_download_disk,
\* GovcNfcExporter.export, convert_image_with_progress).
THEOREM DeliveryKept == ComponentsSpec => FilesDelivered
<1> DEFINE Known == /\ subject = "azure" => IInv
                    /\ subject = "vddk" => Vddk!TypeOK /\ VddkSound
                    /\ subject = "nfc" => NfcInv
                    /\ subject = "image" => ImageInv
           Kept_ == /\ subject = "azure" => Promise!Next \/ UNCHANGED Promise!vars
                    /\ subject = "vddk" => Vddk!Promise!Next \/ UNCHANGED Vddk!Promise!vars
                    /\ subject = "nfc" => Nfc!Promise!Next \/ UNCHANGED Nfc!Promise!vars
                    /\ subject = "image" => Image!Promise!Next \/ UNCHANGED Image!Promise!vars
<1>1. ComponentsInit => /\ subject = "azure" => Promise!Init
                        /\ subject = "vddk" => Vddk!Promise!Init
                        /\ subject = "nfc" => Nfc!Promise!Init
                        /\ subject = "image" => Image!Promise!Init
  BY Starts, PromiseInit, VddkDeliveryInit, NfcDeliveryInit, ImageDeliveryInit
<1>2. Known /\ Known' /\ [ComponentsNext]_all => Kept_
  <2> SUFFICES ASSUME Known, Known', [ComponentsNext]_all PROVE Kept_  OBVIOUS
  <2>1. subject' = subject  BY Steps
  <2>2. CASE subject = "azure"
    <3>1. [Promise!Next]_(Promise!vars)  BY <2>1, <2>2, Steps, PromiseStep
    <3> QED  BY <2>2, <3>1
  <2>3. CASE subject = "vddk"
    <3>1. [Vddk!Promise!Next]_(Vddk!Promise!vars)  BY <2>1, <2>3, Steps, VddkDelivers
    <3> QED  BY <2>3, <3>1
  <2>4. CASE subject = "nfc"
    <3>1. [Nfc!Promise!Next]_(Nfc!Promise!vars)  BY <2>1, <2>4, Steps, NfcDelivers
    <3> QED  BY <2>4, <3>1
  <2>5. CASE subject = "image"
    <3>1. [Image!Promise!Next]_(Image!Promise!vars)  BY <2>1, <2>5, Steps, ImageDelivers
    <3> QED  BY <2>5, <3>1
  <2> QED  BY <2>2, <2>3, <2>4, <2>5
<1>3. ComponentsSpec => []Known  BY AzureHolds, VddkHolds, NfcHolds, ImageHolds, PTL
<1> HIDE DEF Known
<1> QED  BY <1>1, <1>2, <1>3, PTL DEF ComponentsSpec, FilesDelivered

\* Sectors read over VDDK stay in the part, members extracted from an archive
\* stay whole, unless the run says otherwise (download_vmdk, extract_vhd_or_tar,
\* extract_raw_or_tar).
THEOREM NothingFetchedGoes == ComponentsSpec => FetchedStays
<1>1. /\ subject = "vddk" => Vddk!TypeOK /\ VddkSound
      /\ subject = "archive" => ArchiveInv
      /\ [ComponentsNext]_all
      => [/\ subject = "vddk" => Vddk!PartStays
          /\ subject = "archive" => Archive!StaysWhole]_all
  BY Steps, PartStaysNext, FilesNext DEF ArchiveInv
<1> QED  BY <1>1, VddkHolds, ArchiveHolds, PTL DEF ComponentsSpec, FetchedStays

\* Where a move does not break off in the middle, /etc/fstab changes in by-path
\* names only and no line of /etc/default/grub loses its key or options; and a hive
\* that is not torn holds all it held when it was last whole, but for overrides
\* (LiveFixer.run, LiveGrubFixer.run, edit_system_hive).
THEOREM EditsKeep == ComponentsSpec => EditsStay
<1>1. /\ subject = "live" => LiveInv
      /\ subject = "windows" => Proved!IInv
      /\ [ComponentsNext]_all
      => [/\ subject = "live" => Live!LinesStay
          /\ subject = "windows" => Windows!EntriesStay]_all
  BY Steps, LiveFilesNext, WindowsStep DEF LiveInv
<1> QED  BY <1>1, LiveHolds, WindowsHolds, PTL DEF ComponentsSpec, EditsStay
=============================================================================
