------------------------ MODULE OfflineFixer_proofs ------------------------
(***************************************************************************)
(* Theorems about the offline fixer and about its parts.                   *)
(*                                                                         *)
(* The network fixer and the validation suite come first, on their own, as *)
(* any caller may use them: NetInv and Passed say what has become of the   *)
(* files that fix_network_config has gone through, SuiteInv who is under   *)
(* way in each phase of run_all and that its counters count the verdicts.  *)
(* The run has FixerInv: the invariants of its parts, what the boot fixer  *)
(* has told by each of its steps (BootTold), and at which stages the root  *)
(* is mounted and the parts are at work (Staged).  A step of run leaves a  *)
(* part alone but for the few ways listed in Unworked.                     *)
(***************************************************************************)
EXTENDS OfflineFixer, TLAPS, FiniteSetTheorems

\* A guest with any files, before fix_network_config.
NetInit ==
    /\ root \in {"rw", "ro", "none"} /\ dryRun \in BOOLEAN /\ level \in Net!Levels
    /\ \E texts \in Seq(Net!Texts) : Len(texts) <= Files /\ Net!Fixable(texts)
NetSpec == NetInit /\ [][Net!NetNext]_(Net!netVars)

Found == 1..Len(original)

NetTyped ==
    /\ root \in {"rw", "ro", "none"} /\ dryRun \in BOOLEAN /\ level \in Net!Levels
    /\ original \in Seq(Net!Texts) /\ Len(original) <= Files
    /\ content \in [Found -> Net!Texts \cup {Torn}] /\ backup \in [Found -> Net!Texts \cup {None}]
    /\ step \in {"idle", "next", "write", "direct", "restore", "done"} /\ saved \in BOOLEAN
    /\ told \in [Found -> {"none", "unchanged", "modified", "failed"}]
    /\ at \in Nat \ {0} /\ at <= Len(original) + 1
    /\ (step \in {"next", "write", "direct", "restore"} => at \in Found)
    /\ (step = "idle" => at = 1)
    /\ modified \in Nat /\ modified < at /\ failed \in Nat
    /\ failed < at + (IF step = "restore" THEN 1 ELSE 0)

\* The files after this one have not been touched, nor has this one before it is
\* written; a backup of it is what it was; one to be restored is told as failed.
Ahead ==
    /\ \A f \in Found : f > at \/ (f = at /\ step # "restore") => content[f] = original[f]
    /\ ((step \in {"write", "direct"} /\ saved) \/ step = "restore" => backup[at] = original[at])
    /\ (step = "restore" => told[at] = "failed")

NetInv == NetTyped /\ Ahead /\ Net!ToldTrue

-----------------------------------------------------------------------------
(* What the fixers make of a file is a file.                               *)

LEMMA NewNameOK ==
    ASSUME Net!NetworkAssumption
    PROVE  /\ \A n \in Net!Names \cup Net!Fresh : Net!NewName(n) \in Net!Names \cup Net!Fresh
           /\ Net!NewName(None) = None
<1>1. Net!Renames \subseteq Vmware  BY DEF Net!Renames
<1>2. None \notin Vmware  BY DEF Net!NetworkAssumption, Net!Names
<1> QED  BY <1>1, <1>2 DEF Net!NewName, Net!Names, Net!Fresh

LEMMA FixedOK ==
    ASSUME Net!NetworkAssumption, NEW c \in Net!Texts PROVE Net!Fixed(c) \in Net!Texts
<1>1. /\ Net!NewName(c.dev) \in Net!Names \cup Net!Fresh
      /\ Net!NewName(c.ref) \in Net!Names \cup Net!Fresh \cup {None}
  BY NewNameOK DEF Net!Texts
<1>2. Net!Unpinned(c) \in 0..2  BY DEF Net!Unpinned, Net!Texts
<1>3. Net!FixIfcfg(c) \in Net!Texts
  <2> DEFINE new == [c EXCEPT !.dev = Net!NewName(@), !.ref = Net!NewName(@), !.macs = Net!Unpinned(c),
                              !.token = "none", !.broken = c.token = "device"]
  <2>1. (c.token = "device") \in BOOLEAN  OBVIOUS
  <2>2. new \in Net!Texts  BY <1>1, <1>2, <2>1 DEF Net!Texts
  <2>3. [new EXCEPT !.dhcp = "on"] \in Net!Texts  BY <2>2 DEF Net!Texts
  <2>4. Net!FixIfcfg(c) \in {new, [new EXCEPT !.dhcp = "on"]}  BY DEF Net!FixIfcfg
  <2> HIDE DEF new
  <2> QED  BY <2>2, <2>3, <2>4
<1>4. Net!FixNetplan(c) \in Net!Texts  BY <1>1, <1>2 DEF Net!FixNetplan, Net!Texts
<1>5. Net!FixSystemdNetwork(c) \in Net!Texts  BY <1>1, <1>2 DEF Net!FixSystemdNetwork, Net!Texts
<1>6. Net!FixNetworkManager(c) \in Net!Texts  BY <1>1, <1>2 DEF Net!FixNetworkManager, Net!Texts
<1> QED  BY <1>3, <1>4, <1>5, <1>6 DEF Net!Fixed

\* Fixed looks at the files that were found, not at what is done to them.
LEMMA FixedSame ==
    ASSUME original' = original, level' = level, NEW c
    PROVE  Net!Fixed(c)' = Net!Fixed(c)
<1>1. Net!Edges' = Net!Edges
  BY DEF Net!Edges, Net!EdgesOf, Net!NetplanEdges, Net!SystemdEdges, Net!ConnectionEdges
<1>2. \A n : Net!NewName(n)' = Net!NewName(n)  BY DEF Net!NewName, Net!Renames
<1>3. Net!Unpinned(c)' = Net!Unpinned(c)  BY DEF Net!Unpinned
<1>4. Net!FixIfcfg(c)' = Net!FixIfcfg(c)
  BY <1>1, <1>2, <1>3 DEF Net!FixIfcfg, Net!EdgesSeen, Net!LowerMember
<1>5. Net!FixNetplan(c)' = Net!FixNetplan(c)
  BY <1>1, <1>2, <1>3 DEF Net!FixNetplan, Net!LowerMember
<1>6. Net!FixSystemdNetwork(c)' = Net!FixSystemdNetwork(c)
  BY <1>1, <1>2, <1>3 DEF Net!FixSystemdNetwork
<1>7. Net!FixNetworkManager(c)' = Net!FixNetworkManager(c)
  BY <1>1, <1>2, <1>3 DEF Net!FixNetworkManager
<1> QED  BY <1>4, <1>5, <1>6, <1>7 DEF Net!Fixed

\* An instance has the definitions of its standard modules once more.
LEMMA NetCardinality == \A S : Net!Cardinality(S) = Cardinality(S)
BY DEF Net!Cardinality, Cardinality

LEMMA Domains ==
    ASSUME NetTyped
    PROVE  /\ Len(original) \in Nat /\ DOMAIN content = Found /\ DOMAIN original = Found
           /\ Net!Cardinality(DOMAIN content) = Len(original)
<1>1. Len(original) \in Nat /\ DOMAIN original = Found /\ DOMAIN content = Found
  BY DEF NetTyped, Found
<1>2. \A n \in Nat : Cardinality(1..n) = n
  <2>1. TAKE n \in Nat
  <2>2. Cardinality(1..n) = IF 1 > n THEN 0 ELSE n - 1 + 1
    BY FS_Interval
  <2> QED  BY <2>2
<1> QED  BY <1>1, <1>2, NetCardinality DEF Found

-----------------------------------------------------------------------------
(* The invariant.                                                          *)

LEMMA NetInvInit == ASSUME Net!NetworkAssumption, NetInit PROVE NetInv
<1>1. PICK texts \in Seq(Net!Texts) : Len(texts) <= Files /\ Net!Fixable(texts)
  BY DEF NetInit
<1>2. /\ original = texts /\ content = texts /\ backup = [f \in DOMAIN texts |-> None]
      /\ step = "idle" /\ at = 1 /\ saved = FALSE /\ modified = 0 /\ failed = 0
      /\ told = [f \in DOMAIN texts |-> "none"]
  BY <1>1 DEF Net!Fixable
<1>3. DOMAIN texts = Found /\ Len(original) \in Nat  BY <1>1, <1>2 DEF Found
<1>4. content \in [Found -> Net!Texts \cup {Torn}]
  <2>1. texts \in [1..Len(texts) -> Net!Texts]  BY <1>1
  <2> QED  BY <2>1, <1>2 DEF Found
<1>5. backup \in [Found -> Net!Texts \cup {None}]  BY <1>2, <1>3
<1>6. told \in [Found -> {"none", "unchanged", "modified", "failed"}]  BY <1>2, <1>3
<1>7. root \in {"rw", "ro", "none"} /\ dryRun \in BOOLEAN /\ level \in Net!Levels
  BY DEF NetInit
<1>8. Len(original) <= Files /\ original \in Seq(Net!Texts)  BY <1>1, <1>2
<1>9. saved \in BOOLEAN  BY <1>2, Zenon
<1>10. /\ at \in Nat \ {0} /\ at <= Len(original) + 1
       /\ (step \in {"next", "write", "direct", "restore"} => at \in Found)
       /\ (step = "idle" => at = 1)
       /\ modified \in Nat /\ modified < at /\ failed \in Nat
       /\ failed < at + (IF step = "restore" THEN 1 ELSE 0)
       /\ step \in {"idle", "next", "write", "direct", "restore", "done"}
  BY <1>2, <1>3
<1>11. NetTyped
  BY <1>4, <1>5, <1>6, <1>7, <1>8, <1>9, <1>10, Zenon DEF NetTyped
<1> QED  BY <1>2, <1>3, <1>11 DEF NetInv, Ahead, Net!ToldTrue

\* One step: one case per action of NetNext.
LEMMA NetTypedNext ==
    ASSUME Net!NetworkAssumption, NetTyped, Ahead, [Net!NetNext]_(Net!netVars) PROVE NetTyped'
<1>d. /\ Len(original) \in Nat /\ DOMAIN content = Found /\ DOMAIN original = Found
      /\ Net!Cardinality(DOMAIN content) = Len(original)
  BY Domains
<1>f. ASSUME at \in Found, content[at] = original[at] PROVE Net!Fixed(content[at]) \in Net!Texts
  <2>1. content[at] \in Net!Texts  BY <1>f, <1>d DEF NetTyped, Found
  <2> QED  BY <2>1, FixedOK
<1>1. CASE Net!Start
  <2>1. /\ at' = 1 /\ step = "idle"
        /\ UNCHANGED <<Net!netEnv, original, Net!disk, saved, Net!stats>>
    BY <1>1 DEF Net!Start
  <2>2. step' \in {"done", "next"} /\ (step' = "next" => DOMAIN content # {})
    BY <1>1 DEF Net!Start
  <2>3. /\ UNCHANGED <<root, dryRun, level, saved>>
        /\ UNCHANGED <<original, content, backup, told, modified, failed>>
    BY <2>1 DEF Net!netEnv, Net!disk, Net!stats
  <2>4. step' = "next" => 1 \in 1..Len(original)
    BY <2>2, <1>d DEF Found
  <2>5. Found' = Found  BY <2>3 DEF Found
  <2>6. /\ root' \in {"rw", "ro", "none"} /\ dryRun' \in BOOLEAN /\ level' \in Net!Levels
        /\ saved' \in BOOLEAN
    BY <2>3, Zenon DEF NetTyped, Net!Levels
  <2>7. /\ at' \in Nat \ {0} /\ at' <= Len(original)' + 1
        /\ (step' \in {"next", "write", "direct", "restore"} => at' \in Found')
        /\ modified' \in Nat /\ modified' < at' /\ failed' \in Nat
        /\ failed' < at' + (IF step' = "restore" THEN 1 ELSE 0)
    BY <2>1, <2>2, <2>3, <2>4, <1>d DEF NetTyped, Found
  <2> QED  BY <2>2, <2>3, <2>5, <2>6, <2>7 DEF NetTyped
<1>2. CASE Net!Skip
  BY <1>2, <1>d DEF Net!Skip, Net!Advance, Net!Tell, NetTyped, Found, Net!netEnv, Net!disk
<1>3. CASE Net!DryRun
  BY <1>3, <1>d
  DEF Net!DryRun, Net!Apply, Net!Counted, Net!Advance, Net!Tell, NetTyped, Found, Net!netEnv, Net!disk
<1>4. CASE Net!Backup
  <2>1. at \in Found /\ content[at] \in Net!Texts
    BY <1>4, <1>d DEF Net!Backup, Net!Apply, NetTyped, Ahead, Found
  <2>2. backup' \in [Found -> Net!Texts \cup {None}]  BY <1>4, <2>1 DEF Net!Backup, NetTyped
  <2> QED  BY <1>4, <2>1, <2>2 DEF Net!Backup, Net!Apply, NetTyped, Found, Net!netEnv, Net!stats
<1>5. CASE Net!WriteFail
  BY <1>5 DEF Net!WriteFail, NetTyped, Found, Net!netEnv, Net!disk, Net!stats
<1>6. CASE Net!Write
  <2>1. at \in Found /\ Net!Fixed(content[at]) \in Net!Texts
    BY <1>6, <1>f DEF Net!Write, NetTyped, Ahead, Found
  <2>2. content' \in [Found -> Net!Texts \cup {Torn}]  BY <1>6, <2>1 DEF Net!Write, NetTyped
  <2> QED
    BY <1>6, <1>d, <2>1, <2>2
    DEF Net!Write, Net!Counted, Net!Advance, Net!Tell, NetTyped, Found, Net!netEnv
<1>7. CASE Net!DirectFail
  <2>1. content' \in [Found -> Net!Texts \cup {Torn}]  BY <1>7 DEF Net!DirectFail, NetTyped
  <2> QED
    BY <1>7, <1>d, <2>1 DEF Net!DirectFail, Net!Advance, Net!Tell, NetTyped, Found, Net!netEnv
<1>8. CASE Net!Restore
  <2>1. at \in Found /\ backup[at] \in Net!Texts
    BY <1>8, <1>d DEF Net!Restore, NetTyped, Ahead, Found
  <2>2. content' \in [Found -> Net!Texts \cup {Torn}]  BY <1>8, <2>1 DEF Net!Restore, NetTyped
  <2> QED
    BY <1>8, <1>d, <2>1, <2>2 DEF Net!Restore, Net!Advance, NetTyped, Found, Net!netEnv, Net!stats
<1>9. CASE UNCHANGED Net!netVars
  BY <1>9 DEF Net!netVars, Net!netEnv, Net!disk, Net!stats, NetTyped, Found
<1> QED  BY <1>1, <1>2, <1>3, <1>4, <1>5, <1>6, <1>7, <1>8, <1>9 DEF Net!NetNext

LEMMA AheadNext ==
    ASSUME NetTyped, Ahead, [Net!NetNext]_(Net!netVars) PROVE Ahead'
<1>d. Len(original) \in Nat  BY Domains
<1>a. ASSUME Net!Advance, UNCHANGED original, \A f \in Found : f > at => content'[f] = content[f]
      PROVE  Ahead'
  <2>1. at \in Nat /\ at' = at + 1 /\ Found' = Found /\ step' \in {"done", "next"}
    BY <1>a DEF Net!Advance, NetTyped, Found
  <2>2. ASSUME NEW f \in Found, f > at \/ f = at + 1 PROVE content'[f] = original'[f]
    <3>1. f > at  BY <2>1, <2>2, <1>d DEF Found
    <3> QED  BY <3>1, <1>a DEF Ahead
  <2>3. \A f \in Found : f > at' \/ f = at' => f > at
    BY <2>1, <1>d DEF Found
  <2> QED  BY <2>1, <2>2, <2>3 DEF Ahead
<1>1. CASE Net!Start
  <2>1. /\ at = 1 /\ at' = 1 /\ step = "idle" /\ step' \in {"done", "next"}
        /\ original' = original /\ content' = content
    BY <1>1 DEF Net!Start, NetTyped, Net!disk
  <2> QED  BY <2>1 DEF Ahead, Found
<1>2. CASE Net!Skip  BY <1>2, <1>a DEF Net!Skip, Net!disk
<1>3. CASE Net!DryRun  BY <1>3, <1>a DEF Net!DryRun, Net!disk
<1>4. CASE Net!Backup
  BY <1>4 DEF Net!Backup, Net!Apply, Ahead, NetTyped, Found, Net!stats
<1>5. CASE Net!WriteFail  BY <1>5 DEF Net!WriteFail, Ahead, Found, Net!disk, Net!stats
<1>6. CASE Net!Write
  <2>1. \A f \in Found : f > at => content'[f] = content[f]  BY <1>6 DEF Net!Write, NetTyped, Found
  <2> QED  BY <1>6, <1>a, <2>1 DEF Net!Write
<1>7. CASE Net!DirectFail
  <2>1. \A f \in Found : f > at => content'[f] = content[f]  BY <1>7 DEF Net!DirectFail, NetTyped, Found
  <2>2. CASE saved
    BY <1>7, <2>1, <2>2 DEF Net!DirectFail, Net!Tell, Ahead, NetTyped, Found
  <2>3. CASE ~saved  BY <1>7, <1>a, <2>1, <2>3 DEF Net!DirectFail
  <2> QED  BY <2>2, <2>3
<1>8. CASE Net!Restore
  <2>1. \A f \in Found : f > at => content'[f] = content[f]  BY <1>8 DEF Net!Restore, NetTyped, Found
  <2> QED  BY <1>8, <1>a, <2>1 DEF Net!Restore
<1>9. CASE UNCHANGED Net!netVars  BY <1>9 DEF Net!netVars, Net!netEnv, Net!disk, Net!stats, Ahead, Found
<1> QED  BY <1>1, <1>2, <1>3, <1>4, <1>5, <1>6, <1>7, <1>8, <1>9 DEF Net!NetNext
\* A file that is told of has been passed; the entry of this one is made when
\* it is left.
LEMMA ToldNext ==
    ASSUME Net!NetworkAssumption, NetInv, [Net!NetNext]_(Net!netVars), NetTyped' PROVE Net!ToldTrue'
<1> USE DEF NetInv
<1>d. DOMAIN content = Found /\ DOMAIN content' = Found /\ original' = original /\ level' = level
  <2>1. original' = original /\ level' = level
    BY DEF Net!NetNext, Net!netVars, Net!netEnv, Net!Start, Net!Skip, Net!DryRun, Net!Backup,
           Net!WriteFail, Net!Write, Net!DirectFail, Net!Restore
  <2>2. Found' = Found  BY <2>1 DEF Found
  <2> QED  BY <2>1, <2>2 DEF NetTyped
<1>s. \A f \in Found : Net!Fixed(original[f])' = Net!Fixed(original[f])
  BY <1>d, FixedSame
<1> DEFINE True(f) ==
      /\ told[f] = "modified" => content[f] = Net!Fixed(original[f]) /\ backup[f] = original[f]
      /\ told[f] = "unchanged" => content[f] = original[f]
      /\ content[f] # original[f] => backup[f] = original[f] \/ told[f] = "failed"
<1>t. \A f \in Found : True(f)  BY <1>d DEF Net!ToldTrue
<1>q. SUFFICES ASSUME NEW f \in Found PROVE True(f)'
  BY <1>d DEF Net!ToldTrue
<1>e. CASE content'[f] = content[f] /\ told'[f] = told[f] /\ backup'[f] = backup[f]
  BY <1>e, <1>t, <1>s, <1>d
<1>1. CASE Net!Start  BY <1>1, <1>e DEF Net!Start, Net!disk, Net!stats
<1>2. CASE Net!Skip
  <2>1. CASE f # at
    BY <1>2, <2>1, <1>e DEF Net!Skip, Net!Tell, Net!disk, NetTyped
  <2>2. CASE f = at
    <3>1. content[at] = original[at] /\ content'[at] = content[at] /\ told'[at] \in {"failed", "unchanged"}
      BY <1>2, <2>2 DEF Net!Skip, Net!Tell, Net!disk, NetTyped, Ahead
    <3> QED  BY <3>1, <2>2, <1>d
  <2> QED  BY <2>1, <2>2
<1>3. CASE Net!DryRun
  <2>1. CASE f # at
    BY <1>3, <2>1, <1>e DEF Net!DryRun, Net!Counted, Net!Tell, Net!disk, NetTyped
  <2>2. CASE f = at
    <3>1. told'[at] = "failed"
      BY <1>3, <2>2 DEF Net!DryRun, Net!Counted, Net!Tell, NetTyped
    <3> QED  BY <3>1, <2>2
  <2> QED  BY <2>1, <2>2
<1>4. CASE Net!Backup
  <2>1. content' = content /\ told' = told  BY <1>4 DEF Net!Backup, Net!stats
  <2>2. backup'[f] = backup[f] \/ (f = at /\ backup'[f] = content[f])
    BY <1>4 DEF Net!Backup, NetTyped
  <2>3. f = at => content[f] = original[f]
    BY <1>4 DEF Net!Backup, Net!Apply, Ahead
  <2>4. CASE backup'[f] = backup[f]  BY <2>1, <2>4, <1>e
  <2>5. CASE f = at /\ backup'[f] = original[f]
    BY <2>1, <2>3, <2>5, <1>t, <1>s, <1>d
  <2> QED  BY <2>2, <2>3, <2>4, <2>5
<1>5. CASE Net!WriteFail  BY <1>5, <1>e DEF Net!WriteFail, Net!disk, Net!stats
<1>6. CASE Net!Write
  <2>1. CASE f # at
    BY <1>6, <2>1, <1>e DEF Net!Write, Net!Counted, Net!Tell, NetTyped
  <2>2. CASE f = at
    <3>1. content[at] = original[at] /\ content'[at] = Net!Fixed(content[at]) /\ backup' = backup
      BY <1>6, <2>2 DEF Net!Write, Ahead, NetTyped
    <3>2. CASE saved
      <4>1. backup[at] = original[at]  BY <1>6, <3>2 DEF Net!Write, Ahead
      <4>2. told'[at] = "modified"  BY <1>6, <2>2, <3>2 DEF Net!Write, Net!Counted, Net!Tell, NetTyped
      <4> QED  BY <4>1, <4>2, <3>1, <2>2, <1>s, <1>d
    <3>3. CASE ~saved
      <4>1. told'[at] = "failed"  BY <1>6, <2>2, <3>3 DEF Net!Write, Net!Counted, Net!Tell, NetTyped
      <4> QED  BY <4>1, <2>2
    <3> QED  BY <3>2, <3>3
  <2> QED  BY <2>1, <2>2
<1>7. CASE Net!DirectFail
  <2>1. CASE f # at
    BY <1>7, <2>1, <1>e DEF Net!DirectFail, Net!Tell, NetTyped
  <2>2. CASE f = at
    <3>1. told'[at] = "failed"  BY <1>7, <2>2 DEF Net!DirectFail, Net!Tell, NetTyped
    <3> QED  BY <3>1, <2>2
  <2> QED  BY <2>1, <2>2
<1>8. CASE Net!Restore
  <2>1. CASE f # at
    BY <1>8, <2>1, <1>e DEF Net!Restore, Net!stats, NetTyped
  <2>2. CASE f = at
    <3>1. told'[at] = "failed"  BY <1>8 DEF Net!Restore, Net!stats, Ahead
    <3> QED  BY <3>1, <2>2
  <2> QED  BY <2>1, <2>2
<1>9. CASE UNCHANGED Net!netVars  BY <1>9, <1>e DEF Net!netVars, Net!disk, Net!stats
<1> QED  BY <1>1, <1>2, <1>3, <1>4, <1>5, <1>6, <1>7, <1>8, <1>9 DEF Net!NetNext

LEMMA NetInvNext == ASSUME Net!NetworkAssumption, NetInv, [Net!NetNext]_(Net!netVars) PROVE NetInv'
<1>1. NetTyped'  BY NetTypedNext DEF NetInv
<1>2. Ahead'  BY AheadNext DEF NetInv
<1>3. Net!ToldTrue'  BY <1>1, ToldNext
<1> QED  BY <1>1, <1>2, <1>3 DEF NetInv

LEMMA NetInvHolds == ASSUME Net!NetworkAssumption PROVE NetSpec => []NetInv
<1>1. NetInit => NetInv  BY NetInvInit
<1>2. NetInv /\ [Net!NetNext]_(Net!netVars) => NetInv'  BY NetInvNext
<1> QED  BY <1>1, <1>2, PTL DEF NetSpec

\* The variables of the network fixer keep their types, and no file is counted
\* twice as modified.
THEOREM TypeCorrect == ASSUME Net!NetworkAssumption PROVE NetSpec => []Net!NetworkTypes
<1>1. ASSUME NetInv PROVE Net!NetworkTypes
  <2>1. /\ Len(original) \in Nat /\ DOMAIN content = Found /\ DOMAIN original = Found
        /\ DOMAIN backup = Found /\ Files \in Nat
    BY <1>1, Domains DEF NetInv, NetTyped, Net!NetworkAssumption
  <2>2. \A f \in Found : /\ content[f] \in Net!Texts \cup {Torn} /\ original[f] \in Net!Texts
                       /\ backup[f] \in Net!Texts \cup {None}
    BY <1>1, <2>1 DEF NetInv, NetTyped, Found
  <2>3. /\ at \in 1..(Files + 1) /\ modified \in 0..Files /\ failed \in 0..Files
    BY <1>1, <2>1 DEF NetInv, NetTyped, Found
  <2> QED  BY <1>1, <2>1, <2>2, <2>3, Zenon DEF NetInv, NetTyped, Net!NetworkTypes
<1> QED  BY <1>1, NetInvHolds, PTL

\* The entry that fix_network_config makes of a file is true whatever fails: a
\* file told as modified is what its fixer made of the file that was found, with
\* that one in its backup; one told as unchanged is as it was; a change without
\* a backup is never told as a success.
THEOREM ToldCorrect == ASSUME Net!NetworkAssumption PROVE NetSpec => []ToldTrue
<1>1. NetInv => ToldTrue  BY DEF NetInv, ToldTrue
<1> QED  BY <1>1, NetInvHolds, PTL

-----------------------------------------------------------------------------
(* Renames.                                                                *)

\* As long as no file has failed, each file that was passed is what its fixer
\* made of it, and none of them is of a type that always fails.
Passed ==
    /\ failed = 0 => /\ step # "restore"
                     /\ \A f \in Found : f < at => /\ content[f] = Net!Fixed(original[f])
                                                   /\ ~Net!Raises(original[f])
    /\ step \in {"write", "direct"} => ~Net!Raises(original[at])
    /\ step = "done" => at = 1 \/ at = Len(original) + 1

LEMMA PassedNext ==
    ASSUME Net!NetworkAssumption, NetInv, NetTyped', Passed, [Net!NetNext]_(Net!netVars)
    PROVE  Passed'
<1>d. /\ Len(original) \in Nat /\ DOMAIN content = Found /\ DOMAIN original = Found
      /\ Net!Cardinality(DOMAIN content) = Len(original)
  BY Domains DEF NetInv
<1>o. original' = original /\ level' = level
  BY DEF Net!NetNext, Net!netVars, Net!netEnv, Net!Start, Net!Skip, Net!DryRun, Net!Backup,
         Net!WriteFail, Net!Write, Net!DirectFail, Net!Restore
<1>s. \A f \in Found : Net!Fixed(original[f])' = Net!Fixed(original[f])
  BY <1>o, FixedSame
<1>F. Found' = Found  BY <1>o DEF Found
<1>n. failed \in Nat /\ at \in Nat  BY DEF NetInv, NetTyped
<1> DEFINE Done(f) == content[f] = Net!Fixed(original[f]) /\ ~Net!Raises(original[f])
\* The turn of a file is over: it, and those before it, were passed.
<1>a. ASSUME Net!Advance, failed' = 0 => failed = 0, step # "restore",
             \A f \in Found : f < at => content'[f] = content[f],
             failed' = 0 => at \in Found /\ content'[at] = Net!Fixed(original[at])
                            /\ ~Net!Raises(original[at])
      PROVE  Passed'
  <2>1. at' = at + 1 /\ step' = IF at = Len(original) THEN "done" ELSE "next"
    BY <1>a, <1>d DEF Net!Advance
  <2>2. ASSUME failed' = 0, NEW f \in Found, f < at' PROVE Done(f)'
    <3>0. f \in Nat  BY <1>d DEF Found
    <3>1. f <= at  BY <3>0, <2>1, <2>2, <1>n
    <3>2. CASE f = at
      <4>1. content'[f] = Net!Fixed(original[f]) /\ ~Net!Raises(original[f])
        BY <3>2, <1>a, <2>2
      <4> QED  BY <4>1, <1>s, <1>o DEF Net!Raises
    <3>3. CASE f < at  BY <3>3, <1>a, <2>2, <1>s, <1>o, <1>F DEF Passed, Net!Raises
    <3> QED  BY <3>0, <3>1, <3>2, <3>3, <1>n
  <2> QED  BY <2>1, <2>2, <1>o, <1>F DEF Passed
\* A file that fails leaves nothing to say.
<1>b. ASSUME failed' = failed + 1, step' \in {"next", "done"} => Net!Advance,
             step' \notin {"write", "direct"}
      PROVE  Passed'
  <2>1. failed' # 0  BY <1>b, <1>n
  <2>2. step' = "done" => at' = Len(original) + 1
    BY <1>b, <1>d DEF Net!Advance
  <2> QED  BY <2>1, <2>2, <1>b, <1>o DEF Passed
<1>1. CASE Net!Start
  <2>1. /\ at' = 1 /\ step' \in {"next", "done"} BY <1>1 DEF Net!Start
  <2> QED  BY <2>1, <1>d, <1>F DEF Passed, Found
<1>2. CASE Net!Skip
  <2>1. CASE failed' = failed + 1
    BY <1>2, <2>1, <1>b DEF Net!Skip, Net!Advance
  <2>2. CASE failed' = failed
    <3>1. ~Net!Raises(content[at]) /\ Net!Fixed(content[at]) = content[at]
      BY <1>2, <2>2, <1>n DEF Net!Skip
    <3>2. at \in Found /\ content[at] = original[at] /\ content' = content
      BY <1>2 DEF Net!Skip, NetInv, NetTyped, Ahead, Net!disk
    <3> QED  BY <1>2, <2>2, <3>1, <3>2, <1>a DEF Net!Skip
  <2> QED  BY <1>2, <2>1, <2>2 DEF Net!Skip
<1>3. CASE Net!DryRun
  BY <1>3, <1>b DEF Net!DryRun, Net!Counted, Net!Advance
<1>4. CASE Net!Backup
  <2>1. at \in Found /\ content[at] = original[at] /\ step = "next"
    BY <1>4 DEF Net!Backup, Net!Apply, NetInv, NetTyped, Ahead
  <2>2. /\ ~Net!Raises(original[at]) /\ content' = content /\ at' = at /\ failed' = failed
        /\ step' = "write"
    BY <1>4, <2>1 DEF Net!Backup, Net!Apply, Net!stats
  <2>3. \A f \in Found : (Net!Raises(original[f]))' <=> Net!Raises(original[f])
    BY <1>o DEF Net!Raises
  <2> QED  BY <2>1, <2>2, <2>3, <1>s, <1>F, <1>o DEF Passed
<1>5. CASE Net!WriteFail
  <2>1. /\ step = "write" /\ content' = content /\ at' = at /\ failed' = failed
        /\ step' = "direct" /\ at \in Found
    BY <1>5 DEF Net!WriteFail, Net!disk, Net!stats, NetInv, NetTyped
  <2>3. \A f \in Found : (Net!Raises(original[f]))' <=> Net!Raises(original[f])
    BY <1>o DEF Net!Raises
  <2> QED  BY <2>1, <2>3, <1>s, <1>F, <1>o DEF Passed
<1>6. CASE Net!Write
  <2>1. CASE saved
    <3>1. at \in Found /\ content[at] = original[at] /\ step \in {"write", "direct"}
      BY <1>6 DEF Net!Write, NetInv, NetTyped, Ahead
    <3>2. content' = [content EXCEPT ![at] = Net!Fixed(content[at])] /\ failed' = failed
      BY <1>6, <2>1 DEF Net!Write, Net!Counted
    <3>3. content'[at] = Net!Fixed(original[at]) /\ ~Net!Raises(original[at])
      BY <3>1, <3>2, <1>d DEF Passed
    <3>4. \A f \in Found : f < at => content'[f] = content[f]
      BY <3>2, <1>d, <1>n DEF Found
    <3> QED  BY <1>6, <3>1, <3>2, <3>3, <3>4, <1>a DEF Net!Write
  <2>2. CASE ~saved
    BY <1>6, <2>2, <1>b DEF Net!Write, Net!Counted, Net!Advance
  <2> QED  BY <2>1, <2>2
<1>7. CASE Net!DirectFail
  BY <1>7, <1>b DEF Net!DirectFail, Net!Advance
<1>8. CASE Net!Restore
  <2>1. failed # 0 /\ failed' = failed  BY <1>8 DEF Net!Restore, Passed, Net!stats
  <2>2. step' \in {"next", "done"} /\ (step' = "done" => at' = Len(original) + 1)
    BY <1>8, <1>d DEF Net!Restore, Net!Advance
  <2> QED  BY <2>1, <2>2, <1>o DEF Passed
<1>9. CASE UNCHANGED Net!netVars
  <2>1. \A f \in Found : (Net!Raises(original[f]))' <=> Net!Raises(original[f])
    BY <1>o DEF Net!Raises
  <2>2. /\ content' = content /\ at' = at /\ failed' = failed /\ step' = step
        /\ step \in {"write", "direct"} => at \in Found
    BY <1>9 DEF Net!netVars, Net!disk, Net!stats, NetInv, NetTyped
  <2> QED  BY <2>1, <2>2, <1>s, <1>F, <1>o DEF Passed
<1> QED  BY <1>1, <1>2, <1>3, <1>4, <1>5, <1>6, <1>7, <1>8, <1>9 DEF Net!NetNext

\* What a fixer does to the names in a file of which renames are followed.
LEMMA NamesFixed ==
    ASSUME Net!NetworkAssumption, NEW c \in Net!Texts, Net!Followed(c), ~Net!Raises(c)
    PROVE  /\ Net!Fixed(c).dev = Net!NewName(c.dev)
           /\ Net!Fixed(c).ref = Net!NewName(c.ref)
<1>1. CASE c.type = "ifcfg"
  BY <1>1 DEF Net!Fixed, Net!FixIfcfg, Net!Texts
<1>2. CASE c.type = "networkd"
  <2>1. c.ref \notin Vmware  BY <1>2 DEF Net!Followed
  <2>2. Net!NewName(c.ref) = c.ref  BY <2>1 DEF Net!NewName, Net!Renames
  <2> QED  BY <1>2, <2>2 DEF Net!Fixed, Net!FixSystemdNetwork, Net!Texts
<1>3. CASE c.type = "nm"
  BY <1>3 DEF Net!Fixed, Net!FixNetworkManager, Net!Texts
<1> QED  BY <1>1, <1>2, <1>3 DEF Net!Followed, Net!Raises, Net!Texts, Net!Types

LEMMA RenamesFollow ==
    ASSUME Net!NetworkAssumption, NetInv, Passed PROVE Net!RenamesAgree
<1>1. SUFFICES ASSUME step = "done", failed = 0,
                      \A f \in DOMAIN original : Net!Followed(original[f]),
                      Net!Resolves(original)
               PROVE  Net!Resolves(content)
  BY DEF Net!RenamesAgree
<1>2. DOMAIN content = Found /\ DOMAIN original = Found /\ Len(original) \in Nat
  BY <1>1, Domains DEF NetInv
<1>3. \A f \in Found : original[f] \in Net!Texts  BY <1>1, <1>2 DEF NetInv, NetTyped, Found
<1>4. CASE at = 1
  <2>1. \A f \in Found : content[f] = original[f]  BY <1>1, <1>4 DEF NetInv, Ahead, Found
  <2> QED  BY <2>1, <1>1, <1>2 DEF Net!Resolves
<1>5. CASE at = Len(original) + 1
  <2>1. ASSUME NEW f \in Found
        PROVE  /\ content[f].dev = Net!NewName(original[f].dev)
               /\ content[f].ref = Net!NewName(original[f].ref)
    <3>1. content[f] = Net!Fixed(original[f]) /\ ~Net!Raises(original[f])
      BY <1>1, <1>2, <1>5 DEF Passed, Found
    <3> QED  BY <3>1, <1>1, <1>2, <1>3, NamesFixed
  <2>2. ASSUME NEW f \in Found, content[f].ref # None
        PROVE  \E g \in Found : content[g].dev = content[f].ref
    <3>1. original[f].ref # None  BY <2>1, <2>2, NewNameOK
    <3>2. PICK g \in Found : original[g].dev = original[f].ref
      BY <3>1, <1>1, <1>2 DEF Net!Resolves
    <3> QED  BY <3>2, <2>1
  <2> QED  BY <2>2, <1>2 DEF Net!Resolves
<1> QED  BY <1>1, <1>4, <1>5 DEF Passed

\* When no file has failed, a reference to a device that a file names still names
\* one after the renames, whatever the files are, at every level; if none of
\* them is a netplan file or a networkd file that refers to a VMware name.
THEOREM RenamesFollowed ==
    ASSUME Net!NetworkAssumption PROVE NetSpec => []RenamesAgree
<1>1. NetInit => Passed
  <2>1. SUFFICES ASSUME NetInit PROVE Passed  OBVIOUS
  <2>2. at = 1 /\ step = "idle"  BY <2>1 DEF NetInit, Net!Fixable
  <2> QED  BY <2>2 DEF Passed, Found
<1>2. NetInv /\ NetInv' /\ Passed /\ [Net!NetNext]_(Net!netVars) => Passed'
  BY PassedNext DEF NetInv
<1>3. NetInv /\ Passed => RenamesAgree  BY RenamesFollow DEF RenamesAgree
<1> QED  BY <1>1, <1>2, <1>3, NetInvHolds, PTL DEF NetSpec

-----------------------------------------------------------------------------
(* The validation suite.                                                   *)

Active(i) == call[i] \notin {"none", "over"}
Of(results, r) == {i \in Suite!All : results[i] = r}

Results == {"none", "passed", "failed", "skipped"}
Calls == {"none", "again", "inprocess", "here", "child", "blocked", "ok", "failed",
          "last ok", "last failed", "over"}

SuiteTyped ==
    /\ suite \in Suite!Options
    /\ phase \in {"idle", "start", "A", "B", "fallback", "raised", "done"}
    /\ cursor \in Nat
    /\ call \in [Suite!All -> Calls] /\ attempt \in [Suite!All -> Nat]
    /\ verdict \in [Suite!All -> Results]
    /\ counts \in [passed : Nat, failed : Nat, skipped : Nat]
    /\ failedCritical \in BOOLEAN /\ exit \in {"none", "invalid", "critical", "fail", "ok"}

\* Who is under way: only checks without a result, in phase A and in the fallback
\* only the one at the cursor, before and after the run none.  What phase A
\* leaves may run at any time: it is not critical and depends on nothing.
Orderly ==
    /\ \A i \in Suite!All : Active(i) => verdict[i] = "none"
    /\ phase \in {"idle", "start"} =>
           cursor = 1 /\ \A i \in Suite!All : call[i] = "none" /\ verdict[i] = "none" /\ attempt[i] = 0
    /\ phase \in {"A", "fallback", "raised"} => \A i \in Suite!All : Active(i) => i = cursor
    /\ phase = "A" =>
           /\ \A i \in Suite!All : Active(i) => ~Suite!Parallel(i)
           /\ \A i \in Suite!All : verdict[i] = "none" => i >= cursor \/ Suite!Parallel(i)
    /\ phase \in {"B", "fallback", "raised"} =>
           \A i \in Suite!All : verdict[i] = "none" => Suite!Parallel(i)
    /\ phase = "done" => \A i \in Suite!All : ~Active(i)

\* What has been recorded so far.
Tallied ==
    /\ counts.passed = Cardinality(Of(verdict, "passed"))
    /\ counts.failed = Cardinality(Of(verdict, "failed"))
    /\ counts.skipped = Cardinality(Of(verdict, "skipped"))
Based ==
    \A i \in Suite!All : attempt[i] > 0 =>
        \A d \in suite.checks[i].deps : d \in Suite!All /\ verdict[d] = "passed"
CriticalKnown ==
    failedCritical <=> \E i \in Suite!All : verdict[i] = "failed" /\ suite.checks[i].critical
Concluded ==
    phase = "done" /\ Suite!All # {} =>
        /\ \A i \in Suite!All : verdict[i] # "none"
        /\ exit = "critical" <=> failedCritical
        /\ exit = "ok" => counts.failed = 0

SuiteInv == SuiteTyped /\ Orderly /\ Tallied /\ Based /\ CriticalKnown /\ Concluded /\ Suite!Halted

-----------------------------------------------------------------------------
LEMMA SuiteCardinality == \A S : Suite!Cardinality(S) = Cardinality(S)
BY DEF Suite!Cardinality, Cardinality

LEMMA SuiteShape ==
    ASSUME SuiteTyped
    PROVE  /\ Len(suite.checks) \in Nat /\ Suite!All = 1..Len(suite.checks)
           /\ \A i \in Suite!All : suite.checks[i] \in Suite!CheckSpecs
           /\ Suite!Open = Of(verdict, "none") /\ Suite!Open \subseteq Suite!All
           /\ IsFiniteSet(Suite!All) /\ Cardinality(Suite!All) = Len(suite.checks)
<1>1. suite.checks \in Seq(Suite!CheckSpecs)  BY DEF SuiteTyped, Suite!Options
<1>2. Len(suite.checks) \in Nat /\ Suite!All = 1..Len(suite.checks)
  BY <1>1 DEF Suite!All, Suite!Checks
<1>3. \A i \in Suite!All : suite.checks[i] \in Suite!CheckSpecs
  BY <1>1, <1>2
<1>4. IsFiniteSet(Suite!All) /\ Cardinality(Suite!All) = Len(suite.checks)
  <2>1. \A n \in Nat : IsFiniteSet(1..n) /\ Cardinality(1..n) = n
    <3> TAKE n \in Nat
    <3>1. IsFiniteSet(1..n) /\ Cardinality(1..n) = IF 1 > n THEN 0 ELSE n - 1 + 1
      BY FS_Interval
    <3> QED  BY <3>1
  <2> QED  BY <1>2, <2>1
<1> QED  BY <1>2, <1>3, <1>4 DEF Suite!Open, Of

-----------------------------------------------------------------------------
(* Counting results.                                                       *)

LEMMA OneMore ==
    ASSUME SuiteTyped, NEW i \in Suite!All, verdict[i] = "none",
           NEW r \in Results, r # "none", NEW v, v = [verdict EXCEPT ![i] = r]
    PROVE  /\ Cardinality(Of(v, r)) = Cardinality(Of(verdict, r)) + 1
           /\ \A q : q # r /\ q # "none" => Of(v, q) = Of(verdict, q)
           /\ Cardinality(Of(v, "none")) = Cardinality(Of(verdict, "none")) - 1
           /\ v \in [Suite!All -> Results]
<1>1. v \in [Suite!All -> Results] /\ v[i] = r /\ \A j \in Suite!All : j # i => v[j] = verdict[j]
  BY DEF SuiteTyped
<1>2. Of(v, r) = Of(verdict, r) \cup {i} /\ i \notin Of(verdict, r)
  BY <1>1 DEF Of
<1>3. Of(v, "none") = Of(verdict, "none") \ {i} /\ i \in Of(verdict, "none")
  BY <1>1 DEF Of
<1>4. IsFiniteSet(Of(verdict, r)) /\ IsFiniteSet(Of(verdict, "none"))
  <2>1. Of(verdict, r) \subseteq Suite!All /\ Of(verdict, "none") \subseteq Suite!All
    BY DEF Of
  <2> QED  BY <2>1, SuiteShape, FS_Subset
<1>5. Cardinality(Of(v, r)) = Cardinality(Of(verdict, r)) + 1
  BY <1>2, <1>4, FS_AddElement
<1>6. Cardinality(Of(v, "none")) = Cardinality(Of(verdict, "none")) - 1
  BY <1>3, <1>4, FS_RemoveElement
<1>7. \A q : q # r /\ q # "none" => Of(v, q) = Of(verdict, q)
  BY <1>1 DEF Of
<1> QED  BY <1>1, <1>5, <1>6, <1>7

LEMMA RestSkipped ==
    ASSUME SuiteTyped, NEW v \in [Suite!All -> Results], NEW w, w = Suite!SkipRest(v)
    PROVE  /\ Cardinality(Of(w, "skipped")) = Cardinality(Of(v, "skipped")) + Cardinality(Of(v, "none"))
           /\ Of(w, "passed") = Of(v, "passed") /\ Of(w, "failed") = Of(v, "failed")
           /\ w \in [Suite!All -> Results] /\ \A i \in Suite!All : w[i] # "none"
<1>1. \A i \in Suite!All : w[i] = IF v[i] = "none" THEN "skipped" ELSE v[i]
  BY DEF Suite!SkipRest
<1>2. w \in [Suite!All -> Results]  BY <1>1 DEF Suite!SkipRest, Results
<1>3. /\ Of(w, "skipped") = Of(v, "skipped") \cup Of(v, "none")
      /\ Of(v, "skipped") \cap Of(v, "none") = {}
  BY <1>1 DEF Of
<1>4. IsFiniteSet(Of(v, "skipped")) /\ IsFiniteSet(Of(v, "none"))
  <2>1. Of(v, "skipped") \subseteq Suite!All /\ Of(v, "none") \subseteq Suite!All
    BY DEF Of
  <2> QED  BY <2>1, SuiteShape, FS_Subset
<1>5. /\ Cardinality(Of(v, "skipped")) \in Nat /\ Cardinality(Of(v, "none")) \in Nat
      /\ Cardinality(Of(w, "skipped")) = Cardinality(Of(v, "skipped")) + Cardinality(Of(v, "none")) - Cardinality({})
  BY <1>3, <1>4, FS_Union, FS_CardinalityType
<1>6. Cardinality({}) = 0  BY FS_EmptySet
<1>7. Of(w, "passed") = Of(v, "passed") /\ Of(w, "failed") = Of(v, "failed")
  BY <1>1 DEF Of
<1> QED  BY <1>1, <1>2, <1>5, <1>6, <1>7

-----------------------------------------------------------------------------
(* What a step does to the results: nothing, or it records one, or it ends *)
(* the run, or it ends the run because of a critical failure.              *)

Critical(i) == suite.checks[i].critical
Nothing ==
    /\ UNCHANGED <<verdict, counts, failedCritical>>
    /\ phase' = "done" => Suite!All = {} \/ (phase = "done" /\ exit' = exit)
    /\ phase = "done" => phase' = "done"
Result(i, r) ==
    /\ verdict[i] = "none" /\ verdict' = [verdict EXCEPT ![i] = r]
    /\ counts' = [counts EXCEPT ![r] = @ + 1]
    /\ failedCritical' = (failedCritical \/ (r = "failed" /\ Critical(i)))
    /\ r = "failed" /\ Critical(i) => ~suite.stop
    /\ phase # "done" /\ phase' # "done"
OneResult == \E i \in Suite!All, r \in {"passed", "failed", "skipped"} : Result(i, r)
Ends ==
    /\ verdict' = Suite!SkipRest(verdict) /\ UNCHANGED failedCritical
    /\ counts' = Suite!AddSkipped(counts, Cardinality(Of(verdict, "none")))
    /\ phase # "done" /\ phase' = "done"
    /\ \/ exit' = "fail" /\ ~failedCritical
       \/ exit' = Suite!ExitCode(failedCritical, counts.failed = 0)
HaltsAt(i) ==
    /\ verdict[i] = "none" /\ Critical(i)
    /\ verdict' = Suite!SkipRest([verdict EXCEPT ![i] = "failed"])
    /\ counts' = Suite!AddSkipped([counts EXCEPT !.failed = @ + 1],
                                  Cardinality(Of(verdict, "none")) - 1)
    /\ failedCritical' = TRUE /\ phase' = "done"
    /\ exit' = Suite!ExitCode(TRUE, FALSE)
Halts == \E i \in Suite!All : HaltsAt(i)

\* The cases in which a suite ends without a critical failure.
LEMMA FinishEnds ==
    ASSUME SuiteTyped, Suite!Finish, phase # "done" PROVE Ends
BY SuiteShape, SuiteCardinality DEF Suite!Finish, Ends

LEMMA Effects ==
    ASSUME SuiteInv, Suite!SuiteNext PROVE suite' = suite /\ (Nothing \/ OneResult \/ Ends \/ Halts)
<1> USE DEF SuiteInv
<1>s. /\ Len(suite.checks) \in Nat /\ Suite!All = 1..Len(suite.checks)
      /\ Suite!Open = Of(verdict, "none")
      /\ Cardinality(Suite!All) = Len(suite.checks)
  BY SuiteShape
<1>o. \A i \in Suite!All : i \in Suite!Open <=> verdict[i] = "none"  BY DEF Suite!Open
<1>1. CASE Suite!Begin
  <2>1. phase = "start" /\ suite' = suite /\ failedCritical' = failedCritical
    BY <1>1 DEF Suite!Begin
  <2>2. CASE Suite!All = {}
    <3>1. phase' = "done" /\ verdict' = verdict /\ counts' = counts
      BY <1>1, <2>2 DEF Suite!Begin
    <3> QED  BY <2>1, <2>2, <3>1 DEF Nothing
  <2>3. CASE Suite!All # {} /\ suite.missing /\ suite.failFast
    <3>1. /\ phase' = "done" /\ exit' = "fail" /\ verdict' = Suite!SkipRest(verdict)
          /\ counts' = Suite!AddSkipped(counts, Len(suite.checks))
      BY <1>1, <2>3 DEF Suite!Begin
    <3>2. \A i \in Suite!All : verdict[i] = "none"  BY <2>1 DEF Orderly
    <3>3. Of(verdict, "none") = Suite!All /\ ~failedCritical
      BY <3>2 DEF Of, CriticalKnown
    <3> QED  BY <2>1, <3>1, <3>3, <1>s DEF Ends
  <2>4. CASE Suite!All # {} /\ ~(suite.missing /\ suite.failFast)
    <3>1. phase' = "A" /\ verdict' = verdict /\ counts' = counts
      BY <1>1, <2>4 DEF Suite!Begin
    <3> QED  BY <2>1, <3>1 DEF Nothing
  <2> QED  BY <2>2, <2>3, <2>4
<1>2. CASE Suite!Skip
  <2>1. cursor \in Suite!All /\ verdict[cursor] = "none" /\ phase = "A"
    BY <1>2, <1>s DEF Suite!Skip, Suite!Ready, Suite!Sequential, Of
  <2>2. /\ verdict' = [verdict EXCEPT ![cursor] = "skipped"]
        /\ counts' = [counts EXCEPT !["skipped"] = @ + 1]
        /\ suite' = suite /\ phase' = phase /\ failedCritical' = failedCritical
    BY <1>2 DEF Suite!Skip, Suite!AddSkipped
  <2>3. Result(cursor, "skipped")
    BY <2>1, <2>2 DEF SuiteTyped, Result
  <2> QED  BY <2>1, <2>2, <2>3 DEF OneResult
<1>3. CASE Suite!PassOver
  BY <1>3 DEF Suite!PassOver, Suite!tally, Nothing
<1>4. CASE Suite!Call
  BY <1>4 DEF Suite!Call, Suite!Ready, Suite!Sequential, Suite!tally, Nothing
<1>5. CASE Suite!EndA
  <2>1. phase = "A"  BY <1>5 DEF Suite!EndA
  <2>2. CASE Suite!Finish  BY <2>1, <2>2, FinishEnds DEF Suite!Finish
  <2>3. CASE ~Suite!Finish
    BY <1>5, <2>1, <2>3 DEF Suite!EndA, Suite!tally, Nothing
  <2> QED  BY <2>2, <2>3
<1>6. CASE Suite!EndB
  <2>1. phase # "done" /\ Suite!Finish  BY <1>6 DEF Suite!EndB
  <2> QED  BY <2>1, FinishEnds DEF Suite!Finish
<1>7. ASSUME NEW i \in Suite!All, Suite!Return(i) \/ Suite!Answer(i) \/ Suite!TimeOut(i) \/ Suite!Retry(i)
      PROVE  suite' = suite /\ Nothing
  BY <1>7 DEF Suite!Return, Suite!Answer, Suite!TimeOut, Suite!Retry, Suite!tally, Nothing
<1>8. ASSUME NEW i \in Suite!All, Suite!Record(i)
      PROVE  suite' = suite /\ (OneResult \/ Halts)
  <2> DEFINE passed == call[i] \in {"ok", "last ok"}
             r == IF passed THEN "passed" ELSE "failed"
             critical == failedCritical \/ (~passed /\ Critical(i))
  <2>1. /\ suite' = suite /\ failedCritical' = critical
        /\ call[i] \in {"ok", "failed", "last ok", "last failed"}
    BY <1>8 DEF Suite!Record, Suite!C, Critical
  <2>2. Active(i) /\ verdict[i] = "none" /\ phase # "done"
    BY <2>1 DEF Active, Orderly
  <2>3. CASE ~passed /\ Suite!Stops(i)
    <3>1. Critical(i) /\ critical = TRUE
      BY <2>3 DEF Suite!Stops, Critical, Suite!C, SuiteTyped
    <3>2. /\ verdict' = Suite!SkipRest([verdict EXCEPT ![i] = "failed"])
          /\ counts' = Suite!AddSkipped([counts EXCEPT !.failed = @ + 1], Suite!Cardinality(Suite!Open) - 1)
          /\ phase' = "done" /\ exit' = Suite!ExitCode(critical, FALSE)
      BY <1>8, <2>3 DEF Suite!Record, Suite!C, Critical
    <3>3. HaltsAt(i)
      BY <2>1, <2>2, <3>1, <3>2, <1>s, SuiteCardinality DEF HaltsAt
    <3> QED  BY <2>1, <3>3 DEF Halts
  <2>4. CASE ~(~passed /\ Suite!Stops(i))
    <3>1. /\ verdict' = [verdict EXCEPT ![i] = r]
          /\ counts' = IF passed THEN [counts EXCEPT !.passed = @ + 1] ELSE [counts EXCEPT !.failed = @ + 1]
          /\ phase' = phase
      BY <1>8, <2>4 DEF Suite!Record
    <3>2. counts' = [counts EXCEPT ![r] = @ + 1]  BY <3>1
    <3>3. r = "failed" /\ Critical(i) => ~suite.stop
      BY <2>4 DEF Suite!Stops, Critical, Suite!C
    <3>4. Result(i, r)
      BY <2>1, <2>2, <3>1, <3>2, <3>3 DEF Result
    <3> QED  BY <2>1, <3>4 DEF OneResult
  <2> QED  BY <2>3, <2>4
<1>9. ASSUME NEW i \in Suite!All, Suite!StartOne(i)
      PROVE  suite' = suite /\ (Nothing \/ OneResult)
  <2>1. phase = "B" /\ phase' = "B" /\ suite' = suite /\ failedCritical' = failedCritical /\ exit' = exit
    BY <1>9 DEF Suite!StartOne
  <2>2. verdict[i] = "none"  BY <1>9, <1>o DEF Suite!StartOne
  <2>3. CASE Suite!C(i).func
    BY <1>9, <2>1, <2>3 DEF Suite!StartOne, Nothing
  <2>4. CASE ~Suite!C(i).func
    <3>1. ~Critical(i)
      BY <2>1, <2>2 DEF Orderly, Suite!Parallel, Suite!C, Critical
    <3>2. verdict' = [verdict EXCEPT ![i] = "failed"] /\ counts' = [counts EXCEPT !["failed"] = @ + 1]
      BY <1>9, <2>4 DEF Suite!StartOne
    <3>3. Result(i, "failed")
      BY <2>1, <2>2, <3>1, <3>2 DEF SuiteTyped, Result
    <3> QED  BY <2>1, <3>3 DEF OneResult
  <2> QED  BY <2>3, <2>4
<1> QED
  BY <1>1, <1>2, <1>3, <1>4, <1>5, <1>6, <1>7, <1>8, <1>9 DEF Suite!SuiteNext, Suite!Attempting

\* Everything about the results, by the four cases of Effects.
LEMMA ResultsTyped ==
    ASSUME SuiteInv, suite' = suite, Nothing \/ OneResult \/ Ends \/ Halts
    PROVE  /\ verdict' \in [Suite!All -> Results] /\ failedCritical' \in BOOLEAN
           /\ counts' \in [passed : Nat, failed : Nat, skipped : Nat] /\ Tallied'
<1> USE DEF SuiteInv
<1>a. Suite!All' = Suite!All  BY DEF Suite!All
<1>o. \A r : Of(verdict, r)' = Of(verdict', r)  BY <1>a DEF Of
<1>t. /\ verdict \in [Suite!All -> Results] /\ failedCritical \in BOOLEAN
      /\ counts \in [passed : Nat, failed : Nat, skipped : Nat]
  BY DEF SuiteTyped
<1>n. Cardinality(Of(verdict, "none")) \in Nat
  BY SuiteShape, FS_Subset, FS_CardinalityType
<1>1. CASE Nothing  BY <1>1, <1>t, <1>o DEF Nothing, Tallied
<1>2. CASE OneResult
  <2>1. PICK i \in Suite!All, r \in {"passed", "failed", "skipped"} : Result(i, r)
    BY <1>2 DEF OneResult
  <2>2. /\ Cardinality(Of(verdict', r)) = Cardinality(Of(verdict, r)) + 1
        /\ \A q : q # r /\ q # "none" => Of(verdict', q) = Of(verdict, q)
        /\ verdict' \in [Suite!All -> Results]
    <3>1. r \in Results /\ r # "none"  BY DEF Results
    <3> QED  BY ZenonT(60), <2>1, <3>1, OneMore DEF Result
  <2>3. counts' \in [passed : Nat, failed : Nat, skipped : Nat]
    BY <2>1, <1>t DEF Result
  <2>4. failedCritical' \in BOOLEAN  BY <2>1 DEF Result
  <2>5. CASE r = "passed"  BY <2>1, <2>2, <2>3, <2>4, <2>5, <1>t, <1>o DEF Result, Tallied
  <2>6. CASE r = "failed"  BY <2>1, <2>2, <2>3, <2>4, <2>6, <1>t, <1>o DEF Result, Tallied
  <2>7. CASE r = "skipped"  BY <2>1, <2>2, <2>3, <2>4, <2>7, <1>t, <1>o DEF Result, Tallied
  <2> QED  BY <2>5, <2>6, <2>7
<1>3. CASE Ends
  <2>1. /\ Cardinality(Of(verdict', "skipped"))
              = Cardinality(Of(verdict, "skipped")) + Cardinality(Of(verdict, "none"))
        /\ Of(verdict', "passed") = Of(verdict, "passed") /\ Of(verdict', "failed") = Of(verdict, "failed")
        /\ verdict' \in [Suite!All -> Results]
    BY <1>3, <1>t, RestSkipped DEF Ends
  <2>2. /\ counts' = [counts EXCEPT !.skipped = @ + Cardinality(Of(verdict, "none"))]
        /\ failedCritical' = failedCritical
    BY <1>3 DEF Ends, Suite!AddSkipped
  <2> QED  BY <2>1, <2>2, <1>t, <1>o, <1>n DEF Tallied
<1>4. CASE Halts
  <2>1. PICK i \in Suite!All : HaltsAt(i)  BY <1>4 DEF Halts
  <2> DEFINE v == [verdict EXCEPT ![i] = "failed"]
  <2>2. /\ Cardinality(Of(v, "failed")) = Cardinality(Of(verdict, "failed")) + 1
        /\ \A q : q # "failed" /\ q # "none" => Of(v, q) = Of(verdict, q)
        /\ Cardinality(Of(v, "none")) = Cardinality(Of(verdict, "none")) - 1
        /\ v \in [Suite!All -> Results]
    BY <2>1, OneMore DEF HaltsAt, Results
  <2>3. verdict' = Suite!SkipRest(v)  BY <2>1 DEF HaltsAt
  <2>4. Cardinality(Of(v, "none")) \in Nat
    <3>1. Of(v, "none") \subseteq Suite!All  BY DEF Of
    <3> QED  BY <3>1, SuiteShape, FS_Subset, FS_CardinalityType
  <2>5. /\ counts' = [[counts EXCEPT !.failed = @ + 1] EXCEPT !.skipped = @ + (Cardinality(Of(verdict, "none")) - 1)]
        /\ failedCritical' = TRUE
    BY <2>1 DEF HaltsAt, Suite!AddSkipped
  <2> HIDE DEF v
  <2>6. /\ Cardinality(Of(verdict', "skipped"))
              = Cardinality(Of(v, "skipped")) + Cardinality(Of(v, "none"))
        /\ Of(verdict', "passed") = Of(v, "passed") /\ Of(verdict', "failed") = Of(v, "failed")
        /\ verdict' \in [Suite!All -> Results]
    BY <2>2, <2>3, RestSkipped
  <2>7. Of(v, "skipped") = Of(verdict, "skipped") /\ Of(v, "passed") = Of(verdict, "passed")
    BY <2>2
  <2>8. /\ counts'.passed = counts.passed /\ counts'.failed = counts.failed + 1
        /\ counts'.skipped = counts.skipped + Cardinality(Of(v, "none"))
        /\ counts' \in [passed : Nat, failed : Nat, skipped : Nat]
    <3>1. PICK k \in Nat : k = Cardinality(Of(v, "none"))  BY <2>4
    <3> DEFINE c == [counts EXCEPT !.failed = @ + 1]
    <3>2. counts' = Suite!AddSkipped(c, k)
      BY <2>1, <2>2, <3>1 DEF HaltsAt
    <3>3. /\ c \in [passed : Nat, failed : Nat, skipped : Nat] /\ c.failed = counts.failed + 1
          /\ c.passed = counts.passed /\ c.skipped = counts.skipped
      BY <1>t
    <3> HIDE DEF c
    <3> QED  BY <3>1, <3>2, <3>3 DEF Suite!AddSkipped
  <2> QED  BY <2>2, <2>5, <2>6, <2>7, <2>8, <1>o DEF Tallied
<1> QED  BY <1>1, <1>2, <1>3, <1>4

LEMMA ResultsKept ==
    ASSUME SuiteInv, suite' = suite, Nothing \/ OneResult \/ Ends \/ Halts
    PROVE  /\ \A i \in Suite!All : verdict[i] # "none" => verdict'[i] = verdict[i]
           /\ CriticalKnown' /\ Suite!Halted'
<1> USE DEF SuiteInv
<1>a. /\ Suite!All' = Suite!All
      /\ \A i : Critical(i)' = Critical(i) /\ Suite!C(i)' = Suite!C(i)
  BY DEF Suite!All, Critical, Suite!C
<1>t. verdict \in [Suite!All -> Results] /\ failedCritical \in BOOLEAN  BY DEF SuiteTyped
<1>h. ASSUME failedCritical' <=> (\E i \in Suite!All : verdict'[i] = "failed" /\ Critical(i)),
             \/ phase' = "done"
             \/ \A i \in Suite!All : verdict'[i] = "failed" /\ Critical(i) /\ suite.stop =>
                                        verdict[i] = "failed" /\ phase # "done"
      PROVE  CriticalKnown' /\ Suite!Halted'
  BY <1>h, <1>a DEF CriticalKnown, Suite!Halted, Critical, Suite!C
<1>c. failedCritical <=> (\E i \in Suite!All : verdict[i] = "failed" /\ Critical(i))
  BY DEF CriticalKnown, Critical
<1>1. CASE Nothing
  BY <1>1, <1>h, <1>c DEF Nothing, Suite!Halted, Critical, Suite!C
<1>2. CASE OneResult
  <2>1. PICK i \in Suite!All, r \in {"passed", "failed", "skipped"} : Result(i, r)
    BY <1>2 DEF OneResult
  <2>2. \A j \in Suite!All : verdict'[j] = IF j = i THEN r ELSE verdict[j]
    BY <2>1, <1>t DEF Result
  <2>3. verdict[i] = "none" /\ phase # "done"  BY <2>1 DEF Result
  <2>4. failedCritical' <=> (\E j \in Suite!All : verdict'[j] = "failed" /\ Critical(j))
    <3>1. CASE r = "failed" /\ Critical(i)  BY <2>1, <2>2, <3>1 DEF Result
    <3>2. CASE ~(r = "failed" /\ Critical(i))
      <4>1. failedCritical' = failedCritical  BY <2>1, <3>2, <1>t DEF Result
      <4>2. \A j \in Suite!All : verdict'[j] = "failed" /\ Critical(j) <=> verdict[j] = "failed" /\ Critical(j)
        BY <2>2, <2>3, <3>2
      <4> QED  BY <4>1, <4>2, <1>c
    <3> QED  BY <3>1, <3>2
  <2>5. \A j \in Suite!All : verdict'[j] = "failed" /\ Critical(j) /\ suite.stop =>
                               verdict[j] = "failed" /\ phase # "done"
    BY <2>1, <2>2, <2>3 DEF Result
  <2> QED  BY <2>2, <2>3, <2>4, <2>5, <1>h
<1>3. CASE Ends
  <2>1. \A j \in Suite!All : verdict'[j] = IF verdict[j] = "none" THEN "skipped" ELSE verdict[j]
    BY <1>3 DEF Ends, Suite!SkipRest
  <2>2. phase' = "done" /\ failedCritical' = failedCritical  BY <1>3 DEF Ends
  <2>3. \A j \in Suite!All : verdict'[j] = "failed" <=> verdict[j] = "failed"  BY <2>1
  <2> QED  BY <2>1, <2>2, <2>3, <1>c, <1>h
<1>4. CASE Halts
  <2>1. PICK i \in Suite!All : HaltsAt(i)  BY <1>4 DEF Halts
  <2>2. \A j \in Suite!All : verdict'[j] = IF j = i THEN "failed" ELSE
                                            IF verdict[j] = "none" THEN "skipped" ELSE verdict[j]
    BY <2>1, <1>t DEF HaltsAt, Suite!SkipRest
  <2>3. phase' = "done" /\ failedCritical' = TRUE /\ Critical(i) /\ verdict[i] = "none"
    BY <2>1 DEF HaltsAt
  <2>4. verdict'[i] = "failed"  BY <2>2
  <2> QED  BY <2>2, <2>3, <2>4, <1>h
<1> QED  BY <1>1, <1>2, <1>3, <1>4

LEMMA ConcludedNext ==
    ASSUME SuiteInv, suite' = suite, Nothing \/ OneResult \/ Ends \/ Halts
    PROVE  Concluded'
<1> USE DEF SuiteInv
<1>a. Suite!All' = Suite!All  BY DEF Suite!All
<1>t. verdict \in [Suite!All -> Results] /\ failedCritical \in BOOLEAN /\ counts.failed \in Nat
  BY DEF SuiteTyped
<1>1. CASE Nothing  BY <1>1, <1>a DEF Nothing, Concluded
<1>2. CASE OneResult  BY <1>2 DEF OneResult, Result, Concluded
<1>3. CASE Ends
  <2>1. \A i \in Suite!All : verdict'[i] # "none"  BY <1>3, <1>t, RestSkipped DEF Ends
  <2>2. counts'.failed = counts.failed /\ failedCritical' = failedCritical
    BY <1>3 DEF Ends, Suite!AddSkipped, SuiteTyped
  <2>3. Suite!All # {} => (exit' = "critical" <=> failedCritical)
    BY <1>3, <1>t DEF Ends, Suite!ExitCode
  <2>4. Suite!All # {} /\ exit' = "ok" => counts.failed = 0
    BY <1>3, <1>t DEF Ends, Suite!ExitCode
  <2> QED  BY <2>1, <2>2, <2>3, <2>4, <1>a DEF Concluded
<1>4. CASE Halts
  <2>1. PICK i \in Suite!All : HaltsAt(i)  BY <1>4 DEF Halts
  <2>2. [verdict EXCEPT ![i] = "failed"] \in [Suite!All -> Results]  BY <1>t DEF Results
  <2>3. \A j \in Suite!All : verdict'[j] # "none"  BY <2>1, <2>2, RestSkipped DEF HaltsAt
  <2>4. failedCritical' = TRUE /\ (Suite!All # {} => exit' = "critical")
    BY <2>1 DEF HaltsAt, Suite!ExitCode
  <2> QED  BY <2>3, <2>4, <1>a DEF Concluded
<1> QED  BY <1>1, <1>2, <1>3, <1>4

-----------------------------------------------------------------------------
(* The checks under way, one case per action.                              *)

LEMMA CallsTyped ==
    ASSUME SuiteInv, Suite!SuiteNext
    PROVE  /\ phase' \in {"idle", "start", "A", "B", "fallback", "raised", "done"}
           /\ cursor' \in Nat /\ call' \in [Suite!All -> Calls] /\ attempt' \in [Suite!All -> Nat]
           /\ exit' \in {"none", "invalid", "critical", "fail", "ok"}
<1> USE DEF SuiteInv, SuiteTyped
<1>e. \A c, k : Suite!ExitCode(c, k) \in {"none", "invalid", "critical", "fail", "ok"}
  BY DEF Suite!ExitCode
<1>f. Suite!Finish => /\ phase' = "done" /\ exit' \in {"none", "invalid", "critical", "fail", "ok"}
                      /\ UNCHANGED <<cursor, call, attempt>>
  BY <1>e DEF Suite!Finish
<1>1. CASE Suite!Begin  BY <1>1 DEF Suite!Begin
<1>2. CASE Suite!Skip  BY <1>2 DEF Suite!Skip
<1>3. CASE Suite!PassOver  BY <1>3 DEF Suite!PassOver
<1>4. CASE Suite!Call
  <2>1. cursor \in Suite!All  BY <1>4 DEF Suite!Call, Suite!Ready, Suite!Sequential, Suite!Open
  <2> DEFINE how == CASE ~Suite!InChild(cursor) -> "inprocess"
                      [] Suite!InChild(cursor) /\ Suite!Picklable(cursor) -> "child"
                      [] Suite!InChild(cursor) /\ ~Suite!Picklable(cursor) /\ suite.strict -> "failed"
                      [] OTHER -> "here"
  <2>2. call' = [call EXCEPT ![cursor] = how]  BY <1>4 DEF Suite!Call
  <2>3. how \in Calls  BY DEF Calls
  <2> HIDE DEF how
  <2>4. call' \in [Suite!All -> Calls]  BY <2>2, <2>3
  <2>5. attempt' \in [Suite!All -> Nat]
    <3>1. attempt' = [attempt EXCEPT ![cursor] = @ + 1]  BY <1>4 DEF Suite!Call
    <3> QED  BY <2>1, <3>1
  <2>6. phase' \in {phase, "raised"} /\ cursor' = cursor /\ exit' = exit  BY <1>4 DEF Suite!Call
  <2> QED  BY <2>4, <2>5, <2>6
<1>5. CASE Suite!EndA  BY <1>5, <1>f DEF Suite!EndA
<1>6. CASE Suite!EndB  BY <1>6, <1>f DEF Suite!EndB
<1>7. ASSUME NEW i \in Suite!All, NEW a \in Calls, call' = [call EXCEPT ![i] = a]
      PROVE  call' \in [Suite!All -> Calls]
  BY <1>7
<1>8. ASSUME NEW i \in Suite!All, Suite!Return(i)
      PROVE  call' \in [Suite!All -> Calls] /\ UNCHANGED <<phase, cursor, attempt, exit>>
  BY <1>8, <1>7 DEF Suite!Return, Calls
<1>9. ASSUME NEW i \in Suite!All, Suite!Answer(i)
      PROVE  call' \in [Suite!All -> Calls] /\ UNCHANGED <<phase, cursor, attempt, exit>>
  BY <1>9, <1>7 DEF Suite!Answer, Calls
<1>10. ASSUME NEW i \in Suite!All, Suite!TimeOut(i) \/ Suite!Retry(i)
       PROVE  call' \in [Suite!All -> Calls] /\ UNCHANGED <<phase, cursor, attempt, exit>>
  BY <1>10, <1>7 DEF Suite!TimeOut, Suite!Retry, Calls
<1>11. ASSUME NEW i \in Suite!All, Suite!Record(i)
       PROVE  /\ call' \in [Suite!All -> Calls] /\ attempt' = attempt
              /\ cursor' \in {cursor, cursor + 1} /\ phase' \in {phase, "done"}
              /\ exit' \in {"none", "invalid", "critical", "fail", "ok"}
  <2>1. call' \in [Suite!All -> Calls] /\ attempt' = attempt /\ cursor' \in {cursor, cursor + 1}
    BY <1>11, <1>7 DEF Suite!Record, Calls
  <2>2. /\ phase' \in {phase, "done"}
        /\ \/ exit' = exit
           \/ exit' = Suite!ExitCode(failedCritical \/ (~(call[i] \in {"ok", "last ok"}) /\ Suite!C(i).critical), FALSE)
    BY <1>11 DEF Suite!Record
  <2> QED  BY <2>1, <2>2, <1>e
<1>12. ASSUME NEW i \in Suite!All, Suite!StartOne(i)
       PROVE  /\ call' \in [Suite!All -> Calls] /\ attempt' \in [Suite!All -> Nat]
              /\ UNCHANGED <<phase, cursor, exit>>
  <2>1. attempt' \in [Suite!All -> Nat] /\ UNCHANGED <<phase, cursor, exit>>
    BY <1>12 DEF Suite!StartOne
  <2> QED  BY <1>12, <1>7, <2>1 DEF Suite!StartOne, Calls
<1> QED
  BY <1>1, <1>2, <1>3, <1>4, <1>5, <1>6, <1>8, <1>9, <1>10, <1>11, <1>12
  DEF Suite!SuiteNext, Suite!Attempting

LEMMA OrderlyNext ==
    ASSUME SuiteInv, Suite!SuiteNext, suite' = suite PROVE Orderly'
<1> USE DEF SuiteInv
<1>a. /\ Suite!All' = Suite!All /\ \A i : Suite!Parallel(i)' = Suite!Parallel(i)
      /\ \A i : Active(i)' <=> call'[i] \notin {"none", "over"}
  BY DEF Suite!All, Suite!Parallel, Suite!C, Active
<1>s. /\ Len(suite.checks) \in Nat /\ Suite!All = 1..Len(suite.checks)
  BY SuiteShape
<1>t. /\ cursor \in Nat /\ call \in [Suite!All -> Calls] /\ verdict \in [Suite!All -> Results]
  BY DEF SuiteTyped
<1>p. ASSUME NEW i \in Suite!All, Suite!Parallel(i)
      PROVE  ~Suite!C(i).critical /\ Suite!C(i).deps = {}
  BY <1>p DEF Suite!Parallel
\* Nothing is under way after the step.
<1>n. ASSUME \A i \in Suite!All : call'[i] \in {"none", "over"}, phase' \notin {"idle", "start"},
             phase' = "A" => \A i \in Suite!All : verdict'[i] = "none" => i >= cursor' \/ Suite!Parallel(i),
             phase' \in {"B", "fallback", "raised"} =>
                \A i \in Suite!All : verdict'[i] = "none" => Suite!Parallel(i)
      PROVE  Orderly'
  BY <1>n, <1>a DEF Orderly
\* Nothing has begun, and no result is there.
<1>k. ASSUME \A i \in Suite!All : call'[i] \notin {"none", "over"} => call[i] \notin {"none", "over"},
             phase \notin {"idle", "start"}, UNCHANGED <<phase, cursor, verdict>>
      PROVE  Orderly'
  BY <1>k, <1>a DEF Orderly, Active
\* Who is at the cursor, if anybody.
<1>c. ASSUME phase \in {"A", "fallback", "raised"}, cursor \notin Suite!All \/ call[cursor] \in {"none", "over"}
      PROVE  \A i \in Suite!All : call[i] \in {"none", "over"}
  BY <1>c DEF Orderly, Active
<1>1. CASE Suite!Begin
  <2>1. phase = "start" /\ call' = call /\ cursor' = cursor /\ phase' \in {"A", "done"}
    BY <1>1 DEF Suite!Begin
  <2>2. cursor = 1 /\ \A i \in Suite!All : call[i] = "none"  BY <2>1 DEF Orderly
  <2> QED  BY <2>1, <2>2, <1>n, <1>s
<1>2. CASE Suite!Skip
  <2>1. /\ phase = "A" /\ phase' = "A" /\ call' = call /\ cursor' = cursor + 1
        /\ call[cursor] = "none" /\ verdict' = [verdict EXCEPT ![cursor] = "skipped"]
    BY <1>2 DEF Suite!Skip
  <2>2. \A i \in Suite!All : call'[i] \in {"none", "over"}  BY <2>1, <1>c
  <2>3. ASSUME NEW i \in Suite!All, verdict'[i] = "none" PROVE i >= cursor' \/ Suite!Parallel(i)
    <3>1. verdict[i] = "none" /\ i # cursor  BY <2>1, <2>3, <1>t
    <3>2. i >= cursor \/ Suite!Parallel(i)  BY <2>1, <3>1 DEF Orderly
    <3> QED  BY <2>1, <3>1, <3>2, <1>s, <1>t
  <2> QED  BY <2>1, <2>2, <2>3, <1>n
<1>3. CASE Suite!PassOver
  <2>1. phase' = phase /\ call' = call /\ verdict' = verdict /\ cursor' = cursor + 1
    BY <1>3 DEF Suite!PassOver, Suite!tally
  <2>2. CASE phase = "A"
    <3>1. cursor \in Suite!All /\ Suite!Parallel(cursor)
      BY <1>3, <2>2 DEF Suite!PassOver, Suite!Open
    <3>2. call[cursor] \in {"none", "over"}  BY <2>2, <3>1 DEF Orderly, Active
    <3>3. ASSUME NEW i \in Suite!All, verdict[i] = "none" PROVE i >= cursor + 1 \/ Suite!Parallel(i)
      <4>1. i >= cursor \/ Suite!Parallel(i)  BY <2>2, <3>3 DEF Orderly
      <4> QED  BY <4>1, <3>1, <1>s, <1>t
    <3> QED  BY <2>1, <2>2, <3>2, <3>3, <1>c, <1>n
  <2>3. CASE phase = "fallback"
    <3>1. cursor \in Suite!All /\ verdict[cursor] # "none"
      BY <1>3, <2>3 DEF Suite!PassOver, Suite!Open
    <3>2. call[cursor] \in {"none", "over"}  BY <3>1 DEF Orderly, Active
    <3>3. \A i \in Suite!All : verdict[i] = "none" => Suite!Parallel(i)  BY <2>3 DEF Orderly
    <3> QED  BY <2>1, <2>3, <3>2, <3>3, <1>c, <1>n
  <2> QED  BY <1>3, <2>2, <2>3 DEF Suite!PassOver
<1>4. CASE Suite!Call
  <2>1. /\ phase \in {"A", "fallback"} /\ phase' \in {phase, "raised"} /\ cursor \in Suite!All
        /\ phase' = "raised" => phase \in {"fallback", "raised"}
        /\ verdict[cursor] = "none" /\ phase = "A" => ~Suite!Parallel(cursor)
        /\ verdict' = verdict /\ cursor' = cursor
        /\ \A i \in Suite!All : i # cursor => call'[i] = call[i]
    BY <1>4, <1>t DEF Suite!Call, Suite!Ready, Suite!Sequential, Suite!Open, Suite!tally
  <2>2. verdict[cursor] = "none"
    BY <1>4 DEF Suite!Call, Suite!Ready, Suite!Sequential, Suite!Open
  <2>3. \A i \in Suite!All : call'[i] \notin {"none", "over"} => i = cursor
    BY <2>1 DEF Orderly, Active
  <2>4. phase' = "A" => phase = "A"  BY <2>1
  <2>5. phase' \in {"B", "fallback", "raised"} => phase = "fallback"  BY <2>1
  <2> QED  BY <2>1, <2>2, <2>3, <2>4, <2>5, <1>a DEF Orderly
<1>5. CASE Suite!EndA
  <2>1. phase = "A" /\ cursor > Len(suite.checks) /\ call' = call
    BY <1>5 DEF Suite!EndA, Suite!Finish
  <2>2. cursor \notin Suite!All  BY <2>1, <1>s, <1>t
  <2>3. \A i \in Suite!All : call'[i] \in {"none", "over"}  BY <2>1, <2>2, <1>c
  <2>4. CASE phase' = "done"  BY <2>3, <2>4, <1>n
  <2>5. CASE phase' \in {"B", "fallback"} /\ verdict' = verdict
    <3>1. \A i \in Suite!All : verdict[i] = "none" => Suite!Parallel(i)
      BY <2>1, <1>s, <1>t DEF Orderly
    <3> QED  BY <2>3, <2>5, <3>1, <1>n
  <2> QED  BY <1>5, <2>4, <2>5 DEF Suite!EndA, Suite!Finish, Suite!tally
<1>6. CASE Suite!EndB
  <2>1. phase' = "done" /\ call' = call  BY <1>6 DEF Suite!EndB, Suite!Finish
  <2>2. CASE phase = "B" /\ Suite!Open = {}
    <3>1. \A i \in Suite!All : call[i] \in {"none", "over"}  BY <2>2 DEF Orderly, Active, Suite!Open
    <3> QED  BY <2>1, <3>1, <1>n
  <2>3. CASE phase = "fallback" /\ cursor > Len(suite.checks)
    <3>1. \A i \in Suite!All : call[i] \in {"none", "over"}  BY <2>3, <1>c, <1>s, <1>t
    <3> QED  BY <2>1, <3>1, <1>n
  <2> QED  BY <1>6, <2>2, <2>3 DEF Suite!EndB
<1>7. ASSUME NEW i \in Suite!All,
             Suite!Return(i) \/ Suite!Answer(i) \/ Suite!TimeOut(i) \/ Suite!Retry(i)
      PROVE  Orderly'
  <2>1. /\ call[i] \notin {"none", "over"} /\ UNCHANGED <<phase, cursor, verdict>>
        /\ \A j \in Suite!All : j # i => call'[j] = call[j]
    BY <1>7, <1>t
    DEF Suite!Return, Suite!Answer, Suite!TimeOut, Suite!Retry, Suite!CanRetry, Suite!tally
  <2>2. phase \notin {"idle", "start"}  BY <2>1 DEF Orderly
  <2> QED  BY <2>1, <2>2, <1>k
<1>8. ASSUME NEW i \in Suite!All, Suite!Record(i) PROVE Orderly'
  <2>1. /\ call[i] \notin {"none", "over"} /\ call' = [call EXCEPT ![i] = "over"]
        /\ cursor' = IF phase = "B" THEN cursor ELSE cursor + 1
    BY <1>8 DEF Suite!Record
  <2>2. Active(i) /\ phase \notin {"idle", "start", "done"} /\ verdict[i] = "none"
    BY <2>1 DEF Orderly, Active
  <2>3. \A j \in Suite!All : j # i => call'[j] = call[j]  BY <2>1, <1>t
  <2>4. call'[i] = "over"  BY <2>1, <1>t
  <2>5. \/ phase' = "done" /\ Suite!C(i).critical
        \/ phase' = phase /\ \E r \in {"passed", "failed"} : verdict' = [verdict EXCEPT ![i] = r]
    BY <1>8 DEF Suite!Record, Suite!Stops
  <2>6. CASE phase = "B"
    <3>1. Suite!Parallel(i)  BY <2>2, <2>6 DEF Orderly
    <3>2. phase' = "B" /\ \E r \in {"passed", "failed"} : verdict' = [verdict EXCEPT ![i] = r]
      BY <2>5, <2>6, <3>1, <1>p
    <3>3. \A j \in Suite!All : j # i => verdict'[j] = verdict[j]  BY <3>2, <1>t
    <3>4. verdict'[i] # "none"  BY <3>2, <1>t
    <3> QED  BY <2>2, <2>3, <2>4, <2>6, <3>2, <3>3, <3>4, <1>a DEF Orderly, Active
  <2>7. CASE phase # "B"
    <3>1. phase \in {"A", "fallback", "raised"}  BY <2>2, <2>7 DEF SuiteTyped
    <3>2. i = cursor /\ \A j \in Suite!All : call[j] \notin {"none", "over"} => j = i
      BY <2>2, <3>1 DEF Orderly, Active
    <3>3. \A j \in Suite!All : call'[j] \in {"none", "over"}  BY <2>3, <2>4, <3>2
    <3>4. CASE phase' = "done"  BY <3>3, <3>4, <1>n
    <3>5. CASE phase' = phase /\ \E r \in {"passed", "failed"} : verdict' = [verdict EXCEPT ![i] = r]
      <4>1. \A j \in Suite!All : verdict'[j] = "none" => verdict[j] = "none" /\ j # i
        BY <3>5, <1>t
      <4>2. phase = "A" => \A j \in Suite!All : verdict'[j] = "none" => j >= cursor' \/ Suite!Parallel(j)
        <5>1. SUFFICES ASSUME phase = "A", NEW j \in Suite!All, verdict'[j] = "none"
                       PROVE  j >= cursor' \/ Suite!Parallel(j)
          OBVIOUS
        <5>2. (j >= cursor \/ Suite!Parallel(j)) /\ j # cursor  BY <5>1, <4>1, <3>2 DEF Orderly
        <5> QED  BY <5>1, <5>2, <2>1, <1>s, <1>t
      <4>3. phase \in {"fallback", "raised"} => \A j \in Suite!All : verdict'[j] = "none" => Suite!Parallel(j)
        BY <4>1 DEF Orderly
      <4> QED  BY <3>1, <3>3, <3>5, <4>2, <4>3, <1>n
    <3> QED  BY <2>5, <3>4, <3>5
  <2> QED  BY <2>6, <2>7
<1>9. ASSUME NEW i \in Suite!All, Suite!StartOne(i) PROVE Orderly'
  <2>1. /\ phase = "B" /\ phase' = "B" /\ verdict[i] = "none"
    BY <1>9 DEF Suite!StartOne, Suite!Open
  <2>2. \A j \in Suite!All : verdict[j] = "none" => Suite!Parallel(j)  BY <2>1 DEF Orderly
  <2>3. CASE call' = [call EXCEPT ![i] = "child"] /\ verdict' = verdict
    BY <2>1, <2>2, <2>3, <1>a, <1>t DEF Orderly, Active
  <2>4. CASE call' = [call EXCEPT ![i] = "over"] /\ verdict' = [verdict EXCEPT ![i] = "failed"]
    BY <2>1, <2>2, <2>4, <1>a, <1>t DEF Orderly, Active
  <2> QED  BY <1>9, <2>3, <2>4 DEF Suite!StartOne
<1> QED
  BY <1>1, <1>2, <1>3, <1>4, <1>5, <1>6, <1>7, <1>8, <1>9 DEF Suite!SuiteNext, Suite!Attempting

LEMMA BasedNext ==
    ASSUME SuiteInv, Suite!SuiteNext, suite' = suite,
           \A i \in Suite!All : verdict[i] # "none" => verdict'[i] = verdict[i]
    PROVE  Based'
<1> USE DEF SuiteInv
<1>a. /\ Suite!All' = Suite!All /\ attempt \in [Suite!All -> Nat]  BY DEF Suite!All, SuiteTyped
<1>g. ASSUME NEW i \in Suite!All, \A d \in suite.checks[i].deps : d \in Suite!All /\ verdict[d] = "passed"
      PROVE  \A d \in suite.checks[i].deps : d \in Suite!All /\ verdict'[d] = "passed"
  BY <1>g
<1>1. CASE attempt' = attempt
  BY <1>1, <1>a, <1>g DEF Based
<1>2. ASSUME NEW i \in Suite!All, attempt' = [attempt EXCEPT ![i] = @ + 1],
             \A d \in suite.checks[i].deps : d \in Suite!All /\ verdict[d] = "passed"
      PROVE  Based'
  <2>1. \A j \in Suite!All : attempt'[j] > 0 => j = i \/ attempt[j] > 0  BY <1>2, <1>a
  <2>2. \A j \in Suite!All : attempt'[j] > 0 =>
           \A d \in suite.checks[j].deps : d \in Suite!All /\ verdict[d] = "passed"
    BY <2>1, <1>2 DEF Based
  <2> QED  BY <2>2, <1>g, <1>a DEF Based
<1>p. ASSUME NEW i \in Suite!All, Suite!Parallel(i) PROVE suite.checks[i].deps = {}
  BY <1>p DEF Suite!Parallel, Suite!C
<1>3. CASE Suite!Call
  <2>1. /\ cursor \in Suite!All /\ verdict[cursor] = "none" /\ phase \in {"A", "fallback"}
        /\ attempt' = [attempt EXCEPT ![cursor] = @ + 1]
    BY <1>3 DEF Suite!Call, Suite!Ready, Suite!Sequential, Suite!Open
  <2>2. CASE phase = "A"
    <3>1. Suite!DependencyOk(cursor)  BY <1>3, <2>2 DEF Suite!Call, Suite!Blocked
    <3> QED  BY <2>1, <3>1, <1>2 DEF Suite!DependencyOk, Suite!C
  <2>3. CASE phase = "fallback"
    <3>1. Suite!Parallel(cursor)  BY <2>1, <2>3 DEF Orderly
    <3> QED  BY <2>1, <3>1, <1>p, <1>2
  <2> QED  BY <2>1, <2>2, <2>3
<1>4. ASSUME NEW i \in Suite!All, Suite!StartOne(i) PROVE Based'
  <2>1. phase = "B" /\ verdict[i] = "none" /\ attempt' = [attempt EXCEPT ![i] = @ + 1]
    BY <1>4 DEF Suite!StartOne, Suite!Open
  <2>2. Suite!Parallel(i)  BY <2>1 DEF Orderly
  <2> QED  BY <2>1, <2>2, <1>p, <1>2
<1> QED
  BY <1>1, <1>3, <1>4
  DEF Suite!SuiteNext, Suite!Attempting, Suite!Begin, Suite!Skip, Suite!PassOver, Suite!EndA,
      Suite!EndB,
      Suite!Finish, Suite!Return, Suite!Answer, Suite!TimeOut, Suite!Retry, Suite!Record

-----------------------------------------------------------------------------
LEMMA SuitePrepared ==
    ASSUME NEW s \in Suite!Options, Suite!Prepared(s, "start") \/ Suite!Prepared(s, "idle") PROVE SuiteInv
<1>1. /\ suite = s /\ phase \in {"start", "idle"} /\ cursor = 1
      /\ call = [i \in Suite!Checks(s) |-> "none"] /\ attempt = [i \in Suite!Checks(s) |-> 0]
      /\ verdict = [i \in Suite!Checks(s) |-> "none"]
      /\ counts = [passed |-> 0, failed |-> 0, skipped |-> 0]
      /\ failedCritical = FALSE /\ exit = "none"
  BY DEF Suite!Prepared
<1>2. Suite!All = Suite!Checks(s)  BY <1>1 DEF Suite!All
<1>3. SuiteTyped  BY <1>1, <1>2 DEF SuiteTyped, Calls, Results
<1>4. \A r : r # "none" => Of(verdict, r) = {}  BY <1>1, <1>2 DEF Of
<1>5. Tallied  BY <1>1, <1>4, FS_EmptySet DEF Tallied
<1> QED
  BY <1>1, <1>2, <1>3, <1>5 DEF SuiteInv, Orderly, Based, CriticalKnown, Concluded, Active, Suite!Halted

LEMMA SuiteInvNext ==
    ASSUME SuiteInv, [Suite!SuiteNext]_(Suite!suiteVars) PROVE SuiteInv'
<1>1. CASE Suite!SuiteNext
  <2>1. suite' = suite /\ (Nothing \/ OneResult \/ Ends \/ Halts)  BY <1>1, Effects
  <2>2. /\ verdict' \in [Suite!All -> Results] /\ failedCritical' \in BOOLEAN
        /\ counts' \in [passed : Nat, failed : Nat, skipped : Nat] /\ Tallied'
    BY <2>1, ResultsTyped
  <2>3. Suite!All' = Suite!All  BY <2>1 DEF Suite!All
  <2>4. SuiteTyped'  BY <1>1, <2>1, <2>2, <2>3, CallsTyped DEF SuiteTyped, SuiteInv
  <2>5. CriticalKnown' /\ Suite!Halted' /\ Based'  BY <1>1, <2>1, ResultsKept, BasedNext
  <2> QED  BY <1>1, <2>1, <2>2, <2>4, <2>5, OrderlyNext, ConcludedNext DEF SuiteInv
<1>2. CASE UNCHANGED Suite!suiteVars
  BY <1>2 DEF Suite!suiteVars, SuiteInv, SuiteTyped, Orderly, Tallied, Based, CriticalKnown, Concluded,
              Of, Active, Suite!Halted, Suite!All, Suite!Parallel, Suite!C
<1> QED  BY <1>1, <1>2

LEMMA PayloadFollows == ASSUME SuiteInv PROVE Suite!PayloadTrue
<1> USE DEF SuiteInv
<1>1. SUFFICES ASSUME phase = "done", Suite!All # {} PROVE
        /\ Suite!Open = {} /\ Suite!Running = {}
        /\ counts = [passed |-> Suite!Number("passed"), failed |-> Suite!Number("failed"),
                     skipped |-> Suite!Number("skipped")]
        /\ \A i \in Suite!All : attempt[i] > 0 =>
              \A d \in Suite!C(i).deps : d \in Suite!All /\ verdict[d] = "passed"
        /\ exit = "critical" <=> (\E i \in Suite!All : verdict[i] = "failed" /\ Suite!C(i).critical)
        /\ exit = "ok" => \A i \in Suite!All : verdict[i] = "passed" \/ verdict[i] = "skipped"
  BY DEF Suite!PayloadTrue
<1>2. Suite!Open = {}  BY <1>1 DEF Concluded, Suite!Open
<1>3. Suite!Running = {}  BY <1>1 DEF Orderly, Active, Suite!Running
<1>4. \A r : Suite!Number(r) = Cardinality(Of(verdict, r))
  BY SuiteCardinality DEF Suite!Number, Of
<1>5. counts = [passed |-> Suite!Number("passed"), failed |-> Suite!Number("failed"),
                skipped |-> Suite!Number("skipped")]
  BY <1>4 DEF Tallied, SuiteTyped
<1>6. exit = "critical" <=> (\E i \in Suite!All : verdict[i] = "failed" /\ Suite!C(i).critical)
  BY <1>1 DEF Concluded, CriticalKnown, Suite!C
<1>7. ASSUME exit = "ok", NEW i \in Suite!All PROVE verdict[i] = "passed" \/ verdict[i] = "skipped"
  <2>1. Cardinality(Of(verdict, "failed")) = 0  BY <1>1, <1>7 DEF Concluded, Tallied
  <2>2. IsFiniteSet(Of(verdict, "failed"))
    <3>1. Of(verdict, "failed") \subseteq Suite!All  BY DEF Of
    <3> QED  BY <3>1, SuiteShape, FS_Subset
  <2>3. Of(verdict, "failed") = {}  BY <2>1, <2>2, FS_EmptySet
  <2>4. verdict[i] \in Results /\ verdict[i] # "none" /\ verdict[i] # "failed"
    BY <1>1, <1>7, <2>3 DEF Concluded, SuiteTyped, Of
  <2> QED  BY <2>4 DEF Results
<1> QED  BY <1>2, <1>3, <1>5, <1>6, <1>7 DEF Based, Suite!C

LEMMA NoneAfter ==
    ASSUME SuiteInv, [Suite!SuiteNext]_(Suite!suiteVars), phase = "done" PROVE attempt' = attempt
<1>1. \A i \in Suite!All : call[i] \in {"none", "over"}  BY DEF SuiteInv, Orderly, Active
<1> QED
  BY <1>1
  DEF Suite!SuiteNext, Suite!suiteVars, Suite!Attempting, Suite!Begin, Suite!Skip, Suite!PassOver,
      Suite!EndA,
      Suite!EndB, Suite!Finish, Suite!Return, Suite!Answer, Suite!TimeOut, Suite!Retry, Suite!Record,
      Suite!StartOne, Suite!Call, Suite!Ready, Suite!Sequential

\* run_all for any of the suites.
SuiteSpec == (\E s \in Suites : Suite!Prepared(s, "start")) /\ [][Suite!SuiteNext]_(Suite!suiteVars)

LEMMA SuiteInvHolds == ASSUME Suite!SuiteAssumption PROVE SuiteSpec => []SuiteInv
<1>1. (\E s \in Suites : Suite!Prepared(s, "start")) => SuiteInv
  BY SuitePrepared DEF Suite!SuiteAssumption
<1>2. SuiteInv /\ [Suite!SuiteNext]_(Suite!suiteVars) => SuiteInv'  BY SuiteInvNext
<1> QED  BY <1>1, <1>2, PTL DEF SuiteSpec

\* When run_all has ended, its counters count the results, every check has
\* one, no process is left, a check that was started had all its dependencies
\* passed, and the exit code is right; for any suites, with any retries, time
\* limits and processes.
THEOREM PayloadCorrect == ASSUME Suite!SuiteAssumption PROVE SuiteSpec => []PayloadTrue
<1>1. SuiteInv => PayloadTrue  BY PayloadFollows DEF PayloadTrue
<1> QED  BY <1>1, SuiteInvHolds, PTL

\* A critical failure of a suite that stops ends it, and no check is started
\* after its end, in any order of the processes.
THEOREM CriticalStops == ASSUME Suite!SuiteAssumption PROVE SuiteSpec => NothingAfterCritical
<1>1. SuiteInv /\ [Suite!SuiteNext]_(Suite!suiteVars)
        => [Suite!Halted /\ (phase = "done" => attempt' = attempt)]_(Suite!suiteVars)
  BY NoneAfter DEF SuiteInv
<1> QED  BY <1>1, SuiteInvHolds, PTL DEF SuiteSpec, NothingAfterCritical, Suite!NothingAfterCritical

-----------------------------------------------------------------------------
(* The run.                                                                *)

Injecting == {"inject", "load", "initramfs", "bootloader"}
RootDone == Injecting \cup {"mount", "umount", "regenerated"}

\* What regen has told: that /boot is not mounted, before anything goes there;
\* that root= was not written; that the drivers are not configured, before an
\* initramfs is made without them.
BootTold ==
    /\ Boot!BootTypes
    /\ astray # {} => "mount" \in audit \/ tables["fstab"] = "torn"
    /\ bstep \in Injecting /\ guest.ownBoot /\ ~bootMounted =>
           "mount" \in audit \/ tables["fstab"] = "torn"
    /\ bstep \in RootDone /\ updateGrub /\ guest.stable /\ ~guest.windows /\ ~dryRun =>
           boot["defaults"] # "old" \/ "root" \in audit
    /\ guest.tool \in {"initramfs-tools", "mkinitcpio"} =>
           /\ bstep \in {"load", "initramfs"} => boot["drivers"] = "new" \/ "inject" \in audit
           /\ boot["initrd"] = "bare" => "inject" \in audit

BootDry ==
    dryRun => /\ boot = [f \in Boot!BootFiles |-> "old"] /\ astray = {}
              /\ bstep \notin Injecting

NetDry ==
    dryRun => /\ content = original /\ \A f \in Found : backup[f] = None
              /\ step \notin {"write", "direct", "restore"}

TornTold == \A f \in Found : content[f] = Torn => told[f] = "failed"

Unrooted == {"start", "resize", "open", "unlock", "mount", "direct", "ladder", "last", "brute",
             "close", "raised", "report", "done"}
Early == {"start", "resize", "open", "unlock", "mount", "direct", "ladder", "last", "brute",
          "repair", "validation"}
Rooted == {"repair", "validation", "validating", "fstab", "crypttab", "network", "grub",
           "grub root", "windows", "tools", "remove", "unserve", "rmtree", "regen",
           "regenerating", "sync"}

MountTyped ==
    /\ pc \in Unrooted \cup Rooted /\ opt \in Options /\ back \in {"repair", "validation"}
    /\ visible \in BOOLEAN /\ device \in {None, "plain", "subvol"}
    /\ rootDev \in BOOLEAN /\ subvol \in BOOLEAN
OutcomeTyped ==
    /\ tables \in [Tables -> {"uuid", "bypath", "dev", "torn"}]
    /\ changed \subseteq Tables \cup {"image", "bcd", "tools", "guest"}
    /\ failures \subseteq Stages /\ entries \in [Stages -> {"none", "duration"}]
HandleTyped ==
    /\ drive \in {"closed", "ro", "rw"} /\ served \in BOOLEAN
    /\ checkpoints \subseteq {"start", "mounted"} /\ ended \in {"no", "well", "raised"}
FixerTyped == MountTyped /\ OutcomeTyped /\ HandleTyped

\* / is mounted while stages run; the boot fixer works in its stages; run has
\* ended well only when it is through with the last of them.
Staged ==
    /\ pc \in Rooted => root # "none"
    /\ pc \in Early => phase = "idle"
    /\ bstep = "stage" => pc = "grub root"
    /\ bstep \in (RootDone \ {"regenerated"}) \cup {"regen"} => pc = "regenerating"
    /\ ended = "well" => pc \in {"close", "report", "done"}
    /\ pc \in {"report", "done"} => ended = "well"
    /\ (pc = "sync" \/ ended = "well") /\ opt.regen => bstep = "regenerated"

FixerDry == dryRun => changed = {} /\ root # "rw" /\ drive # "rw"

FixerInv ==
    /\ NetInv /\ Passed /\ TornTold /\ NetDry /\ SuiteInv /\ BootTold /\ BootDry
    /\ FixerTyped /\ Staged /\ FixerDry

-----------------------------------------------------------------------------
(* The boot fixer keeps what is said of it.                                *)

\* The part of BootTold that a step keeps as long as it adds to the report and
\* leaves the initramfs.
LEMMA RootTold ==
    ASSUME BootTold, Boot!UpdateRoot \/ Boot!Regen, root # "none", dryRun \in BOOLEAN
    PROVE  BootTold'
<1>t. Boot!BootTypes  BY DEF BootTold
<1>f. ASSUME NEW S, S \subseteq {"entries", "defaults", "cfg"}
      PROVE  /\ Boot!Rewritten(S) \in [Boot!BootFiles -> {"old", "new", "bare"}]
             /\ Boot!Rewritten(S)["initrd"] = boot["initrd"]
             /\ "defaults" \in S => Boot!Rewritten(S)["defaults"] = "new"
  BY <1>f, <1>t DEF Boot!Rewritten, Boot!BootFiles, Boot!BootTypes
<1>1. \A e \in Boot!EntriesWritten, r \in {{}, Boot!DefaultsWritten} :
         e \cup r \subseteq {"entries", "defaults", "cfg"}
  BY DEF Boot!EntriesWritten, Boot!DefaultsWritten
<1>2. \A e \in Boot!EntriesWritten :
         /\ e \cup Boot!DefaultsWritten \cup Boot!CfgWritten \subseteq {"entries", "defaults", "cfg"}
         /\ "defaults" \in e \cup Boot!DefaultsWritten \cup Boot!CfgWritten
  BY DEF Boot!EntriesWritten, Boot!DefaultsWritten, Boot!CfgWritten
<1>3. ASSUME NEW then, NEW fail, Boot!RootUpdate(then, fail)
      PROVE  /\ UNCHANGED <<guest, tables, updateGrub, dryRun, bootMounted, astray>>
             /\ boot' \in [Boot!BootFiles -> {"old", "new", "bare"}]
             /\ boot'["initrd"] = boot["initrd"]
             /\ audit' \in {audit, audit \cup {"root"}}
             /\ bstep' = then \/ bstep' = fail
             /\ bstep = "regen" /\ updateGrub /\ guest.stable /\ ~dryRun =>
                    boot'["defaults"] # "old" \/ "root" \in audit'
  <2>0. /\ UNCHANGED <<guest, tables, updateGrub, dryRun, bootMounted, astray>>
        /\ bstep' = then \/ bstep' = fail
        /\ audit' \in {audit, audit \cup {"root"}}
    BY <1>3 DEF Boot!RootUpdate, Boot!bootEnv, Boot!BStep
  <2>1. CASE (~updateGrub \/ ~guest.stable \/ dryRun) /\ boot' = boot /\ audit' = audit
    BY <2>0, <2>1, <1>t DEF Boot!BootTypes
  <2>2. CASE \E e \in Boot!EntriesWritten :
                boot' = Boot!Rewritten(e \cup Boot!DefaultsWritten \cup Boot!CfgWritten)
    <3>1. PICK e \in Boot!EntriesWritten :
                boot' = Boot!Rewritten(e \cup Boot!DefaultsWritten \cup Boot!CfgWritten)
      BY <2>2
    <3> QED  BY <3>1, <2>0, <1>2, <1>f
  <2>3. CASE /\ audit' = audit \cup (IF bstep = "regen" THEN {"root"} ELSE {})
             /\ \/ boot' = boot
                \/ \E e \in Boot!EntriesWritten, r \in {{}, Boot!DefaultsWritten} :
                      boot' = Boot!Rewritten(e \cup r)
    <3>1. CASE boot' = boot  BY <3>1, <2>0, <2>3, <1>t DEF Boot!BootTypes
    <3>2. CASE \E e \in Boot!EntriesWritten, r \in {{}, Boot!DefaultsWritten} :
                      boot' = Boot!Rewritten(e \cup r)
      <4>1. PICK e \in Boot!EntriesWritten, r \in {{}, Boot!DefaultsWritten} :
                      boot' = Boot!Rewritten(e \cup r)
        BY <3>2
      <4> QED  BY <4>1, <2>0, <2>3, <1>1, <1>f
    <3> QED  BY <3>1, <3>2, <2>3
  <2> QED  BY <1>3, <2>1, <2>2, <2>3 DEF Boot!RootUpdate
<1>4. CASE Boot!UpdateRoot
  <2>1. Boot!RootUpdate("updated", "update failed")  BY <1>4 DEF Boot!UpdateRoot
  <2>2. /\ UNCHANGED <<guest, tables, updateGrub, dryRun, bootMounted, astray>>
        /\ boot' \in [Boot!BootFiles -> {"old", "new", "bare"}] /\ boot'["initrd"] = boot["initrd"]
        /\ audit' \in {audit, audit \cup {"root"}} /\ bstep' \in {"updated", "update failed"}
    BY <2>1, <1>3
  <2> QED  BY <2>2, <1>t DEF BootTold, Boot!BootTypes, Injecting, RootDone, Boot!Audits
<1>5. CASE Boot!Regen /\ guest.windows
  BY <1>5, <1>t DEF Boot!Regen, Boot!bootEnv, Boot!BStep, BootTold, Boot!BootTypes, Injecting, RootDone
<1>6. CASE Boot!Regen /\ ~guest.windows
  <2>1. bstep = "regen" /\ Boot!RootUpdate("mount", "mount")  BY <1>6 DEF Boot!Regen
  <2>2. /\ UNCHANGED <<guest, tables, updateGrub, dryRun, bootMounted, astray>>
        /\ boot' \in [Boot!BootFiles -> {"old", "new", "bare"}] /\ boot'["initrd"] = boot["initrd"]
        /\ audit' \in {audit, audit \cup {"root"}} /\ bstep' = "mount"
        /\ updateGrub /\ guest.stable /\ ~dryRun => boot'["defaults"] # "old" \/ "root" \in audit'
    BY <2>1, <1>3
  <2> QED  BY <2>1, <2>2, <1>t DEF BootTold, Boot!BootTypes, Injecting, RootDone, Boot!Audits
<1> QED  BY <1>4, <1>5, <1>6

LEMMA InjectTold ==
    ASSUME BootTold, Boot!Inject PROVE BootTold'
<1>t. Boot!BootTypes  BY DEF BootTold
<1> USE DEF Boot!BStep, Boot!bootEnv
<1>1. ASSUME NEW tool, NEW states \in SUBSET {"old", "new"}, Boot!Configured(tool, states),
             tool \in {"initramfs-tools", "mkinitcpio"} => states = {"new"}
      PROVE  BootTold'
  <2>1. /\ bstep = "inject" /\ guest.tool = tool /\ bstep' \in {"load", "initramfs"}
        /\ UNCHANGED <<guest, tables, updateGrub, dryRun, bootMounted, astray>>
        /\ audit' \in {audit, audit \cup {"inject"}}
        /\ \/ bstep' = "load" /\ \E s \in states : boot' = [boot EXCEPT !["drivers"] = s]
           \/ boot' = boot /\ "inject" \in audit'
    BY <1>1 DEF Boot!Configured
  <2>2. /\ boot' \in [Boot!BootFiles -> {"old", "new", "bare"}]
        /\ boot'["initrd"] = boot["initrd"] /\ boot'["defaults"] = boot["defaults"]
        /\ boot'["drivers"] \in states \/ (boot' = boot /\ "inject" \in audit')
    BY <2>1, <1>1, <1>t DEF Boot!BootTypes, Boot!BootFiles
  <2> HIDE DEF Boot!BStep
  <2> QED  BY <2>1, <2>2, <1>1, <1>t DEF BootTold, Boot!BootTypes, Injecting, RootDone, Boot!Audits
<1>2. CASE Boot!WriteModules  BY <1>1, <1>2 DEF Boot!WriteModules
<1>3. CASE Boot!PatchMkinitcpio  BY <1>1, <1>3 DEF Boot!PatchMkinitcpio
<1>4. CASE Boot!DropIn  BY <1>1, <1>4 DEF Boot!DropIn
<1>5. CASE Boot!PatchSysconfig  BY <1>1, <1>5 DEF Boot!PatchSysconfig
<1>6. CASE Boot!NoDrivers
  BY <1>6, <1>t DEF Boot!NoDrivers, BootTold, Boot!BootTypes, Injecting, RootDone
<1>7. CASE Boot!LoadModules
  <2>1. /\ boot' \in [Boot!BootFiles -> {"old", "new", "bare"}]
        /\ boot'["initrd"] = boot["initrd"] /\ boot'["defaults"] = boot["defaults"]
        /\ boot'["drivers"] = boot["drivers"]
    BY <1>7, <1>t DEF Boot!LoadModules, Boot!BootTypes, Boot!BootFiles
  <2>2. /\ bstep = "load" /\ bstep' = "initramfs" /\ audit' \in {audit, audit \cup {"inject"}}
        /\ UNCHANGED <<guest, tables, updateGrub, dryRun, bootMounted, astray>>
    BY <1>7 DEF Boot!LoadModules
  <2> QED  BY <2>1, <2>2, <1>t DEF BootTold, Boot!BootTypes, Injecting, RootDone, Boot!Audits
<1> QED  BY <1>2, <1>3, <1>4, <1>5, <1>6, <1>7 DEF Boot!Inject

LEMMA BootToldNext ==
    ASSUME BootTold, Boot!BootNext, root # "none", dryRun \in BOOLEAN PROVE BootTold'
<1>t. Boot!BootTypes  BY DEF BootTold
<1> USE DEF Boot!BStep, Boot!bootEnv
<1>1. CASE Boot!UpdateRoot \/ Boot!Regen  BY <1>1, RootTold
<1>2. CASE Boot!MountBoot
  BY <1>2, <1>t DEF Boot!MountBoot, Boot!NoBootLine, BootTold, Boot!BootTypes, Boot!Audits, Injecting, RootDone
<1>3. CASE Boot!Inject  BY <1>3, InjectTold
<1>4. CASE Boot!Initramfs
  <2>1. Boot!Made \in {"new", "bare"}  BY DEF Boot!Made
  <2>2. Boot!Made = "bare" => boot["drivers"] # "new"  BY DEF Boot!Made
  <2>3. /\ bstep = "initramfs" /\ bstep' = "bootloader"
        /\ audit' \in {audit, audit \cup {"initramfs"}}
        /\ UNCHANGED <<guest, tables, updateGrub, dryRun, bootMounted>>
        /\ \/ boot' = [boot EXCEPT !["initrd"] = Boot!Made] /\ astray' = astray
           \/ /\ boot' = boot /\ astray' \in {astray, astray \cup {"initrd"}}
              /\ (astray' # astray => guest.ownBoot /\ ~bootMounted)
    BY <1>4 DEF Boot!Initramfs, Boot!Attempts, Boot!Lands, Boot!InPlace
  <2>4. /\ boot' \in [Boot!BootFiles -> {"old", "new", "bare"}]
        /\ boot'["defaults"] = boot["defaults"]
        /\ boot'["initrd"] = boot["initrd"] \/ boot'["initrd"] = Boot!Made
    BY <2>1, <2>3, <1>t DEF Boot!BootTypes, Boot!BootFiles
  <2> HIDE DEF Boot!Made
  <2> QED
    BY <2>2, <2>3, <2>4, <1>t
    DEF BootTold, Boot!BootTypes, Injecting, RootDone, Boot!Audits, Boot!OnBoot
<1>5. CASE Boot!Bootloader
  <2>3. /\ bstep = "bootloader" /\ bstep' = "umount"
        /\ audit' \in {audit, audit \cup {"bootloader"}}
        /\ UNCHANGED <<guest, tables, updateGrub, dryRun, bootMounted>>
        /\ \/ boot' = [boot EXCEPT !["cfg"] = boot["defaults"]] /\ astray' = astray
           \/ /\ boot' = boot /\ astray' \in {astray, astray \cup {"cfg"}}
              /\ (astray' # astray => guest.ownBoot /\ ~bootMounted)
    BY <1>5 DEF Boot!Bootloader, Boot!Attempts, Boot!Lands, Boot!InPlace
  <2>4. /\ boot' \in [Boot!BootFiles -> {"old", "new", "bare"}]
        /\ boot'["defaults"] = boot["defaults"] /\ boot'["initrd"] = boot["initrd"]
    BY <2>3, <1>t DEF Boot!BootTypes, Boot!BootFiles
  <2> QED
    BY <2>3, <2>4, <1>t DEF BootTold, Boot!BootTypes, Injecting, RootDone, Boot!Audits, Boot!OnBoot
<1>6. CASE Boot!UmountBoot
  BY <1>6, <1>t DEF Boot!UmountBoot, BootTold, Boot!BootTypes, Injecting, RootDone
<1> QED  BY <1>1, <1>2, <1>3, <1>4, <1>5, <1>6 DEF Boot!BootNext

LEMMA BootDryNext ==
    ASSUME BootDry, Boot!BootNext, root # "rw" \/ ~dryRun PROVE BootDry'
<1> USE DEF Boot!BStep, Boot!bootEnv, BootDry, Injecting
<1>1. CASE ~dryRun
  BY <1>1 DEF Boot!BootNext, Boot!UpdateRoot, Boot!Regen, Boot!RootUpdate, Boot!MountBoot, Boot!Inject,
     Boot!WriteModules, Boot!PatchMkinitcpio, Boot!DropIn, Boot!PatchSysconfig, Boot!Configured,
     Boot!NoDrivers, Boot!LoadModules, Boot!Initramfs, Boot!Bootloader, Boot!UmountBoot
<1>2. CASE dryRun
  <2>1. CASE Boot!UpdateRoot \/ Boot!Regen
    BY <1>2, <2>1 DEF Boot!UpdateRoot, Boot!Regen, Boot!RootUpdate
  <2>2. CASE Boot!MountBoot  BY <1>2, <2>2 DEF Boot!MountBoot
  <2>3. CASE Boot!UmountBoot  BY <1>2, <2>3 DEF Boot!UmountBoot
  <2>4. ~Boot!Inject /\ ~Boot!Initramfs /\ ~Boot!Bootloader
    BY <1>2 DEF Boot!Inject, Boot!WriteModules, Boot!PatchMkinitcpio, Boot!DropIn, Boot!PatchSysconfig,
       Boot!Configured, Boot!NoDrivers, Boot!LoadModules, Boot!Initramfs, Boot!Bootloader
  <2> QED  BY <2>1, <2>2, <2>3, <2>4 DEF Boot!BootNext
<1> QED  BY <1>1, <1>2
-----------------------------------------------------------------------------
(* So does the network fixer.                                              *)

LEMMA TornToldNext ==
    ASSUME Net!NetworkAssumption, NetInv, TornTold, Net!NetNext PROVE TornTold'
<1> USE DEF NetInv
<1>d. original' = original /\ Found' = Found
  BY DEF Net!NetNext, Net!netEnv, Net!Start, Net!Skip, Net!DryRun, Net!Backup, Net!WriteFail, Net!Write,
         Net!DirectFail, Net!Restore, Found
<1>o. \A f \in Found : original[f] # Torn
  BY DEF NetTyped, Found, Net!NetworkAssumption
<1>a. SUFFICES ASSUME NEW f \in Found, content'[f] = Torn PROVE told'[f] = "failed"
  BY <1>d DEF TornTold
<1>e. CASE content'[f] = content[f] /\ told'[f] = told[f]  BY <1>e, <1>a DEF TornTold
<1>1. CASE Net!Start \/ Net!Backup \/ Net!WriteFail
  BY <1>1, <1>e DEF Net!Start, Net!Backup, Net!WriteFail, Net!disk, Net!stats
<1>2. CASE Net!Skip \/ Net!DryRun
  <2>1. content' = content /\ content[at] = original[at]
    BY <1>2 DEF Net!Skip, Net!DryRun, Net!Apply, Net!disk, NetTyped, Ahead
  <2>2. CASE f # at
    BY <1>2, <2>1, <2>2, <1>e DEF Net!Skip, Net!DryRun, Net!Counted, Net!Tell, NetTyped
  <2> QED  BY <2>1, <2>2, <1>a, <1>o
<1>3. CASE Net!Write
  <2>1. CASE f # at  BY <1>3, <2>1, <1>e DEF Net!Write, Net!Counted, Net!Tell, NetTyped
  <2>2. CASE f = at
    <3>1. content[at] = original[at] /\ content'[at] = Net!Fixed(original[at])
      BY <1>3, <2>2 DEF Net!Write, Ahead, NetTyped
    <3>2. Net!Fixed(original[at]) \in Net!Texts
      BY <2>2, FixedOK DEF NetTyped, Found
    <3> QED  BY <3>1, <3>2, <2>2, <1>a DEF Net!NetworkAssumption
  <2> QED  BY <2>1, <2>2
<1>4. CASE Net!DirectFail
  <2>1. CASE f # at  BY <1>4, <2>1, <1>e DEF Net!DirectFail, Net!Tell, NetTyped
  <2>2. CASE f = at  BY <1>4, <2>2 DEF Net!DirectFail, Net!Tell, NetTyped
  <2> QED  BY <2>1, <2>2
<1>5. CASE Net!Restore
  <2>1. told' = told /\ told[at] = "failed"  BY <1>5 DEF Net!Restore, Net!stats, Ahead
  <2>2. CASE f # at  BY <1>5, <2>1, <2>2, <1>e DEF Net!Restore, NetTyped
  <2> QED  BY <2>1, <2>2
<1> QED  BY <1>1, <1>2, <1>3, <1>4, <1>5 DEF Net!NetNext

LEMMA NetDryNext ==
    ASSUME NetDry, Net!NetNext, root # "rw" \/ ~dryRun PROVE NetDry'
<1>d. original' = original /\ Found' = Found /\ dryRun' = dryRun
  BY DEF Net!NetNext, Net!netEnv, Net!Start, Net!Skip, Net!DryRun, Net!Backup, Net!WriteFail, Net!Write,
         Net!DirectFail, Net!Restore, Found
<1>1. CASE ~dryRun  BY <1>1, <1>d DEF NetDry
<1>2. CASE dryRun
  <2>1. /\ ~Net!Backup /\ ~Net!WriteFail /\ ~Net!Write /\ ~Net!DirectFail /\ ~Net!Restore
    BY <1>2 DEF NetDry, Net!Backup, Net!WriteFail, Net!Write, Net!DirectFail, Net!Restore
  <2>2. /\ content' = content /\ backup' = backup /\ step' \in {"next", "done"}
    BY <2>1 DEF Net!NetNext, Net!Start, Net!Skip, Net!DryRun, Net!Advance, Net!disk
  <2> QED  BY <2>2, <1>d, <1>2 DEF NetDry
<1> QED  BY <1>1, <1>2

-----------------------------------------------------------------------------
(* The stages of run leave the parts alone, but for where they are mounted.*)

LEMMA NetKept ==
    ASSUME NetInv, Passed, TornTold, NetDry, UNCHANGED <<netWork, dryRun, level>>, root' \in {"rw", "ro", "none"}
    PROVE  NetInv' /\ Passed' /\ TornTold' /\ NetDry'
<1>u. /\ UNCHANGED <<original, content, backup, step, at, saved, told, modified, failed>>
      /\ UNCHANGED <<dryRun, level>>
  BY DEF netWork
<1>f. Found' = Found  BY <1>u DEF Found
<1>1. NetTyped' /\ Ahead'  BY <1>u, <1>f DEF NetInv, NetTyped, Ahead
<1>2. \A f \in Found : Net!Fixed(original[f])' = Net!Fixed(original[f])
  BY <1>u, FixedSame
<1>3. DOMAIN content = Found  BY DEF NetInv, NetTyped
<1>4. Net!ToldTrue'  BY <1>u, <1>2, <1>3 DEF NetInv, Net!ToldTrue
<1>5. TornTold' /\ NetDry'  BY <1>u, <1>f DEF TornTold, NetDry
<1>6. Passed'
  <2>1. \A f \in Found : (Net!Raises(original[f]))' <=> Net!Raises(original[f])
    BY <1>u DEF Net!Raises
  <2>2. step \in {"write", "direct"} => at \in Found  BY DEF NetInv, NetTyped
  <2> QED  BY <1>u, <1>f, <1>2, <2>1, <2>2 DEF Passed
<1> QED  BY <1>1, <1>4, <1>5, <1>6 DEF NetInv

LEMMA SuiteKept ==
    ASSUME SuiteInv, UNCHANGED suiteWork PROVE SuiteInv'
BY SuiteInvNext DEF suiteWork, Suite!suiteVars

\* run_all is called once, with a suite that is ready.
LEMMA SuiteStarted ==
    ASSUME SuiteInv, phase = "idle", phase' = "start",
           UNCHANGED <<suite, cursor, call, attempt, verdict, counts, failedCritical, exit>>
    PROVE  SuiteInv'
<1>1. Suite!All' = Suite!All  BY DEF Suite!All
<1>2. SuiteTyped'  BY <1>1 DEF SuiteInv, SuiteTyped
<1>3. Orderly'  BY <1>1 DEF SuiteInv, Orderly, Active
<1>4. Tallied' /\ Based' /\ CriticalKnown'  BY <1>1 DEF SuiteInv, Tallied, Of, Based, CriticalKnown
<1>5. Concluded'  BY DEF Concluded
<1>6. Suite!Halted'  BY <1>1 DEF SuiteInv, Orderly, Suite!Halted, Suite!C
<1> QED  BY <1>2, <1>3, <1>4, <1>5, <1>6 DEF SuiteInv

\* A torn fstab is not rewritten: nothing in it can be converted.
TornStays == tables["fstab"] = "torn" => tables'["fstab"] = "torn"

LEMMA BootKept ==
    ASSUME BootTold, BootDry, UNCHANGED <<guest, updateGrub, dryRun, boot, astray, audit>>, TornStays,
           \/ bstep' \in {bstep, "stage", "regen"} /\ bootMounted' = bootMounted
           \/ bstep' = bstep /\ bstep \notin Injecting /\ bootMounted' = FALSE
    PROVE  BootTold' /\ BootDry'
BY ZenonT(60) DEF BootTold, BootDry, TornStays, Boot!BootTypes, Injecting, RootDone

-----------------------------------------------------------------------------
(* The stages.                                                             *)

\* What is said of run itself, and what a stage may do to the state of a part.
RunInv == FixerTyped /\ Staged /\ FixerDry
Roots == {"rw", "ro", "none"}
Unworked ==
    /\ UNCHANGED <<scenario, netWork, suite, cursor, call, attempt, verdict, counts, failedCritical, exit,
                   boot, astray, audit>>
    /\ root' \in Roots
    /\ phase' = phase \/ (phase = "idle" /\ phase' = "start")
    /\ \/ bstep' \in {bstep, "stage", "regen"} /\ bootMounted' = bootMounted
       \/ bstep' = bstep /\ bstep \notin Injecting /\ bootMounted' = FALSE

LEMMA MountTypedNext ==
    ASSUME RunInv, Mounting \/ Fixing \/ Ending PROVE MountTyped'
<1> USE DEF RunInv, FixerTyped, MountTyped, Unrooted, Rooted, Goto, Escape, scenario, mount
<1>1. CASE Start
  BY <1>1 DEF Start
<1>2. CASE Resize
  BY <1>2 DEF Resize
<1>3. CASE OpenDrive
  BY <1>3 DEF OpenDrive
<1>4. CASE Unlock
  BY <1>4 DEF Unlock
<1>5. CASE Inspect
  <2>1. /\ UNCHANGED <<opt, back, visible, rootDev, device>> /\ pc' \in {"direct", "brute"}
    BY <1>5 DEF Inspect
  <2>2. subvol' \in BOOLEAN  BY <1>5 DEF Inspect
  <2> QED  BY <2>1, <2>2
<1>6. CASE MountDirect
  BY <1>6 DEF MountDirect, Mounted, Unmounted, MountMode, Inspected
<1>7. CASE MountBruteforce
  BY <1>7 DEF MountBruteforce, Mounted, Unmounted, MountMode
<1>8. CASE Repair
  BY <1>8 DEF Repair, Unmounted
<1>9. CASE Validate
  BY <1>9 DEF Validate
<1>10. CASE Validated
  BY <1>10 DEF Validated, StageOver
<1>11. CASE RewriteFstab
  BY <1>11 DEF RewriteFstab, RewriteTable, StageOver
<1>12. CASE RewriteCrypttab
  BY <1>12 DEF RewriteCrypttab, RewriteTable, StageOver
<1>13. CASE Network
  BY <1>13 DEF Network
<1>14. CASE Grub
  BY <1>14 DEF Grub
<1>15. CASE GrubUpdated
  BY <1>15 DEF GrubUpdated, StageOver
<1>16. CASE Windows
  BY <1>16 DEF Windows, StageOver
<1>17. CASE ServeTree
  BY <1>17 DEF ServeTree
<1>18. CASE RemoveTools
  BY <1>18 DEF RemoveTools
<1>19. CASE UnserveTree
  BY <1>19 DEF UnserveTree
<1>20. CASE RemoveDirectory
  BY <1>20 DEF RemoveDirectory
<1>21. CASE Regenerate
  BY <1>21 DEF Regenerate
<1>22. CASE Regenerated
  BY <1>22 DEF Regenerated
<1>23. CASE Finish
  BY <1>23 DEF Finish
<1>24. CASE Close
  BY <1>24 DEF Close, Unmounted
<1>25. CASE WriteReport
  BY <1>25 DEF WriteReport
<1> QED
  BY <1>1, <1>2, <1>3, <1>4, <1>5, <1>6, <1>7, <1>8, <1>9, <1>10, <1>11, <1>12, <1>13, <1>14, <1>15,
     <1>16, <1>17, <1>18, <1>19, <1>20, <1>21, <1>22, <1>23, <1>24, <1>25 DEF Mounting, Fixing, Ending

LEMMA OutcomeTypedNext ==
    ASSUME RunInv, Mounting \/ Fixing \/ Ending PROVE OutcomeTyped'
<1> USE DEF RunInv, FixerTyped, OutcomeTyped, outcome, Writes, Goto
<1>s. ASSUME NEW stage \in Stages, NEW raised, StageOver(stage, raised)
      PROVE  entries' \in [Stages -> {"none", "duration"}] /\ failures' \subseteq Stages
  BY <1>s DEF StageOver
<1>r. ASSUME NEW table \in Tables, NEW then, RewriteTable(table, then) PROVE OutcomeTyped'
  <2>1. changed' \in {changed, changed \cup {table}}  BY <1>r DEF RewriteTable
  <2>2. entries' \in [Stages -> {"none", "duration"}] /\ failures' \subseteq Stages
    <3>1. table \in Stages  BY DEF Stages
    <3> QED  BY <3>1, <1>r, <1>s DEF RewriteTable
  <2>3. tables' \in [Tables -> {"uuid", "bypath", "dev", "torn"}]  BY <1>r DEF RewriteTable
  <2> QED  BY <2>1, <2>2, <2>3
<1>1. CASE UNCHANGED outcome  BY <1>1
<1>2. CASE Resize  BY <1>2 DEF Resize
<1>3. CASE Validated \/ GrubUpdated
  <2>1. "validation" \in Stages /\ "grub" \in Stages  BY DEF Stages
  <2> QED  BY <1>3, <1>s, <2>1 DEF Validated, GrubUpdated
<1>4. CASE RewriteFstab \/ RewriteCrypttab
  BY <1>4, <1>r DEF RewriteFstab, RewriteCrypttab, Tables
<1>5. CASE Windows
  <2>1. "virtio" \in Stages  BY DEF Stages
  <2>2. entries' \in [Stages -> {"none", "duration"}] /\ failures' \subseteq Stages
    BY <1>5, <1>s, <2>1 DEF Windows
  <2> QED  BY <1>5, <2>2 DEF Windows
<1>6. CASE RemoveTools \/ RemoveDirectory  BY <1>6 DEF RemoveTools, RemoveDirectory
<1> QED
  BY <1>1, <1>2, <1>3, <1>4, <1>5, <1>6
  DEF Mounting, Fixing, Ending, Start, OpenDrive, Unlock, Inspect, MountDirect, MountBruteforce, Repair,
      Validate, Network, Grub, ServeTree, UnserveTree, Regenerate, Regenerated, Finish, Close,
      WriteReport

LEMMA HandleTypedNext ==
    ASSUME RunInv, Mounting \/ Fixing \/ Ending PROVE HandleTyped'
<1> USE DEF RunInv, FixerTyped, HandleTyped, Escape, Goto, handle
<1>1. CASE Start
  BY <1>1 DEF Start
<1>2. CASE Resize
  BY <1>2 DEF Resize
<1>3. CASE OpenDrive
  BY <1>3 DEF OpenDrive
<1>4. CASE Unlock
  BY <1>4 DEF Unlock
<1>5. CASE Inspect
  BY <1>5 DEF Inspect
<1>6. CASE MountDirect
  BY <1>6 DEF MountDirect, Mounted, Unmounted, MountMode, Inspected
<1>7. CASE MountBruteforce
  BY <1>7 DEF MountBruteforce, Mounted, Unmounted, MountMode
<1>8. CASE Repair
  BY <1>8 DEF Repair, Unmounted
<1>9. CASE Validate
  BY <1>9 DEF Validate
<1>10. CASE Validated
  BY <1>10 DEF Validated, StageOver
<1>11. CASE RewriteFstab
  BY <1>11 DEF RewriteFstab, RewriteTable, StageOver
<1>12. CASE RewriteCrypttab
  BY <1>12 DEF RewriteCrypttab, RewriteTable, StageOver
<1>13. CASE Network
  BY <1>13 DEF Network
<1>14. CASE Grub
  BY <1>14 DEF Grub
<1>15. CASE GrubUpdated
  BY <1>15 DEF GrubUpdated, StageOver
<1>16. CASE Windows
  BY <1>16 DEF Windows, StageOver
<1>17. CASE ServeTree
  BY <1>17 DEF ServeTree
<1>18. CASE RemoveTools
  BY <1>18 DEF RemoveTools
<1>19. CASE UnserveTree
  BY <1>19 DEF UnserveTree
<1>20. CASE RemoveDirectory
  BY <1>20 DEF RemoveDirectory
<1>21. CASE Regenerate
  BY <1>21 DEF Regenerate
<1>22. CASE Regenerated
  BY <1>22 DEF Regenerated
<1>23. CASE Finish
  BY <1>23 DEF Finish
<1>24. CASE Close
  BY <1>24 DEF Close, Unmounted
<1>25. CASE WriteReport
  BY <1>25 DEF WriteReport
<1> QED
  BY <1>1, <1>2, <1>3, <1>4, <1>5, <1>6, <1>7, <1>8, <1>9, <1>10, <1>11, <1>12, <1>13, <1>14, <1>15,
     <1>16, <1>17, <1>18, <1>19, <1>20, <1>21, <1>22, <1>23, <1>24, <1>25 DEF Mounting, Fixing, Ending

LEMMA StagedNext ==
    ASSUME RunInv, Mounting \/ Fixing \/ Ending PROVE Staged'
<1> USE DEF RunInv, Staged, Early, Rooted, Injecting, RootDone, Goto, Escape, scenario, mount, work,
            suiteWork, bootWork, handle
<1>1. CASE Start  BY <1>1 DEF Start
<1>2. CASE Resize  BY <1>2 DEF Resize
<1>3. CASE OpenDrive  BY <1>3 DEF OpenDrive
<1>4. CASE Unlock  BY <1>4 DEF Unlock
<1>5. CASE Inspect  BY <1>5 DEF Inspect
<1>6. CASE MountDirect
  BY <1>6 DEF FixerTyped, MountTyped, MountDirect, Mounted, Unmounted, MountMode, Inspected
<1>7. CASE MountBruteforce
  BY <1>7 DEF FixerTyped, MountTyped, MountBruteforce, Mounted, Unmounted, MountMode
<1>8. CASE Repair  BY <1>8 DEF Repair, Unmounted
<1>9. CASE Validate  BY <1>9 DEF Validate
<1>10. CASE Validated  BY <1>10 DEF Validated, StageOver
<1>11. CASE RewriteFstab  BY <1>11 DEF RewriteFstab, RewriteTable, StageOver
<1>12. CASE RewriteCrypttab  BY <1>12 DEF RewriteCrypttab, RewriteTable, StageOver
<1>13. CASE Network  BY <1>13 DEF Network
<1>14. CASE Grub  BY <1>14 DEF Grub
<1>15. CASE GrubUpdated  BY <1>15 DEF GrubUpdated, StageOver
<1>16. CASE Windows  BY <1>16 DEF Windows, StageOver
<1>17. CASE ServeTree  BY <1>17 DEF ServeTree
<1>18. CASE RemoveTools  BY <1>18 DEF RemoveTools
<1>19. CASE UnserveTree  BY <1>19 DEF UnserveTree
<1>20. CASE RemoveDirectory  BY <1>20 DEF RemoveDirectory
<1>21. CASE Regenerate  BY <1>21 DEF Regenerate
<1>22. CASE Regenerated  BY <1>22 DEF Regenerated
<1>23. CASE Finish  BY <1>23 DEF Finish
<1>24. CASE Close  BY <1>24 DEF Close, Unmounted
<1>25. CASE WriteReport  BY <1>25 DEF WriteReport
<1> QED
  BY <1>1, <1>2, <1>3, <1>4, <1>5, <1>6, <1>7, <1>8, <1>9, <1>10, <1>11, <1>12, <1>13, <1>14, <1>15,
     <1>16, <1>17, <1>18, <1>19, <1>20, <1>21, <1>22, <1>23, <1>24, <1>25
  DEF Mounting, Fixing, Ending

LEMMA FixerDryNext ==
    ASSUME RunInv, Mounting \/ Fixing \/ Ending PROVE FixerDry'
<1> USE DEF RunInv, FixerDry, Staged, Goto, Escape, Writes, scenario, mount, outcome, handle
<1>1. CASE Start  BY <1>1 DEF Start
<1>2. CASE Resize  BY <1>2 DEF Resize
<1>3. CASE OpenDrive  BY <1>3 DEF OpenDrive
<1>4. CASE Unlock  BY <1>4 DEF Unlock
<1>5. CASE Inspect  BY <1>5 DEF Inspect
<1>6. CASE MountDirect  BY <1>6 DEF MountDirect, Mounted, Unmounted, MountMode, Inspected
<1>7. CASE MountBruteforce  BY <1>7 DEF MountBruteforce, Mounted, Unmounted, MountMode
<1>8. CASE Repair  BY <1>8 DEF Repair, Unmounted
<1>9. CASE Validate  BY <1>9 DEF Validate
<1>10. CASE Validated  BY <1>10 DEF Validated, StageOver
<1>11. CASE RewriteFstab  BY <1>11 DEF RewriteFstab, RewriteTable, StageOver
<1>12. CASE RewriteCrypttab  BY <1>12 DEF RewriteCrypttab, RewriteTable, StageOver
<1>13. CASE Network  BY <1>13 DEF Network
<1>14. CASE Grub  BY <1>14 DEF Grub
<1>15. CASE GrubUpdated  BY <1>15 DEF GrubUpdated, StageOver
<1>16. CASE Windows  BY <1>16 DEF Windows, StageOver
<1>17. CASE ServeTree  BY <1>17 DEF ServeTree
<1>18. CASE RemoveTools  BY <1>18 DEF RemoveTools
<1>19. CASE UnserveTree  BY <1>19 DEF UnserveTree
<1>20. CASE RemoveDirectory  BY <1>20 DEF RemoveDirectory
<1>21. CASE Regenerate  BY <1>21 DEF Regenerate
<1>22. CASE Regenerated  BY <1>22 DEF Regenerated
<1>23. CASE Finish  BY <1>23 DEF Finish
<1>24. CASE Close  BY <1>24 DEF Close, Unmounted
<1>25. CASE WriteReport  BY <1>25 DEF WriteReport
<1> QED
  BY <1>1, <1>2, <1>3, <1>4, <1>5, <1>6, <1>7, <1>8, <1>9, <1>10, <1>11, <1>12, <1>13, <1>14, <1>15,
     <1>16, <1>17, <1>18, <1>19, <1>20, <1>21, <1>22, <1>23, <1>24, <1>25
  DEF Mounting, Fixing, Ending

LEMMA UnworkedNext ==
    ASSUME RunInv, root \in Roots, Mounting \/ Fixing \/ Ending PROVE Unworked
<1> USE DEF RunInv, Staged, Roots, Early, Unworked, Injecting, RootDone, Goto, Escape, scenario, mount,
            work, netWork, suiteWork, bootWork
<1>1. CASE Start  BY <1>1 DEF Start
<1>2. CASE Resize  BY <1>2 DEF Resize
<1>3. CASE OpenDrive  BY <1>3 DEF OpenDrive
<1>4. CASE Unlock  BY <1>4 DEF Unlock
<1>5. CASE Inspect  BY <1>5 DEF Inspect
<1>6. CASE MountDirect  BY <1>6 DEF MountDirect, Mounted, Unmounted, MountMode, Inspected
<1>7. CASE MountBruteforce  BY <1>7 DEF MountBruteforce, Mounted, Unmounted, MountMode
<1>8. CASE Repair  BY <1>8 DEF Repair, Unmounted
<1>9. CASE Validate  BY <1>9 DEF Validate
<1>10. CASE Validated  BY <1>10 DEF Validated, StageOver
<1>11. CASE RewriteFstab  BY <1>11 DEF RewriteFstab, RewriteTable, StageOver
<1>12. CASE RewriteCrypttab  BY <1>12 DEF RewriteCrypttab, RewriteTable, StageOver
<1>13. CASE Network  BY <1>13 DEF Network
<1>14. CASE Grub  BY <1>14 DEF Grub
<1>15. CASE GrubUpdated  BY <1>15 DEF GrubUpdated, StageOver
<1>16. CASE Windows  BY <1>16 DEF Windows, StageOver
<1>17. CASE ServeTree  BY <1>17 DEF ServeTree
<1>18. CASE RemoveTools  BY <1>18 DEF RemoveTools
<1>19. CASE UnserveTree  BY <1>19 DEF UnserveTree
<1>20. CASE RemoveDirectory  BY <1>20 DEF RemoveDirectory
<1>21. CASE Regenerate  BY <1>21 DEF Regenerate
<1>22. CASE Regenerated  BY <1>22 DEF Regenerated
<1>23. CASE Finish  BY <1>23 DEF Finish
<1>24. CASE Close  BY <1>24 DEF Close, Unmounted
<1>25. CASE WriteReport  BY <1>25 DEF WriteReport
<1> QED
  BY <1>1, <1>2, <1>3, <1>4, <1>5, <1>6, <1>7, <1>8, <1>9, <1>10, <1>11, <1>12, <1>13, <1>14, <1>15,
     <1>16, <1>17, <1>18, <1>19, <1>20, <1>21, <1>22, <1>23, <1>24, <1>25
  DEF Mounting, Fixing, Ending

-----------------------------------------------------------------------------
(* The invariant of the run.                                               *)

LEMMA FixerInvInit == Init => FixerInv
<1>1. SUFFICES ASSUME Init PROVE FixerInv  OBVIOUS
<1>2. PICK j \in Jobs :
        /\ pc = "start" /\ opt = j.opt /\ dryRun = j.dryRun /\ level = "moderate"
        /\ guest = j.guest /\ updateGrub = j.updateGrub /\ tables = j.tables
        /\ root = "none" /\ visible = ~j.encrypted /\ Idle
        /\ Net!Fixable(j.files) /\ Suite!Prepared(Checkup, "idle") /\ Boot!BootUntouched
  BY <1>1 DEF Init
<1>3. /\ j.opt \in Options /\ j.dryRun \in BOOLEAN /\ j.updateGrub \in BOOLEAN
      /\ j.guest \in Boot!Guests /\ j.encrypted \in BOOLEAN
      /\ j.tables \in [Tables -> {"uuid", "bypath", "dev"}]
      /\ j.files \in Seq(Net!Texts) /\ Len(j.files) <= Files
  BY FixerAssumption
<1>4. NetInv
  <2>1. NetInit  BY <1>2, <1>3 DEF NetInit, Net!Levels
  <2> QED  BY <2>1, NetInvInit, PartsAssumption
<1>5. Passed /\ TornTold /\ NetDry
  <2>1. /\ content = original /\ step = "idle" /\ at = 1 /\ \A f \in Found : backup[f] = None
    BY <1>2 DEF Net!Fixable, Found
  <2>2. \A f \in Found : original[f] # Torn
    BY <1>4, PartsAssumption DEF NetInv, NetTyped, Found, Net!NetworkAssumption
  <2> QED  BY <2>1, <2>2 DEF Passed, TornTold, NetDry, Found
<1>6. SuiteInv /\ phase = "idle"
  BY <1>2, SuitePrepared, PartsAssumption DEF Suite!Prepared
<1>7. BootTold /\ BootDry
  BY <1>2, <1>3
  DEF Boot!BootUntouched, BootTold, BootDry, Boot!BootTypes, Boot!BootFiles, Injecting, RootDone
<1>8. MountTyped
  <2>1. visible \in BOOLEAN  BY <1>2, <1>3
  <2> QED  BY <1>2, <1>3, <2>1 DEF MountTyped, Idle, Unrooted
<1>9. OutcomeTyped /\ HandleTyped
  BY <1>2, <1>3 DEF OutcomeTyped, HandleTyped, Idle
<1>10. Staged
  BY <1>2, <1>6 DEF Staged, Idle, Rooted, RootDone, Injecting, Boot!BootUntouched
<1>11. FixerDry  BY <1>2 DEF FixerDry, Idle
<1> QED  BY <1>4, <1>5, <1>6, <1>7, <1>8, <1>9, <1>10, <1>11 DEF FixerInv, FixerTyped

LEMMA TornStaysNext ==
    ASSUME RunInv, Mounting \/ Fixing \/ Ending PROVE TornStays
<1> USE DEF TornStays, outcome
<1>1. ASSUME NEW table \in Tables, NEW then, RewriteTable(table, then) PROVE TornStays
  <2>1. tables \in [Tables -> {"uuid", "bypath", "dev", "torn"}]
    BY DEF RunInv, FixerTyped, OutcomeTyped
  <2>2. \/ tables' = tables
        \/ tables[table] # "torn" /\ tables' = [tables EXCEPT ![table] = "uuid"]
        \/ tables' = [tables EXCEPT ![table] = "torn"]
    BY <1>1 DEF RewriteTable, Converts
  <2> QED  BY <2>1, <2>2 DEF Tables
<1>2. CASE RewriteFstab \/ RewriteCrypttab
  BY <1>1, <1>2 DEF RewriteFstab, RewriteCrypttab, Tables
<1>3. CASE tables' = tables  BY <1>3
<1> QED
  BY <1>2, <1>3
  DEF Mounting, Fixing, Ending, Start, Resize, OpenDrive, Unlock, Inspect, MountDirect, MountBruteforce,
      Repair, Validate, Validated, Network, Grub, GrubUpdated, Windows, ServeTree, RemoveTools,
      UnserveTree, RemoveDirectory, Regenerate, Regenerated, Finish, Close, WriteReport

\* A stage of run itself.
LEMMA StageNext ==
    ASSUME FixerInv, Mounting \/ Fixing \/ Ending PROVE FixerInv'
<1>1. RunInv /\ NetInv /\ Passed /\ SuiteInv /\ BootTold /\ BootDry /\ TornTold /\ NetDry
  BY DEF FixerInv, RunInv
<1>2. FixerTyped' /\ Staged' /\ FixerDry'
  BY <1>1, MountTypedNext, OutcomeTypedNext, HandleTypedNext, StagedNext, FixerDryNext DEF FixerTyped
<1>3. Unworked  BY <1>1, UnworkedNext DEF NetInv, NetTyped, Roots
<1>4. NetInv' /\ Passed' /\ TornTold' /\ NetDry'
  BY <1>1, <1>3, NetKept DEF Unworked, scenario, Roots
<1>5. SuiteInv'
  <2>1. CASE phase' = phase  BY <1>1, <1>3, <2>1, SuiteKept DEF Unworked, suiteWork
  <2>2. CASE phase = "idle" /\ phase' = "start"  BY <1>1, <1>3, <2>2, SuiteStarted DEF Unworked
  <2> QED  BY <1>3, <2>1, <2>2 DEF Unworked
<1>6. BootTold' /\ BootDry'  BY <1>1, <1>3, TornStaysNext, BootKept DEF Unworked, scenario
<1> QED  BY <1>2, <1>4, <1>5, <1>6 DEF FixerInv

\* A step of a part.
LEMMA NetworkStepNext ==
    ASSUME FixerInv, NetworkStep PROVE FixerInv'
<1>1. /\ pc = "network" /\ Net!NetNext
      /\ UNCHANGED <<Own, suiteWork, bootWork, guest, updateGrub>>
  BY DEF NetworkStep
<1>2. UNCHANGED <<root, dryRun, level>>
  BY <1>1
  DEF Net!NetNext, Net!netEnv, Net!Start, Net!Skip, Net!DryRun, Net!Backup, Net!WriteFail, Net!Write,
         Net!DirectFail, Net!Restore
<1>3. dryRun \in BOOLEAN /\ (root # "rw" \/ ~dryRun)  BY DEF FixerInv, NetInv, NetTyped, FixerDry
<1>4. NetInv' /\ Passed' /\ TornTold' /\ NetDry'
  <2>1. NetInv'  BY <1>1, NetInvNext, PartsAssumption DEF FixerInv
  <2>2. Passed'  BY <1>1, <2>1, PassedNext, PartsAssumption DEF FixerInv, NetInv
  <2> QED  BY <1>1, <1>3, <2>1, <2>2, TornToldNext, NetDryNext, PartsAssumption DEF FixerInv
<1>5. SuiteInv'  BY <1>1, SuiteKept DEF FixerInv
<1>6. BootTold' /\ BootDry'  BY <1>1, <1>2, BootKept DEF FixerInv, bootWork, Own, outcome, TornStays
<1>7. FixerTyped'
  BY <1>1 DEF FixerInv, FixerTyped, MountTyped, OutcomeTyped, HandleTyped, Own, outcome
<1>8. Staged' /\ FixerDry'
  BY <1>1, <1>2 DEF FixerInv, Staged, FixerDry, Own, outcome, suiteWork, bootWork
<1> QED  BY <1>4, <1>5, <1>6, <1>7, <1>8 DEF FixerInv

LEMMA SuiteStepNext ==
    ASSUME FixerInv, SuiteStep PROVE FixerInv'
<1>1. /\ pc = "validating" /\ Suite!SuiteNext
      /\ UNCHANGED <<Own, netWork, bootWork, root, dryRun, level, guest, updateGrub>>
  BY DEF SuiteStep
<1>2. SuiteInv'  BY <1>1, SuiteInvNext DEF FixerInv
<1>3. NetInv' /\ Passed' /\ TornTold' /\ NetDry'
  <2>1. root' \in {"rw", "ro", "none"}  BY <1>1 DEF FixerInv, NetInv, NetTyped
  <2> QED  BY <1>1, <2>1, NetKept DEF FixerInv
<1>4. BootTold' /\ BootDry'  BY <1>1, BootKept DEF FixerInv, bootWork, Own, outcome, TornStays
<1>5. FixerTyped'
  BY <1>1 DEF FixerInv, FixerTyped, MountTyped, OutcomeTyped, HandleTyped, Own, outcome
<1>6. Staged' /\ FixerDry'
  BY <1>1 DEF FixerInv, Staged, FixerDry, Own, outcome, bootWork, Early
<1> QED  BY <1>2, <1>3, <1>4, <1>5, <1>6 DEF FixerInv

LEMMA BootStepNext ==
    ASSUME FixerInv, BootStep PROVE FixerInv'
<1>1. /\ pc \in {"grub root", "regenerating"} /\ Boot!BootNext
      /\ UNCHANGED <<Own, netWork, suiteWork, level>>
  BY DEF BootStep
<1>2. /\ UNCHANGED <<root, dryRun, guest, updateGrub>>
      /\ bstep' # "stage"
      /\ bstep \in {"stage", "idle", "updated", "update failed", "regenerated"} =>
            bstep' \in {"updated", "update failed"}
      /\ bstep' # "regen"
  BY <1>1 DEF Boot!BootNext, Boot!UpdateRoot, Boot!Regen, Boot!RootUpdate, Boot!MountBoot, Boot!Inject,
     Boot!WriteModules, Boot!PatchMkinitcpio, Boot!DropIn, Boot!PatchSysconfig, Boot!Configured,
     Boot!NoDrivers, Boot!LoadModules, Boot!Initramfs, Boot!Bootloader, Boot!UmountBoot, Boot!BStep,
     Boot!bootEnv
<1>3. dryRun \in BOOLEAN /\ (root # "rw" \/ ~dryRun) /\ root # "none"
  BY <1>1 DEF FixerInv, NetInv, NetTyped, FixerDry, Staged, Rooted
<1>4. BootTold' /\ BootDry'  BY <1>1, <1>3, BootToldNext, BootDryNext DEF FixerInv
<1>5. NetInv' /\ Passed' /\ TornTold' /\ NetDry'
  <2>1. root' \in {"rw", "ro", "none"}  BY <1>2 DEF FixerInv, NetInv, NetTyped
  <2> QED  BY <1>1, <1>2, <2>1, NetKept DEF FixerInv
<1>6. SuiteInv'  BY <1>1, SuiteKept DEF FixerInv
<1>7. FixerTyped'
  BY ZenonT(60), <1>1 DEF FixerInv, FixerTyped, MountTyped, OutcomeTyped, HandleTyped, Own, outcome
<1>8. Staged'
  <2>1. bstep \in {"idle", "stage", "updated", "update failed", "regen", "mount", "inject", "load",
                   "initramfs", "bootloader", "umount", "regenerated"}
    BY DEF FixerInv, BootTold, Boot!BootTypes
  <2>2. UNCHANGED <<pc, opt, ended, phase, root>>  BY <1>1, <1>2 DEF Own, suiteWork
  <2> QED
    BY <1>1, <1>2, <2>1, <2>2 DEF FixerInv, Staged, Early, RootDone, Injecting
<1>9. FixerDry'  BY <1>1, <1>2 DEF FixerInv, FixerDry, Own, outcome
<1> QED  BY <1>4, <1>5, <1>6, <1>7, <1>8, <1>9 DEF FixerInv

LEMMA FixerInvNext == FixerInv /\ [Next]_fixerVars => FixerInv'
<1>1. SUFFICES ASSUME FixerInv, [Next]_fixerVars PROVE FixerInv'  OBVIOUS
<1>2. CASE Mounting \/ Fixing \/ Ending  BY <1>1, <1>2, StageNext
<1>3. CASE NetworkStep  BY <1>1, <1>3, NetworkStepNext
<1>4. CASE SuiteStep  BY <1>1, <1>4, SuiteStepNext
<1>5. CASE BootStep  BY <1>1, <1>5, BootStepNext
<1>6. CASE UNCHANGED fixerVars
  <2>1. UNCHANGED <<scenario, mount, netWork, suiteWork, bootWork, outcome, handle, pc>>
    BY <1>6 DEF fixerVars, work
  <2>2. NetInv' /\ Passed' /\ TornTold' /\ NetDry'
    <3>1. root' \in {"rw", "ro", "none"}  BY <1>1, <2>1 DEF mount, FixerInv, NetInv, NetTyped
    <3> QED  BY <1>1, <2>1, <3>1, NetKept DEF scenario, FixerInv
  <2>3. SuiteInv'  BY <1>1, <2>1, SuiteKept DEF FixerInv
  <2>4. BootTold' /\ BootDry'  BY <1>1, <2>1, BootKept DEF FixerInv, bootWork, scenario, outcome, TornStays
  <2>5. FixerTyped'
    BY <1>1, <2>1
    DEF FixerInv, FixerTyped, MountTyped, OutcomeTyped, HandleTyped, scenario, mount, outcome, handle
  <2>6. Staged' /\ FixerDry'
    BY <1>1, <2>1 DEF FixerInv, Staged, FixerDry, scenario, mount, suiteWork, bootWork, outcome, handle
  <2> QED  BY <2>2, <2>3, <2>4, <2>5, <2>6 DEF FixerInv
<1> QED  BY <1>1, <1>2, <1>3, <1>4, <1>5, <1>6 DEF Next

LEMMA FixerInvHolds == Spec => []FixerInv
BY FixerInvInit, FixerInvNext, PTL DEF Spec

\* What the parts promise they keep in the run: the network fixer, though / is
\* mounted and unmounted around it, and the suite of create_validation_suite.
THEOREM PartsTrue == Spec => [](ToldTrue /\ RenamesAgree /\ PayloadTrue) /\ NothingAfterCritical
<1>1. FixerInv => ToldTrue /\ RenamesAgree /\ PayloadTrue
  BY PayloadFollows, RenamesFollow, PartsAssumption
  DEF FixerInv, NetInv, ToldTrue, RenamesAgree, PayloadTrue
<1>2. FixerInv /\ [Next]_fixerVars
        => [Suite!Halted /\ (phase = "done" => attempt' = attempt)]_(Suite!suiteVars)
  <2>1. SUFFICES ASSUME FixerInv, [Next]_fixerVars
                 PROVE  [Suite!Halted /\ (phase = "done" => attempt' = attempt)]_(Suite!suiteVars)
    OBVIOUS
  <2>2. Suite!Halted  BY <2>1 DEF FixerInv, SuiteInv
  <2>3. CASE SuiteStep  BY <2>1, <2>2, <2>3, NoneAfter DEF SuiteStep, FixerInv
  <2>4. CASE Mounting \/ Fixing \/ Ending
    <3>1. RunInv /\ root \in Roots  BY <2>1 DEF FixerInv, RunInv, NetInv, NetTyped, Roots
    <3> QED  BY <2>2, <2>4, <3>1, UnworkedNext DEF Unworked
  <2>5. CASE NetworkStep \/ BootStep \/ UNCHANGED fixerVars
    <3>1. attempt' = attempt
      BY <2>5 DEF NetworkStep, BootStep, fixerVars, work, suiteWork
    <3> QED  BY <2>2, <3>1
  <2> QED  BY <2>1, <2>3, <2>4, <2>5 DEF Next
<1> QED  BY <1>1, <1>2, FixerInvHolds, PTL DEF Spec, NothingAfterCritical, Suite!NothingAfterCritical

\* A dry run leaves the image and everything in it as it was.
THEOREM DryRunSafe == Spec => []DryRunUntouched
<1>1. FixerInv => DryRunUntouched
  BY DEF FixerInv, FixerDry, NetDry, BootDry, NetInv, NetTyped, DryRunUntouched
<1> QED  BY <1>1, FixerInvHolds, PTL

\* A run that has ended well tells of the damage it has done.
THEOREM DamageReported == Spec => []DamageTold
<1>1. ASSUME FixerInv, pc = "done" PROVE DamageTold
  <2>1. ended = "well"  BY <1>1 DEF FixerInv, Staged
  <2>2. opt.regen => bstep = "regenerated"  BY <1>1, <2>1 DEF FixerInv, Staged
  <2>3. DOMAIN content = Found  BY <1>1 DEF FixerInv, NetInv, NetTyped
  <2>4. \A f \in DOMAIN content : content[f] = Torn => told[f] = "failed"
    BY <1>1, <2>3 DEF FixerInv, TornTold
  <2> QED  BY <1>1, <2>2, <2>4 DEF FixerInv, BootTold, RootDone, DamageTold
<1>2. FixerInv => DamageTold  BY <1>1 DEF DamageTold
<1> QED  BY <1>2, FixerInvHolds, PTL

-----------------------------------------------------------------------------
(* What becomes of the tree of the guest.                                  *)

\* The removal of the tools was not asked for: the tree is not served.
Unserved == ~opt.tools /\ ~served /\ pc \notin {"remove", "unserve", "rmtree"}

LEMMA UnservedNext ==
    ASSUME FixerInv, Unserved, [Next]_fixerVars PROVE Unserved'
<1>0. back \in {"repair", "validation"} /\ served \in BOOLEAN
  BY DEF FixerInv, FixerTyped, MountTyped, HandleTyped
<1> USE <1>0 DEF Unserved, scenario, handle, mount, Escape, Goto
<1>1. CASE Start  BY <1>1 DEF Start
<1>2. CASE Resize  BY <1>2 DEF Resize
<1>3. CASE OpenDrive  BY <1>3 DEF OpenDrive
<1>4. CASE Unlock  BY <1>4 DEF Unlock
<1>5. CASE Inspect  BY <1>5 DEF Inspect
<1>6. CASE MountDirect  BY <1>6 DEF MountDirect, Mounted, Unmounted
<1>7. CASE MountBruteforce  BY <1>7 DEF MountBruteforce, Mounted, Unmounted
<1>8. CASE Repair  BY <1>8 DEF Repair, Unmounted
<1>9. CASE Validate  BY <1>9 DEF Validate
<1>10. CASE Validated  BY <1>10 DEF Validated
<1>11. CASE RewriteFstab  BY <1>11 DEF RewriteFstab, RewriteTable
<1>12. CASE RewriteCrypttab  BY <1>12 DEF RewriteCrypttab, RewriteTable
<1>13. CASE Network  BY <1>13 DEF Network
<1>14. CASE Grub  BY <1>14 DEF Grub
<1>15. CASE GrubUpdated  BY <1>15 DEF GrubUpdated
<1>16. CASE Windows  BY <1>16 DEF Windows
<1>17. CASE ServeTree  BY <1>17 DEF ServeTree
<1>18. CASE RemoveTools  BY <1>18 DEF RemoveTools
<1>19. CASE UnserveTree  BY <1>19 DEF UnserveTree
<1>20. CASE RemoveDirectory  BY <1>20 DEF RemoveDirectory
<1>21. CASE Regenerate  BY <1>21 DEF Regenerate
<1>22. CASE Regenerated  BY <1>22 DEF Regenerated
<1>23. CASE Finish  BY <1>23 DEF Finish
<1>24. CASE Close  BY <1>24 DEF Close
<1>25. CASE WriteReport  BY <1>25 DEF WriteReport
<1>26. CASE NetworkStep \/ SuiteStep \/ BootStep
  <2>1. UNCHANGED Own  BY <1>26 DEF NetworkStep, SuiteStep, BootStep
  <2> QED  BY <2>1 DEF Own
<1>27. CASE UNCHANGED fixerVars  BY <1>27 DEF fixerVars
<1> QED
  BY <1>1, <1>2, <1>3, <1>4, <1>5, <1>6, <1>7, <1>8, <1>9, <1>10, <1>11, <1>12, <1>13, <1>14, <1>15, <1>16,
     <1>17, <1>18, <1>19, <1>20, <1>21, <1>22, <1>23, <1>24, <1>25, <1>26, <1>27 DEF Next, Mounting, Fixing, Ending

\* Only one step takes the tree away, the removal of the directory that it is still
\* served to.
LEMMA GuestStep ==
    ASSUME [Next]_fixerVars, "guest" \in changed'
    PROVE  "guest" \in changed \/ (RemoveDirectory /\ served /\ root = "rw")
<1> USE DEF outcome, Writes
<1>1. CASE UNCHANGED outcome  BY <1>1
<1>2. CASE Resize  BY <1>2 DEF Resize
<1>3. CASE Validated \/ GrubUpdated
  <2>1. UNCHANGED changed  BY <1>3 DEF Validated, GrubUpdated
  <2> QED  BY <2>1
<1>4. ASSUME NEW table \in Tables, NEW then, RewriteTable(table, then) PROVE "guest" \in changed
  <2>1. changed' \in {changed, changed \cup {table}}  BY <1>4 DEF RewriteTable
  <2> QED  BY <2>1 DEF Tables
<1>5. CASE RewriteFstab \/ RewriteCrypttab
  BY <1>4, <1>5 DEF RewriteFstab, RewriteCrypttab, Tables
<1>6. CASE Windows  BY <1>6 DEF Windows
<1>7. CASE RemoveTools  BY <1>7 DEF RemoveTools
<1>8. CASE RemoveDirectory
  <2>1. CASE served /\ root = "rw"  BY <1>8, <2>1
  <2>2. CASE UNCHANGED changed  BY <2>2
  <2> QED  BY <1>8, <2>1, <2>2 DEF RemoveDirectory
<1>9. CASE NetworkStep \/ SuiteStep \/ BootStep
  <2>1. UNCHANGED Own  BY <1>9 DEF NetworkStep, SuiteStep, BootStep
  <2> QED  BY <2>1 DEF Own
<1>10. CASE UNCHANGED fixerVars  BY <1>10 DEF fixerVars
<1> QED
  BY <1>1, <1>2, <1>3, <1>5, <1>6, <1>7, <1>8, <1>9, <1>10
  DEF Next, Mounting, Fixing, Ending, Start, OpenDrive, Unlock, Inspect, MountDirect, MountBruteforce,
      Repair, Validate, Network, Grub, ServeTree, UnserveTree, Regenerate, Regenerated, Finish, Close,
      WriteReport

\* The tree of the guest is lost in one step only: / is mounted for writing, and the
\* directory it is still served to is removed (the finally block of the removal of
\* the VMware tools).
THEOREM GuestLostThere ==
    Spec => [][GuestKept => GuestKept' \/ (RemoveDirectory /\ served /\ root = "rw" /\ ~dryRun)]_fixerVars
<1>1. FixerInv => (root = "rw" => ~dryRun)  BY DEF FixerInv, FixerDry, NetInv, NetTyped
<1>2. FixerInv /\ [Next]_fixerVars
        => [GuestKept => GuestKept' \/ (RemoveDirectory /\ served /\ root = "rw" /\ ~dryRun)]_fixerVars
  BY <1>1, GuestStep DEF GuestKept
<1> QED  BY <1>2, FixerInvHolds, PTL DEF Spec

\* Where no job asks for the removal of the VMware tools, the tree of the guest stays.
THEOREM GuestStays ==
    ASSUME \A j \in Jobs : ~j.opt.tools
    PROVE  Spec => []GuestKept
<1>1. Init => Unserved /\ GuestKept
  BY DEF Init, Idle, GuestKept, Unserved
<1>2. FixerInv /\ Unserved /\ GuestKept /\ [Next]_fixerVars => Unserved' /\ GuestKept'
  BY UnservedNext, GuestStep DEF GuestKept, Unserved
<1> QED  BY <1>1, <1>2, FixerInvHolds, PTL DEF Spec

=============================================================================
