------------------------ MODULE WindowsFixer_proofs ------------------------
(***************************************************************************)
(* Theorems about WindowsFixer, for every set of guests, all sequences of  *)
(* calls and any number of seconds.                                        *)
(***************************************************************************)
EXTENDS WindowsFixer, TLAPS, SequenceTheorems

Hive == {"backup", "download", "edit", "upload", "verify"}

\* Which calls get where; nothing is uploaded in a dry run.
Stages ==
    /\ (pc = "root" => Call.kind \notin {"bcd", "firstboot"})
    /\ (pc \in {"dirs", "script"} => Call.kind \in {"firstboot", "network"})
    /\ (pc \in {"snapshot", "stage"} => Call.kind = "network")
    /\ (pc \in Hive => Call.kind # "bcd")
    /\ (pc = "upload" => ~Call.dry)

\* A hive that is not torn is as it last was, and while one is edited its backup
\* of that is there, unless it has replaced another.
Safe ==
    /\ \A h \in Hives : hive[h] # Torn => hive[h] = whole[h]
    /\ pc \in {"download", "edit", "upload"} /\ ~Call.dry /\ H \notin hasty =>
           \E t \in Seconds : backup[H][t] = whole[H]
    /\ Recoverable

\* The script is there before a service that runs it is in any content.
Serviced(content) == content # Torn /\ ({1, 2} \X {"firstboot", "network"}) \cap content # {}
Scripted ==
    /\ \A h \in Hives : Serviced(whole[h]) => script # None
    /\ (Serviced(local) => script # None)
    /\ pc \in {"backup", "download", "edit"} /\ ~Call.dry /\ Call.kind \in {"firstboot", "network"} =>
           script # None

\* What is edited is the hive as it last was, or a part of it.
Edited ==
    /\ (pc = "edit" /\ local # Torn => local = whole[H])
    /\ (pc = "upload" /\ local # Torn /\ guest.readable => whole[H] \ Overrides \subseteq local)

IInv == TypeOK /\ Stages /\ Safe /\ Scripted /\ Edited

-----------------------------------------------------------------------------

LEMMA CallOK ==
    ASSUME TypeOK, calls # <<>>
    PROVE  /\ Call \in CallType /\ Tail(calls) \in Seq(CallType)
           /\ Call.kind \in Kinds /\ Call.dry \in BOOLEAN
<1>1. calls \in Seq(CallType)  BY DEF TypeOK
<1>2. Call \in CallType  BY <1>1, HeadTailProperties DEF Call
<1>3. Tail(calls) \in Seq(CallType)  BY <1>1, HeadTailProperties
<1> QED  BY <1>2, <1>3 DEF CallType

LEMMA TargetOK == ASSUME TypeOK PROVE Target \in {1, 2} /\ H \in Hives
BY DEF TypeOK, GuestType, Target, Detected, H, Hives

\* What an edit makes of a whole hive has only entries, and, with values that can be
\* read, at most an override less.
LEMMA EditsOK ==
    ASSUME TypeOK, calls # <<>>, Call.kind # "bcd", local # Torn, NEW new \in Edits
    PROVE  /\ new \in SUBSET Entries
           /\ guest.readable => local \ Overrides \subseteq new
           /\ Serviced(new) => Serviced(local) \/ Call.kind \in {"firstboot", "network"}
<1>1. Target \in {1, 2} /\ local \in SUBSET Entries /\ Call.kind \in Kinds
  BY TargetOK, CallOK DEF TypeOK
<1> DEFINE key(what) == <<Target, what>>
<1>2. \A what \in {"override", "service", "devices", "dword", "firstboot", "network"} :
        key(what) \in Entries
  BY <1>1 DEF Entries, Keys
<1>3. Own \in Entries /\ Staged \in Entries /\ <<0, "runonce">> \in Entries
  BY DEF Own, Staged, Entries
<1>4. key("override") \in Overrides  BY <1>1 DEF Overrides
<1>5. CASE Call.kind = "drivers"
  <2>1. new \in WithDrivers(local)  BY <1>5 DEF Edits
  <2>2. PICK c \in WithService(local) : new \in WithDevices(c)  BY <2>1 DEF WithDrivers
  <2>3. c = local \/ c = local \cup {key("service")}
          \/ c = (local \cup {key("service")}) \ {key("override")}
    BY <2>2 DEF WithService
  <2>4. c \in SUBSET Entries /\ local \ Overrides \subseteq c
    BY <2>3, <1>1, <1>2, <1>4
  <2>5. new = c \/ new = c \cup {key("devices")}  BY <2>2 DEF WithDevices
  <2>6. Serviced(new) => Serviced(local)
    BY <2>3, <2>5 DEF Serviced
  <2> QED  BY <2>4, <2>5, <2>6, <1>2
<1>6. CASE Call.kind = "dword"
  <2>1. new = local \cup {key("dword")}  BY <1>6 DEF Edits, WithDword
  <2>2. Serviced(new) => Serviced(local)  BY <2>1 DEF Serviced
  <2> QED  BY <2>1, <2>2, <1>1, <1>2
<1>7. CASE Call.kind = "path"
  <2>1. new = WithPath(local)  BY <1>7 DEF Edits
  <2>2. new \in SUBSET Entries  BY <2>1, <1>1, <1>3 DEF WithPath
  <2>3. guest.readable => local \subseteq new  BY <2>1 DEF WithPath
  <2>4. new \subseteq local \cup {Staged}  BY <2>1 DEF WithPath
  <2>5. Staged \notin {1, 2} \X {"firstboot", "network"}  BY DEF Staged
  <2>6. Serviced(new) => Serviced(local)  BY <2>4, <2>5 DEF Serviced
  <2> QED  BY <2>2, <2>3, <2>6
<1>8. CASE Call.kind = "runonce"
  <2>1. new = local \cup {<<0, "runonce">>}  BY <1>8 DEF Edits, WithRunOnce
  <2>2. Serviced(new) => Serviced(local)  BY <2>1 DEF Serviced
  <2> QED  BY <2>1, <2>2, <1>1, <1>3
<1>9. CASE Call.kind \in {"firstboot", "network"}
  <2>1. new = local \cup {key(Call.kind)}  BY <1>9 DEF Edits, WithFirstboot
  <2> QED  BY <2>1, <1>1, <1>2, <1>9
<1> QED  BY <1>1, <1>5, <1>6, <1>7, <1>8, <1>9 DEF Kinds

-----------------------------------------------------------------------------
(* The invariant holds at first.                                           *)

LEMMA InvInit == ASSUME WindowsAssumption, Init PROVE IInv
<1>1. guest \in GuestType /\ calls \in Seq(CallType) /\ clock \in Seconds
  BY DEF WindowsAssumption, Init, Seconds
<1>2. hive \in [Hives -> SUBSET Entries] /\ whole = hive
  <2>1. guest.sets \X {"override"} \in SUBSET Entries  BY <1>1 DEF GuestType, Entries, Keys
  <2>2. Own \in Entries  BY DEF Own, Entries
  <2> DEFINE E == SUBSET Entries
             c == guest.sets \X {"override"}
  <2>3. c \in E /\ {Own} \in E  BY <2>1, <2>2
  <2>4. hive = [SYSTEM |-> c, SOFTWARE |-> {Own}] /\ whole = hive  BY DEF Init
  <2> HIDE DEF E, c
  <2>5. hive \in [Hives -> E]  BY <2>3, <2>4 DEF Hives
  <2> QED  BY <2>4, <2>5 DEF E
<1>3. backup \in [Hives -> [Seconds -> (SUBSET Entries) \cup {None, Torn}]]
  <2> DEFINE C == (SUBSET Entries) \cup {None, Torn}
  <2>1. None \in C  OBVIOUS
  <2> HIDE DEF C
  <2>2. backup = [h \in Hives |-> [t \in Seconds |-> None]]  BY DEF Init
  <2>3. backup \in [Hives -> [Seconds -> C]]  BY <2>1, <2>2
  <2> QED  BY <2>3 DEF C
<1>4. TypeOK
  BY <1>1, <1>2, <1>3 DEF Init, TypeOK
<1>5. Stages  BY DEF Init, Stages, Hive
<1>6. \A h \in Hives : hive[h] # Torn  BY <1>2 DEF WindowsAssumption
<1>7. Safe  BY <1>2, <1>6 DEF Init, Safe, Recoverable
<1>8. \A h \in Hives : ~Serviced(whole[h])
  <2>1. ~Serviced(guest.sets \X {"override"})  BY DEF Serviced
  <2>2. Own \notin {1, 2} \X {"firstboot", "network"}  BY DEF Own
  <2>3. ~Serviced({Own})  BY <2>2 DEF Serviced
  <2>4. hive = [SYSTEM |-> guest.sets \X {"override"}, SOFTWARE |-> {Own}] /\ whole = hive
    BY DEF Init
  <2>5. TAKE h \in Hives
  <2>6. CASE h = "SYSTEM"  BY <2>1, <2>4, <2>6
  <2>7. CASE h = "SOFTWARE"  BY <2>3, <2>4, <2>7
  <2> QED  BY <2>6, <2>7 DEF Hives
<1>9. ~Serviced(local)  BY DEF Init, Serviced
<1>10. Scripted  BY <1>8, <1>9 DEF Init, Scripted
<1>11. Edited  BY DEF Init, Edited
<1> QED  BY <1>4, <1>5, <1>7, <1>10, <1>11 DEF IInv

-----------------------------------------------------------------------------
(* One step: one case per action of Next.                                  *)

\* Contents and backups, as sets not looked into.
LEMMA Written ==
    ASSUME TypeOK
    PROVE  /\ [hive EXCEPT ![H] = Torn] \in [Hives -> (SUBSET Entries) \cup {Torn}]
           /\ [hive EXCEPT ![H] = local] \in [Hives -> (SUBSET Entries) \cup {Torn}]
           /\ (local # Torn => [whole EXCEPT ![H] = local] \in [Hives -> SUBSET Entries])
           /\ hive[H] \in (SUBSET Entries) \cup {Torn}
           /\ \A content \in (SUBSET Entries) \cup {Torn} :
                 Backup(content) =>
                    /\ backup' \in [Hives -> [Seconds -> (SUBSET Entries) \cup {None, Torn}]]
                    /\ hasty' \subseteq Hives
<1> DEFINE E == SUBSET Entries
           C == E \cup {Torn}
           B == E \cup {None, Torn}
<1>1. /\ hive \in [Hives -> C] /\ whole \in [Hives -> E] /\ local \in C
      /\ backup \in [Hives -> [Seconds -> B]]
  BY DEF TypeOK
<1>2. H \in Hives /\ clock \in Seconds /\ hasty \subseteq Hives  BY TargetOK DEF TypeOK
<1>3. Torn \in C /\ E \subseteq C /\ C \subseteq B  OBVIOUS
<1> HIDE DEF E, C, B
<1>4. ASSUME NEW content \in C, Backup(content)
      PROVE  backup' \in [Hives -> [Seconds -> B]] /\ hasty' \subseteq Hives
  <2>1. backup' = [backup EXCEPT ![H][clock] = content]  BY <1>4 DEF Backup
  <2>2. content \in B  BY <1>3
  <2>3. hasty' \subseteq hasty \cup {H}  BY <1>4 DEF Backup
  <2> QED  BY <2>1, <2>2, <2>3, <1>1, <1>2
<1>5. /\ [hive EXCEPT ![H] = Torn] \in [Hives -> C] /\ [hive EXCEPT ![H] = local] \in [Hives -> C]
      /\ hive[H] \in C
  BY <1>1, <1>2, <1>3
<1>6. local # Torn => [whole EXCEPT ![H] = local] \in [Hives -> E]
  <2>1. local # Torn => local \in E  BY <1>1 DEF C
  <2> QED  BY <2>1, <1>1, <1>2
<1> QED  BY <1>4, <1>5, <1>6 DEF E, C, B

LEMMA TypeNext ==
    ASSUME WindowsAssumption, TypeOK, Stages, [Next]_vars PROVE TypeOK' /\ Stages'
<1> USE DEF registry, copies, payload, Goto
<1>c. calls # <<>> => /\ Call.kind \in Kinds /\ Call.dry \in BOOLEAN
                     /\ Tail(calls) \in Seq(CallType)
  BY CallOK
<1>t. H \in Hives  BY TargetOK
<1>f. ASSUME Fail \/ Succeed, calls # <<>>
      PROVE  pc' = "next" /\ calls' \in Seq(CallType) /\ result' \in {"failed", "ok"} /\ Stages'
  BY <1>f, <1>c DEF Fail, Succeed, Stages, Hive
<1>s. ASSUME calls' = calls PROVE Call' = Call /\ H' = H
  BY <1>s DEF Call, H
<1>1. CASE Begin
  <2>1. TypeOK'  BY <1>1 DEF Begin, TypeOK
  <2>2. Stages'  BY <1>1, <1>c, <1>s DEF Begin, Stages, Hive, Kinds
  <2> QED  BY <2>1, <2>2
<1>2. CASE EnsureRoot
  <2>1. root' \in {"windows", "other", "none"} /\ calls # <<>>
    BY <1>2 DEF EnsureRoot, Remounted, TypeOK
  <2>2. files' \subseteq {"dirs", "ps1", "override", "bcd"}
    BY <1>2 DEF EnsureRoot, TypeOK
  <2>3. CASE Fail  BY <1>2, <2>1, <2>2, <2>3, <1>f DEF EnsureRoot, TypeOK
  <2>4. CASE UNCHANGED calls /\ UNCHANGED result
    BY <1>2, <2>1, <2>2, <2>4, <1>c, <1>s DEF EnsureRoot, TypeOK, Stages, Hive, Kinds, Fail
  <2> QED  BY <1>2, <2>3, <2>4 DEF EnsureRoot
<1>3. CASE BackUp
  <2>1. calls # <<>>  BY <1>3 DEF BackUp, TypeOK
  <2>2. Backup(hive[H]) \/ Backup(Torn) \/ UNCHANGED copies  BY <1>3 DEF BackUp
  <2>3. /\ backup' \in [Hives -> [Seconds -> (SUBSET Entries) \cup {None, Torn}]]
        /\ hasty' \subseteq Hives
    BY <2>2, Written DEF TypeOK
  <2>4. CASE Fail  BY <1>3, <2>1, <2>3, <2>4, <1>f DEF BackUp, TypeOK
  <2>5. CASE pc' = "download" /\ UNCHANGED <<calls, result>>
    BY <1>3, <2>1, <2>3, <2>5, <1>s DEF BackUp, TypeOK, Stages, Hive
  <2> QED  BY <1>3, <2>4, <2>5 DEF BackUp, BackupFailed
<1>4. CASE Download
  <2>1. calls # <<>>  BY <1>4 DEF Download, TypeOK
  <2>2. CASE Fail /\ UNCHANGED local  BY <1>4, <2>1, <2>2, <1>f DEF Download, TypeOK
  <2>3. CASE local' \in {hive[H], Torn} /\ pc' = "edit" /\ UNCHANGED <<calls, result>>
    <3>1. local' \in (SUBSET Entries) \cup {Torn}  BY <2>3, Written
    <3> QED  BY <1>4, <2>1, <2>3, <3>1, <1>s DEF Download, TypeOK, Stages, Hive
  <2> QED  BY <1>4, <2>2, <2>3 DEF Download
<1>5. CASE Edit
  <2>1. calls # <<>> /\ Call.kind # "bcd"  BY <1>5 DEF Edit, TypeOK, Stages, Hive
  <2>2. CASE (Fail \/ Succeed) /\ UNCHANGED local
    BY <1>5, <2>1, <2>2, <1>f DEF Edit, TypeOK
  <2>3. CASE ~Call.dry /\ local' \in Edits /\ pc' = "upload" /\ UNCHANGED calls
               /\ result' \in {"errors", "none"}
    <3>1. local' \in (SUBSET Entries) \cup {Torn}
      <4>1. CASE local = Torn  BY <2>3, <4>1 DEF Edits
      <4>2. CASE local # Torn  BY <2>1, <2>3, <4>2, EditsOK
      <4> QED  BY <4>1, <4>2
    <3>2. Stages'  BY <2>1, <2>3, <1>s DEF Stages, Hive
    <3> QED  BY <1>5, <2>1, <2>3, <3>1, <3>2 DEF Edit, TypeOK
  <2> QED  BY <1>5, <2>2, <2>3 DEF Edit
<1>6. CASE Upload
  <2>1. calls # <<>>  BY <1>6 DEF Upload, TypeOK
  <2>2. /\ hive' \in [Hives -> (SUBSET Entries) \cup {Torn}]
        /\ whole' \in [Hives -> SUBSET Entries]
    <3>1. whole' = whole \/ (local # Torn /\ whole' = [whole EXCEPT ![H] = local])
      BY <1>6 DEF Upload
    <3>2. whole' \in [Hives -> SUBSET Entries]  BY <3>1, Written DEF TypeOK
    <3>3. \/ hive' = hive
          \/ hive' = [hive EXCEPT ![H] = local]
          \/ hive' = [hive EXCEPT ![H] = Torn]
      BY <1>6 DEF Upload
    <3>4. hive' \in [Hives -> (SUBSET Entries) \cup {Torn}]  BY <3>3, Written DEF TypeOK
    <3> QED  BY <3>2, <3>4
  <2>3. CASE Fail  BY <1>6, <2>1, <2>2, <2>3, <1>f DEF Upload, TypeOK
  <2>4. CASE pc' = "verify" /\ UNCHANGED <<calls, result>>
    BY <1>6, <2>1, <2>2, <2>4, <1>s DEF Upload, TypeOK, Stages, Hive
  <2> QED  BY <1>6, <2>3, <2>4 DEF Upload
<1>7. CASE Verify
  <2>1. calls # <<>> /\ (Fail \/ Succeed)  BY <1>7 DEF Verify, TypeOK
  <2> QED  BY <1>7, <2>1, <1>f DEF Verify, TypeOK
<1>8. CASE Snapshot
  <2>1. calls # <<>>  BY <1>8 DEF Snapshot, TypeOK
  <2>2. CASE Fail  BY <1>8, <2>1, <2>2, <1>f DEF Snapshot, TypeOK
  <2>3. CASE pc' = "stage" /\ UNCHANGED <<calls, result>>
    BY <1>8, <2>1, <2>3, <1>s DEF Snapshot, TypeOK, Stages, Hive
  <2> QED  BY <1>8, <2>2, <2>3 DEF Snapshot
<1>9. CASE Stage
  <2>1. calls # <<>>  BY <1>9 DEF Stage, TypeOK
  <2>2. /\ files' \subseteq {"dirs", "ps1", "override", "bcd"}
        /\ saved' \in {None, Torn, "dhcp"}
    BY <1>9 DEF Stage, Mode, TypeOK
  <2>3. CASE Fail  BY <1>9, <2>1, <2>2, <2>3, <1>f DEF Stage, TypeOK
  <2>4. CASE pc' = "dirs" /\ UNCHANGED <<calls, result>>
    BY <1>9, <2>1, <2>2, <2>4, <1>s DEF Stage, TypeOK, Stages, Hive
  <2> QED  BY <1>9, <2>3, <2>4 DEF Stage
<1>10. CASE WriteScript
  <2>1. calls # <<>> /\ Call.kind \in {"firstboot", "network"}
    BY <1>10 DEF WriteScript, TypeOK, Stages
  <2>2. script' \in {None, Torn, "firstboot", "network"}
    BY <1>10, <2>1 DEF WriteScript, TypeOK
  <2>3. CASE Fail  BY <1>10, <2>1, <2>2, <2>3, <1>f DEF WriteScript, TypeOK
  <2>4. CASE pc' = "backup" /\ UNCHANGED <<calls, result>>
    BY <1>10, <2>1, <2>2, <2>4, <1>s DEF WriteScript, TypeOK, Stages, Hive
  <2> QED  BY <1>10, <2>3, <2>4 DEF WriteScript
<1>11. CASE Bcd
  <2>1. calls # <<>> /\ Succeed  BY <1>11 DEF Bcd, TypeOK
  <2>2. files' \subseteq {"dirs", "ps1", "override", "bcd"}  BY <1>11 DEF Bcd, TypeOK
  <2> QED  BY <1>11, <2>1, <2>2, <1>f DEF Bcd, TypeOK
<1>12. CASE Over  BY <1>12 DEF Over, TypeOK, Stages, Hive
<1>13. CASE Tick
  <2>1. clock' \in Seconds  BY <1>13 DEF Tick, TypeOK, Seconds, WindowsAssumption
  <2> QED  BY <1>13, <2>1, <1>s DEF Tick, TypeOK, Stages
<1>14. CASE Kill
  <2>1. calls # <<>> /\ Fail /\ clock \in Seconds  BY <1>14 DEF Kill, TypeOK
  <2>2. /\ backup' \in [Hives -> [Seconds -> (SUBSET Entries) \cup {None, Torn}]]
        /\ hasty' \subseteq Hives
    <3>1. Backup(Torn) \/ UNCHANGED copies  BY <1>14 DEF Kill
    <3> QED  BY <3>1, Written DEF TypeOK
  <2>3. hive' \in [Hives -> (SUBSET Entries) \cup {Torn}]
    <3>1. hive' = hive \/ hive' = [hive EXCEPT ![H] = Torn]  BY <1>14 DEF Kill
    <3> QED  BY <3>1, Written DEF TypeOK
  <2>4. script' \in {None, Torn, "firstboot", "network"} /\ saved' \in {None, Torn, "dhcp"}
    BY <1>14 DEF Kill, TypeOK
  <2> QED  BY <1>14, <2>1, <2>2, <2>3, <2>4, <1>f DEF Kill, TypeOK
<1>15. CASE UNCHANGED vars  BY <1>15, <1>s DEF vars, TypeOK, Stages
<1> QED
  BY <1>1, <1>2, <1>3, <1>4, <1>5, <1>6, <1>7, <1>8, <1>9, <1>10, <1>11, <1>12, <1>13,
     <1>14, <1>15 DEF Next, Advance

\* A new backup replaces no other, or the hive is one of the hasty ones.
LEMMA BackedUp ==
    ASSUME WindowsAssumption, TypeOK, Safe, NEW content, Backup(content) \/ UNCHANGED copies
    PROVE  \A h \in Hives, t \in Seconds :
              h \notin hasty' /\ backup[h][t] = whole[h] => backup'[h][t] = whole[h]
<1>1. TAKE h \in Hives, t \in Seconds
<1>2. HAVE h \notin hasty' /\ backup[h][t] = whole[h]
<1>3. whole[h] # None
  <2>1. whole[h] \in SUBSET Entries  BY DEF TypeOK
  <2> QED  BY <2>1 DEF WindowsAssumption
<1>4. CASE UNCHANGED copies  BY <1>2, <1>4 DEF copies
<1>5. CASE Backup(content)
  <2>1. hasty' = hasty \cup IF backup[H][clock] = None THEN {} ELSE {H}
    BY <1>5 DEF Backup
  <2>2. h = H => t # clock  BY <1>2, <1>3, <2>1
  <2>3. backup' = [backup EXCEPT ![H][clock] = content]  BY <1>5 DEF Backup
  <2> DEFINE row == backup[h]
  <2>4. h \in DOMAIN backup /\ t \in DOMAIN row  BY DEF TypeOK
  <2>5. CASE h = H
    <3>1. backup'[h] = [row EXCEPT ![clock] = content]  BY <2>3, <2>4, <2>5
    <3> QED  BY <3>1, <2>2, <2>4, <2>5, <1>2
  <2>6. CASE h # H
    <3>1. backup'[h] = row  BY <2>3, <2>4, <2>6
    <3> QED  BY <3>1, <1>2
  <2> QED  BY <2>5, <2>6
<1> QED  BY <1>4, <1>5

LEMMA SafeNext ==
    ASSUME WindowsAssumption, TypeOK, Stages, Safe, [Next]_vars PROVE Safe'
<1> USE DEF registry, copies, payload, Goto
<1>t. H \in Hives /\ DOMAIN hive = Hives /\ DOMAIN whole = Hives /\ DOMAIN backup = Hives
  BY TargetOK DEF TypeOK
<1>s. ASSUME calls' = calls PROVE H' = H /\ Call' = Call
  BY <1>s DEF Call, H
<1>e. \A h \in Hives : whole[h] # Torn  BY DEF TypeOK, WindowsAssumption
<1>f. ASSUME pc' \notin {"download", "edit", "upload"}, UNCHANGED <<registry, copies>> PROVE Safe'
  BY <1>f DEF Safe, Recoverable
<1>g. ASSUME pc' = pc \/ (pc' \in {"edit", "upload"} /\ pc \in {"download", "edit"}),
             UNCHANGED <<calls, registry, copies>>
      PROVE Safe'
  BY <1>g, <1>s DEF Safe, Recoverable
<1>1. CASE Begin  BY <1>1, <1>f DEF Begin
<1>2. CASE EnsureRoot  BY <1>2, <1>f DEF EnsureRoot, Fail
<1>3. CASE BackUp
  <2>1. Backup(hive[H]) \/ Backup(Torn) \/ UNCHANGED copies  BY <1>3 DEF BackUp
  <2>2. \A h \in Hives, t \in Seconds :
           h \notin hasty' /\ backup[h][t] = whole[h] => backup'[h][t] = whole[h]
    BY <2>1, BackedUp
  <2>3. hasty \subseteq hasty'  BY <2>1 DEF Backup
  <2>4. Recoverable' /\ \A h \in Hives : hive'[h] # Torn => hive'[h] = whole'[h]
    BY <1>3, <2>2, <2>3 DEF BackUp, Safe, Recoverable
  <2>5. CASE Fail
    BY <2>4, <2>5 DEF Safe, Fail
  <2>6. CASE Call.dry /\ pc' = "download" /\ UNCHANGED <<calls, result, copies>>
    BY <2>4, <2>6, <1>s DEF Safe
  <2>7. CASE ~Call.dry /\ Backup(hive[H]) /\ pc' = "download" /\ UNCHANGED <<calls, result>>
    <3>1. ASSUME H \notin hasty' PROVE \E t \in Seconds : backup'[H][t] = whole[H]
      <4>1. CASE hive[H] = Torn
        <5>1. PICK t \in Seconds : backup[H][t] = whole[H]
          BY <4>1, <3>1, <2>3, <1>t DEF Safe, Recoverable
        <5> QED  BY <5>1, <3>1, <2>2, <1>t
      <4>2. CASE hive[H] # Torn
        <5>1. hive[H] = whole[H]  BY <4>2, <1>t DEF Safe
        <5>2. backup' = [backup EXCEPT ![H][clock] = hive[H]]  BY <2>7 DEF Backup
        <5>3. clock \in Seconds /\ DOMAIN backup[H] = Seconds  BY <1>t DEF TypeOK
        <5>4. backup'[H][clock] = hive[H]  BY <5>2, <5>3, <1>t
        <5> QED  BY <5>1, <5>3, <5>4
      <4> QED  BY <4>1, <4>2
    <3>2. whole' = whole /\ H' = H  BY <1>3, <2>7, <1>s DEF BackUp
    <3> QED  BY <2>4, <3>1, <3>2 DEF Safe
  <2> QED  BY <1>3, <2>5, <2>6, <2>7 DEF BackUp, BackupFailed
<1>4. CASE Download
  <2>1. CASE Fail  BY <1>4, <2>1, <1>f DEF Download, Fail
  <2>2. CASE pc' = "edit" /\ UNCHANGED calls  BY <1>4, <2>2, <1>g DEF Download
  <2> QED  BY <1>4, <2>1, <2>2 DEF Download
<1>5. CASE Edit
  <2>1. CASE Fail \/ Succeed  BY <1>5, <2>1, <1>f DEF Edit, Fail, Succeed
  <2>2. CASE pc' = "upload" /\ UNCHANGED calls  BY <1>5, <2>2, <1>g DEF Edit
  <2> QED  BY <1>5, <2>1, <2>2 DEF Edit
<1>6. CASE Upload
  <2>1. pc' \notin {"download", "edit", "upload"} /\ UNCHANGED copies
    BY <1>6 DEF Upload, Fail
  <2>2. CASE local # Torn /\ hive' = [hive EXCEPT ![H] = local]
             /\ whole' = [whole EXCEPT ![H] = local]
    BY <2>1, <2>2, <1>t DEF Safe, Recoverable
  <2>3. CASE hive' = hive /\ whole' = whole  BY <2>1, <2>3, <1>f
  <2>4. CASE hive' = [hive EXCEPT ![H] = Torn] /\ whole' = whole
    <3>1. H \notin hasty => \E t \in Seconds : backup[H][t] = whole[H]
      BY <1>6 DEF Upload, Safe, Stages
    <3> QED  BY <2>1, <2>4, <3>1, <1>t DEF Safe, Recoverable
  <2>5. \/ local # Torn /\ hive' = [hive EXCEPT ![H] = local] /\ whole' = [whole EXCEPT ![H] = local]
        \/ whole' = whole /\ (hive' = hive \/ hive' = [hive EXCEPT ![H] = Torn])
    BY <1>6 DEF Upload
  <2> QED  BY <2>2, <2>3, <2>4, <2>5
<1>7. CASE Verify  BY <1>7, <1>f DEF Verify, Fail, Succeed
<1>8. CASE Snapshot  BY <1>8, <1>f DEF Snapshot, Fail
<1>9. CASE Stage  BY <1>9, <1>f DEF Stage, Fail
<1>10. CASE WriteScript  BY <1>10, <1>f DEF WriteScript, Fail
<1>11. CASE Bcd  BY <1>11, <1>f DEF Bcd, Succeed
<1>12. CASE Over  BY <1>12, <1>f DEF Over
<1>13. CASE Tick  BY <1>13, <1>g DEF Tick
<1>14. CASE Kill
  <2>1. pc' = "next" /\ whole' = whole  BY <1>14 DEF Kill, Fail
  <2>2. CASE pc = "upload"
    <3>1. UNCHANGED copies  BY <1>14, <2>2 DEF Kill
    <3>2. H \notin hasty => \E t \in Seconds : backup[H][t] = whole[H]
      BY <2>2 DEF Safe, Stages
    <3>3. hive' = hive \/ hive' = [hive EXCEPT ![H] = Torn]  BY <1>14 DEF Kill
    <3>4. CASE hive' = hive  BY <2>1, <3>1, <3>4, <1>f
    <3>5. CASE hive' = [hive EXCEPT ![H] = Torn]
      BY <2>1, <3>1, <3>2, <3>5, <1>t DEF Safe, Recoverable
    <3> QED  BY <3>3, <3>4, <3>5
  <2>3. CASE pc # "upload"
    <3>1. hive' = hive  BY <1>14, <2>3 DEF Kill
    <3>2. Backup(Torn) \/ UNCHANGED copies  BY <1>14 DEF Kill
    <3>3. \A h \in Hives, t \in Seconds :
             h \notin hasty' /\ backup[h][t] = whole[h] => backup'[h][t] = whole[h]
      BY <3>2, BackedUp
    <3>4. hasty \subseteq hasty'  BY <3>2 DEF Backup
    <3> QED  BY <2>1, <3>1, <3>3, <3>4 DEF Safe, Recoverable
  <2> QED  BY <2>2, <2>3
<1>15. CASE UNCHANGED vars  BY <1>15, <1>g DEF vars
<1> QED
  BY <1>1, <1>2, <1>3, <1>4, <1>5, <1>6, <1>7, <1>8, <1>9, <1>10, <1>11, <1>12, <1>13,
     <1>14, <1>15 DEF Next, Advance

LEMMA ScriptedNext ==
    ASSUME WindowsAssumption, TypeOK, Stages, Safe, Scripted, [Next]_vars PROVE Scripted'
<1> USE DEF registry, copies, payload, Goto
<1>t. H \in Hives /\ DOMAIN whole = Hives  BY TargetOK DEF TypeOK
<1>s. ASSUME calls' = calls PROVE Call' = Call
  BY <1>s DEF Call
<1>k. script # None => script' # None
  BY DEF Next, Advance, Begin, EnsureRoot, BackUp, Download, Edit, Upload, Verify, Snapshot, Stage,
         WriteScript, Bcd, Over, Tick, Kill, vars, WindowsAssumption, TypeOK, Stages, Kinds
<1>f. ASSUME pc' \notin {"backup", "download", "edit"}, UNCHANGED <<whole, local>>
      PROVE  Scripted'
  BY <1>f, <1>k DEF Scripted, Serviced
<1>g. ASSUME pc' = pc \/ (pc' = "download" /\ pc = "backup"), UNCHANGED <<calls, whole, local>>
      PROVE  Scripted'
  BY <1>g, <1>k, <1>s DEF Scripted, Serviced
<1>1. CASE Begin  BY <1>1, <1>f DEF Begin
<1>2. CASE EnsureRoot
  <2>1. CASE Fail  BY <1>2, <2>1, <1>f DEF EnsureRoot, Fail
  <2>2. CASE UNCHANGED calls /\ pc' \in {"script", "snapshot"}
    BY <1>2, <2>2, <1>f DEF EnsureRoot
  <2>3. CASE UNCHANGED calls /\ pc' = "backup" /\ pc = "root" /\ Call.kind # "network"
    <3>1. Call'.kind \notin {"firstboot", "network"}  BY <2>3, <1>s DEF Stages
    <3> QED  BY <1>2, <3>1, <1>k DEF EnsureRoot, Scripted, Serviced
  <2> QED  BY <1>2, <2>1, <2>2, <2>3 DEF EnsureRoot
<1>3. CASE BackUp
  <2>1. CASE Fail  BY <1>3, <2>1, <1>f DEF BackUp, Fail
  <2>2. CASE pc' = "download" /\ UNCHANGED calls  BY <1>3, <2>2, <1>g DEF BackUp
  <2> QED  BY <1>3, <2>1, <2>2 DEF BackUp, BackupFailed
<1>4. CASE Download
  <2>1. CASE Fail /\ UNCHANGED local  BY <1>4, <2>1, <1>f DEF Download, Fail
  <2>2. CASE local' \in {whole[H], Torn} /\ pc' = "edit" /\ UNCHANGED calls
    <3>1. Serviced(local') => script # None
      <4>1. CASE local' = Torn  BY <4>1 DEF Serviced
      <4>2. CASE local' = whole[H]  BY <4>2, <1>t DEF Scripted, Serviced
      <4> QED  BY <2>2, <4>1, <4>2
    <3> QED  BY <1>4, <2>2, <3>1, <1>k, <1>s DEF Download, Scripted, Serviced
  <2> QED  BY <1>4, <2>1, <2>2, <1>t DEF Download, Safe
<1>5. CASE Edit
  <2>1. CASE (Fail \/ Succeed) /\ UNCHANGED local
    BY <1>5, <2>1, <1>f DEF Edit, Fail, Succeed
  <2>2. CASE ~Call.dry /\ local' \in Edits /\ pc' = "upload"
    <3>1. calls # <<>> /\ Call.kind # "bcd"  BY <1>5 DEF Edit, TypeOK, Stages, Hive
    <3>2. Serviced(local') => Serviced(local) \/ Call.kind \in {"firstboot", "network"}
      <4>1. CASE local = Torn  BY <2>2, <4>1 DEF Edits, Serviced
      <4>2. CASE local # Torn  BY <2>2, <3>1, <4>2, EditsOK DEF Serviced
      <4> QED  BY <4>1, <4>2
    <3>3. Serviced(local') => script # None
      BY <1>5, <2>2, <3>2 DEF Edit, Scripted
    <3> QED  BY <1>5, <2>2, <3>3, <1>k DEF Edit, Scripted, Serviced
  <2> QED  BY <1>5, <2>1, <2>2 DEF Edit
<1>6. CASE Upload
  <2>1. pc' \notin {"backup", "download", "edit"} /\ local' = local
    BY <1>6 DEF Upload, Fail
  <2>2. CASE whole' = whole  BY <2>1, <2>2, <1>f
  <2>3. CASE whole' = [whole EXCEPT ![H] = local]
    BY <2>1, <2>3, <1>t, <1>k DEF Scripted, Serviced
  <2>4. whole' = whole \/ whole' = [whole EXCEPT ![H] = local]  BY <1>6 DEF Upload
  <2> QED  BY <2>2, <2>3, <2>4
<1>7. CASE Verify  BY <1>7, <1>f DEF Verify, Fail, Succeed
<1>8. CASE Snapshot  BY <1>8, <1>f DEF Snapshot, Fail
<1>9. CASE Stage  BY <1>9, <1>f DEF Stage, Fail
<1>10. CASE WriteScript
  <2>1. CASE Fail  BY <1>10, <2>1, <1>f DEF WriteScript, Fail
  <2>2. CASE pc' = "backup" /\ UNCHANGED calls /\ Call.dry
    BY <1>10, <2>2, <1>k, <1>s DEF WriteScript, Scripted, Serviced
  <2>3. CASE pc' = "backup" /\ script' = Call.kind
    <3>1. Call.kind # None  BY <1>10 DEF WriteScript, Stages, WindowsAssumption, Kinds
    <3> QED  BY <1>10, <2>3, <3>1, <1>k DEF WriteScript, Scripted, Serviced
  <2> QED  BY <1>10, <2>1, <2>2, <2>3 DEF WriteScript
<1>11. CASE Bcd  BY <1>11, <1>f DEF Bcd, Succeed
<1>12. CASE Over  BY <1>12, <1>f DEF Over
<1>13. CASE Tick  BY <1>13, <1>g DEF Tick
<1>14. CASE Kill  BY <1>14, <1>f DEF Kill, Fail
<1>15. CASE UNCHANGED vars  BY <1>15, <1>g DEF vars
<1> QED
  BY <1>1, <1>2, <1>3, <1>4, <1>5, <1>6, <1>7, <1>8, <1>9, <1>10, <1>11, <1>12, <1>13,
     <1>14, <1>15 DEF Next, Advance

LEMMA EditedNext ==
    ASSUME WindowsAssumption, TypeOK, Stages, Safe, Edited, [Next]_vars PROVE Edited'
<1> USE DEF registry, copies, payload, Goto
<1>t. H \in Hives  BY TargetOK
<1>s. ASSUME calls' = calls PROVE H' = H
  BY <1>s DEF Call, H
<1>f. ASSUME pc' \notin {"edit", "upload"} PROVE Edited'
  BY <1>f DEF Edited
<1>g. ASSUME pc' = pc, UNCHANGED <<calls, guest, whole, local>> PROVE Edited'
  BY <1>g, <1>s DEF Edited
<1>1. CASE Begin  BY <1>1, <1>f DEF Begin
<1>2. CASE EnsureRoot  BY <1>2, <1>f DEF EnsureRoot, Fail
<1>3. CASE BackUp  BY <1>3, <1>f DEF BackUp, BackupFailed, Fail
<1>4. CASE Download
  <2>1. CASE Fail  BY <2>1, <1>f DEF Fail
  <2>2. CASE local' \in {whole[H], Torn} /\ pc' = "edit" /\ UNCHANGED calls
    BY <1>4, <2>2, <1>s DEF Download, Edited
  <2> QED  BY <1>4, <2>1, <2>2, <1>t DEF Download, Safe
<1>5. CASE Edit
  <2>1. CASE Fail \/ Succeed  BY <2>1, <1>f DEF Fail, Succeed
  <2>3. CASE local = Torn /\ local' \in Edits /\ pc' = "upload"
    <3>1. local' = Torn  BY <2>3 DEF Edits
    <3> QED  BY <2>3, <3>1 DEF Edited
  <2>2. CASE local # Torn /\ local' \in Edits /\ pc' = "upload" /\ UNCHANGED calls
    <3>1. calls # <<>> /\ Call.kind # "bcd"  BY <1>5 DEF Edit, TypeOK, Stages, Hive
    <3>2. guest.readable => local \ Overrides \subseteq local'
      BY <2>2, <3>1, EditsOK
    <3>3. local = whole[H]  BY <1>5, <2>2 DEF Edit, Edited
    <3> QED  BY <1>5, <2>2, <3>2, <3>3, <1>s DEF Edit, Edited, Overrides
  <2> QED  BY <1>5, <2>1, <2>2, <2>3 DEF Edit
<1>6. CASE Upload  BY <1>6, <1>f DEF Upload, Fail
<1>7. CASE Verify  BY <1>7, <1>f DEF Verify, Fail, Succeed
<1>8. CASE Snapshot  BY <1>8, <1>f DEF Snapshot, Fail
<1>9. CASE Stage  BY <1>9, <1>f DEF Stage, Fail
<1>10. CASE WriteScript  BY <1>10, <1>f DEF WriteScript, Fail
<1>11. CASE Bcd  BY <1>11, <1>f DEF Bcd, Succeed
<1>12. CASE Over  BY <1>12, <1>f DEF Over
<1>13. CASE Tick  BY <1>13, <1>g DEF Tick
<1>14. CASE Kill  BY <1>14, <1>f DEF Kill, Fail
<1>15. CASE UNCHANGED vars  BY <1>15, <1>g DEF vars
<1> QED
  BY <1>1, <1>2, <1>3, <1>4, <1>5, <1>6, <1>7, <1>8, <1>9, <1>10, <1>11, <1>12, <1>13,
     <1>14, <1>15 DEF Next, Advance

-----------------------------------------------------------------------------

LEMMA InvNext == ASSUME WindowsAssumption, IInv, [Next]_vars PROVE IInv'
BY TypeNext, SafeNext, ScriptedNext, EditedNext DEF IInv

LEMMA InvHolds == ASSUME WindowsAssumption PROVE Spec => []IInv
<1>1. Init => IInv  BY InvInit
<1>2. IInv /\ [Next]_vars => IInv'  BY InvNext
<1> QED  BY <1>1, <1>2, PTL DEF Spec

\* The variables of the library keep their types.
THEOREM TypeCorrect == ASSUME WindowsAssumption PROVE Spec => []TypeOK
<1>1. IInv => TypeOK  BY DEF IInv
<1> QED  BY <1>1, InvHolds, PTL

\* A hive that an upload has torn, broken off, killed in the middle or of a copy
\* that was itself cut short, has a backup of what it last was, whatever failed
\* before or after, unless one backup replaced another (_hive_backup_best_effort).
THEOREM AlwaysRecoverable == ASSUME WindowsAssumption PROVE Spec => []Recoverable
<1>1. IInv => Recoverable  BY DEF IInv, Safe
<1> QED  BY <1>1, InvHolds, PTL

LEMMA ServiceHasScript == ASSUME IInv PROVE ScriptThere
<1> SUFFICES ASSUME NEW h \in {hive.SYSTEM} \ {Torn}, NEW s \in guest.sets,
                    {<<s, "firstboot">>, <<s, "network">>} \cap h # {}
             PROVE  script # None
  BY DEF ScriptThere
<1>1. h = whole["SYSTEM"]  BY DEF IInv, Safe, Hives
<1>2. s \in {1, 2}  BY DEF IInv, TypeOK, GuestType
<1>3. Serviced(h)  BY <1>2 DEF Serviced
<1> QED  BY <1>1, <1>3 DEF IInv, Scripted, Hives

\* No service is entered in a hive before firstboot.cmd has been written
\* (provision_firstboot_payload_and_service).
THEOREM ScriptFirst == ASSUME WindowsAssumption PROVE Spec => []ScriptThere
<1>1. IInv => ScriptThere  BY ServiceHasScript
<1> QED  BY <1>1, InvHolds, PTL

LEMMA EntriesNext == ASSUME WindowsAssumption, IInv, [Next]_vars PROVE EntriesStay
<1> DEFINE Kept == guest.readable => \A h \in Hives : whole[h] \ Overrides \subseteq whole'[h]
<1>1. ASSUME Upload PROVE Kept
  <2>1. H \in Hives /\ whole \in [Hives -> SUBSET Entries]
    BY TargetOK DEF IInv, TypeOK
  <2>2. whole' = whole \/ (local # Torn /\ whole' = [whole EXCEPT ![H] = local])
    BY <1>1 DEF Upload
  <2>3. local # Torn /\ guest.readable => whole[H] \ Overrides \subseteq local
    BY <1>1 DEF IInv, Edited, Upload
  <2> QED  BY <2>1, <2>2, <2>3
<1>2. ASSUME whole' = whole PROVE Kept  BY <1>2
<1>3. Upload \/ whole' = whole
  BY DEF Next, Advance, Begin, EnsureRoot, BackUp, Download, Edit, Verify, Snapshot, Stage,
       WriteScript, Bcd, Over, Tick, Kill, vars, registry
<1>4. Kept  BY <1>1, <1>2, <1>3
<1>5. \A h \in Hives : hive'[h] # Torn => hive'[h] = whole'[h]
  <2>1. Safe'  BY InvNext DEF IInv
  <2> QED  BY <2>1 DEF Safe
<1> QED  BY <1>4, <1>5 DEF EntriesStay

\* A hive that is not torn holds, after any step, what it held when it was last
\* whole: edits of the registry take away nothing but overrides of a driver's
\* start, if hivex reads values (edit_system_hive, append_devicepath_software_hive).
\* Of a copy that was cut short they make a torn hive, and AlwaysRecoverable says
\* what is then left.
THEOREM EntriesKept == ASSUME WindowsAssumption PROVE Spec => [][EntriesStay]_vars
<1>1. IInv /\ [Next]_vars => EntriesStay  BY EntriesNext
<1> QED  BY <1>1, InvHolds, PTL DEF Spec
=============================================================================
