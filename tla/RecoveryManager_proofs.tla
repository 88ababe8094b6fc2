------------------------ MODULE RecoveryManager_proofs ------------------------
(***************************************************************************)
(* The last completed checkpoint of a stage is never lost, for any number  *)
(* of processes, runs and stages, any crashes and any retention settings,  *)
(* as long as no stage is saved twice in one second; so that a later stage *)
(* always finds a checkpoint to go on from.                                *)
(***************************************************************************)
EXTENDS RecoveryManager, FiniteSetTheorems, WellFoundedInduction, TLAPS

\* The empty list is a list of entries.
LEMMA EmptyEntries == <<>> \in Seq(Entries)
  OBVIOUS

\* A checkpoint is the record of its run, stage and second.
LEMMA Fields ==
  ASSUME NEW c \in Checkpoints
  PROVE  /\ c = [run |-> c.run, stage |-> c.stage, ts |-> c.ts]
         /\ c.run \in RunIds /\ c.stage \in Stages /\ c.ts \in 1..MaxTime
  BY DEF Checkpoints

LEMMA MakeCheckpoint ==
  ASSUME NEW r \in RunIds, NEW s \in Stages, NEW t \in 1..MaxTime
  PROVE  [run |-> r, stage |-> s, ts |-> t] \in Checkpoints
  BY DEF Checkpoints

\* The part of TypeOK about calls under way.
PcArg ==
  /\ pc \in [Managers -> {"down", "locking", "idle", "saving", "pointing", "cleaning"}]
  /\ arg \in [Managers -> Checkpoints \cup {NoCheckpoint}]
  /\ \A m \in Managers : pc[m] \in {"saving", "pointing"} => arg[m] \in Checkpoints

LEMMA PointTo ==
  ASSUME TypeOK, NEW m \in Managers, NEW c \in Checkpoints,
         NEW p \in {"saving", "pointing"},
         pc' = [pc EXCEPT ![m] = p], arg' = [arg EXCEPT ![m] = c]
  PROVE  PcArg'
  BY DEF TypeOK, PcArg

\* Completing a checkpoint keeps the types of the files and of the history.
LEMMA SetCompletedType ==
  ASSUME TypeOK, NEW c \in Checkpoints, SetCompleted(c), RecoveryAssumption
  PROVE  /\ files' \in [Checkpoints -> {"none", "open", "completed"}]
         /\ newest' \in [RunIds -> [Stages -> 0..MaxTime]]
  <1>1. c.run \in RunIds /\ c.stage \in Stages /\ c.ts \in 0..MaxTime
    BY Fields DEF RecoveryAssumption
  <1>2. files' \in [Checkpoints -> {"none", "open", "completed"}]
    BY DEF TypeOK, SetCompleted
  <1>3. newest[c.run] \in [Stages -> 0..MaxTime]
    BY <1>1 DEF TypeOK
  <1>4. newest[c.run][c.stage] \in 0..MaxTime
    BY <1>1, <1>3
  <1>5. newest' \in [RunIds -> [Stages -> 0..MaxTime]]
    BY <1>1, <1>3, <1>4 DEF TypeOK, SetCompleted
  <1> QED BY <1>2, <1>5

-----------------------------------------------------------------------------

\* Every variable keeps its type.
LEMMA TypeInit == ASSUME RecoveryAssumption, Init PROVE TypeOK
  BY EmptyEntries DEF RecoveryAssumption, Init, TypeOK, NoManifest

LEMMA TypeStep ==
  ASSUME RecoveryAssumption, NoCheckpointAssumption, TypeOK, [Next]_vars
  PROVE  TypeOK'
  <1>0. clock \in 1..MaxTime /\ MaxTime \in Nat
    BY DEF TypeOK, RecoveryAssumption
  <1>1. CASE UNCHANGED vars
    BY <1>1 DEF TypeOK, vars, process, directory
  <1>2. CASE Tick
    <2>1. clock' \in 1..MaxTime
      BY <1>2, <1>0 DEF Tick
    <2> QED BY <1>2, <2>1 DEF TypeOK, Tick, process, directory
  <1>3. ASSUME NEW m \in Managers, NEW r \in RunIds, Create(m, r)
        PROVE  TypeOK'
    BY <1>3 DEF TypeOK, Create, Goto
  <1>4. ASSUME NEW m \in Managers, AcquireLock(m)
        PROVE  TypeOK'
    BY <1>4 DEF TypeOK, AcquireLock, Goto, directory
  <1>5. ASSUME NEW m \in Managers, Exit(m)
        PROVE  TypeOK'
    BY <1>5, EmptyEntries DEF TypeOK, Exit, Goto, directory
  <1>6. ASSUME NEW m \in Managers, NEW st \in {"success", "failed"}, MarkRun(m, st)
        PROVE  TypeOK'
    BY <1>6 DEF TypeOK, MarkRun, process
  <1>7. ASSUME NEW m \in Managers, NEW s \in Stages, Save(m, s)
        PROVE  TypeOK'
    <2> DEFINE c == [run |-> rid[m], stage |-> s, ts |-> clock]
               e == [stage |-> s, ts |-> clock, completed |-> FALSE]
    <2>1. c \in Checkpoints
      BY MakeCheckpoint, <1>0 DEF TypeOK
    <2>2. e \in Entries
      BY <1>0 DEF Entries
    <2>3. mem' \in [Managers -> Seq(Entries)]
      <3>1. mem[m] \in Seq(Entries)
        BY DEF TypeOK
      <3>2. Append(mem[m], e) \in Seq(Entries)
        BY <3>1, <2>2
      <3> QED BY <3>2, <1>7 DEF TypeOK, Save
    <2>4. arg' = [arg EXCEPT ![m] = c] /\ pc' = [pc EXCEPT ![m] = "saving"]
      BY <1>7 DEF Save, Goto
    <2>5. saves' \in Nat
      BY <1>7 DEF Save, TypeOK
    <2>6. PcArg'
      BY <2>1, <2>4, PointTo
    <2>7. UNCHANGED <<clock, rid, doomed, lock, directory, newest>>
      BY <1>7 DEF Save
    <2> QED BY <2>3, <2>5, <2>6, <2>7 DEF TypeOK, PcArg, directory
  <1>8. ASSUME NEW m \in Managers, WriteCheckpoint(m)
        PROVE  TypeOK'
    BY <1>8 DEF TypeOK, WriteCheckpoint, Goto
  <1>9. ASSUME NEW m \in Managers, NEW s \in Stages, CompleteInMemory(m, s)
        PROVE  TypeOK'
    <2>1. PICK i \in DOMAIN mem[m] :
            LET c == [run |-> rid[m], stage |-> s, ts |-> mem[m][i].ts]
            IN  /\ mem' = [mem EXCEPT ![m][i].completed = TRUE]
                /\ \/ /\ Goto(m, "pointing") /\ arg' = [arg EXCEPT ![m] = c]
                      /\ \/ files[c] # "none" /\ SetCompleted(c)
                         \/ files[c] = "none" /\ UNCHANGED <<files, newest>>
                   \/ /\ Faults /\ files[c] # "none"
                      /\ UNCHANGED <<pc, arg, files, newest>>
      BY <1>9 DEF CompleteInMemory
    <2> DEFINE c == [run |-> rid[m], stage |-> s, ts |-> mem[m][i].ts]
    <2>2. mem[m] \in Seq(Entries) /\ mem[m][i] \in Entries
      BY DEF TypeOK
    <2>3. c \in Checkpoints
      BY <2>2, MakeCheckpoint DEF Entries, TypeOK
    <2>4. mem' \in [Managers -> Seq(Entries)]
      <3>1. [mem[m][i] EXCEPT !.completed = TRUE] \in Entries
        BY <2>2 DEF Entries
      <3>2. [mem[m] EXCEPT ![i].completed = TRUE] \in Seq(Entries)
        BY <3>1, <2>2
      <3> QED BY <3>2, <2>1 DEF TypeOK
    <2>5. /\ files' \in [Checkpoints -> {"none", "open", "completed"}]
          /\ newest' \in [RunIds -> [Stages -> 0..MaxTime]]
      BY <2>1, <2>3, SetCompletedType DEF TypeOK
    <2>6. PcArg'
      <3>1. CASE Goto(m, "pointing") /\ arg' = [arg EXCEPT ![m] = c]
        BY <3>1, <2>3, PointTo DEF Goto
      <3>2. CASE UNCHANGED <<pc, arg>>
        BY <3>2 DEF TypeOK, PcArg
      <3> QED BY <2>1, <3>1, <3>2
    <2>7. UNCHANGED <<clock, rid, doomed, lock, pointer, manifest, saves>>
      BY <1>9 DEF CompleteInMemory
    <2> QED BY <2>4, <2>5, <2>6, <2>7 DEF TypeOK, PcArg
  <1>10. ASSUME NEW m \in Managers, NEW s \in Stages, CompleteFile(m, s)
         PROVE  TypeOK'
    <2>1. PICK c \in Checkpoints :
            SetCompleted(c) /\ arg' = [arg EXCEPT ![m] = c] /\ Goto(m, "pointing")
      BY <1>10 DEF CompleteFile, Loaded
    <2>2. /\ files' \in [Checkpoints -> {"none", "open", "completed"}]
          /\ newest' \in [RunIds -> [Stages -> 0..MaxTime]]
      BY <2>1, SetCompletedType
    <2> QED BY <1>10, <2>1, <2>2 DEF TypeOK, CompleteFile, Goto
  <1>11. ASSUME NEW m \in Managers, WritePointer(m)
         PROVE  TypeOK'
    BY <1>11 DEF TypeOK, WritePointer, Goto
  <1>12. ASSUME NEW m \in Managers, Cleanup(m)
         PROVE  TypeOK'
    BY <1>12 DEF TypeOK, Cleanup, Goto, Loaded, directory
  <1>13. ASSUME NEW m \in Managers, Unlink(m)
         PROVE  TypeOK'
    BY <1>13 DEF TypeOK, Unlink
  <1>14. ASSUME NEW m \in Managers, CleanupEnd(m)
         PROVE  TypeOK'
    BY <1>14 DEF TypeOK, CleanupEnd, Goto, directory
  <1> QED
    BY <1>1, <1>2, <1>3, <1>4, <1>5, <1>6, <1>7, <1>8, <1>9, <1>10, <1>11, <1>12,
       <1>13, <1>14 DEF Next

\* TypeOK is an invariant, for any processes, runs, stages and bounds.
THEOREM TypeCorrect == Spec => []TypeOK
  <1>1. Init => TypeOK
    BY TypeInit, RecoveryAssumption
  <1>2. TypeOK /\ [Next]_vars => TypeOK'
    BY TypeStep, RecoveryAssumption, NoCheckpointAssumption
  <1> QED BY <1>1, <1>2, PTL DEF Spec

-----------------------------------------------------------------------------
(* The inductive invariant: besides the property itself, that one process  *)
(* works at a time, that a checkpoint being saved has no file yet, and     *)
(* that nothing a cleanup will unlink is the last completed of its stage.  *)

IsLast(c) == newest[c.run][c.stage] = c.ts

SavingFresh ==
  \A m \in Managers : pc[m] = "saving" => files[arg[m]] = "none"
DoomedSafe ==
  \A m \in Managers : /\ pc[m] # "cleaning" => doomed[m] = {}
                      /\ \A c \in doomed[m] : ~IsLast(c)
NoneNewer ==
  \A c \in Checkpoints : files[c] = "completed" => c.ts <= newest[c.run][c.stage]
LastCompleted == \A c \in Checkpoints : IsLast(c) => files[c] = "completed"

Inv == TypeOK /\ OneAtWork /\ SavingFresh /\ DoomedSafe /\ NoneNewer /\ LastCompleted

LEMMA InvInit == ASSUME RecoveryAssumption, Init PROVE Inv
  <1>1. TypeOK
    BY TypeInit
  <1>2. LastCompleted
    <2>1. ASSUME NEW c \in Checkpoints PROVE ~IsLast(c)
      <3>1. c.run \in RunIds /\ c.stage \in Stages /\ c.ts \in 1..MaxTime
        BY Fields
      <3>2. newest[c.run][c.stage] = 0
        BY <3>1 DEF Init
      <3>3. c.ts # 0
        BY <3>1 DEF RecoveryAssumption
      <3> QED BY <3>2, <3>3 DEF IsLast
    <2> QED BY <2>1 DEF LastCompleted
  <1>3. OneAtWork /\ SavingFresh /\ DoomedSafe /\ NoneNewer
    BY DEF Init, OneAtWork, SavingFresh, DoomedSafe, NoneNewer
  <1> QED BY <1>1, <1>2, <1>3 DEF Inv

\* When one process is at work no other has anything to unlink or to save.
LEMMA OthersRest ==
  ASSUME Inv, RecoveryAssumption, NEW m \in Managers, pc[m] \notin {"down", "locking"},
         NEW n \in Managers, n # m
  PROVE  pc[n] \in {"down", "locking"} /\ doomed[n] = {}
  <1>1. lock = m
    BY DEF Inv, OneAtWork
  <1>2. pc[n] \in {"down", "locking"}
    BY <1>1 DEF Inv, OneAtWork
  <1> QED BY <1>2 DEF Inv, DoomedSafe

\* Completing a checkpoint while nothing is doomed keeps the history and the
\* files in step.
LEMMA SetCompletedSafe ==
  ASSUME Inv, RecoveryAssumption, NEW c \in Checkpoints, SetCompleted(c)
  PROVE  NoneNewer' /\ LastCompleted'
  <1>0. /\ c.run \in RunIds /\ c.stage \in Stages /\ c.ts \in 1..MaxTime
        /\ newest \in [RunIds -> [Stages -> 0..MaxTime]]
        /\ files \in [Checkpoints -> {"none", "open", "completed"}]
        /\ MaxTime \in Nat
    BY Fields DEF Inv, TypeOK, RecoveryAssumption
  <1>1. SUFFICES ASSUME NEW d \in Checkpoints
                 PROVE  /\ files'[d] = "completed" => d.ts <= newest'[d.run][d.stage]
                        /\ IsLast(d)' => files'[d] = "completed"
    BY DEF NoneNewer, LastCompleted, IsLast
  <1>2. d.run \in RunIds /\ d.stage \in Stages /\ d.ts \in 1..MaxTime
    BY Fields
  <1>3. files'[c] = "completed" /\ (d # c => files'[d] = files[d])
    BY <1>0 DEF SetCompleted
  <1>4. /\ files[d] = "completed" => d.ts <= newest[d.run][d.stage]
        /\ newest[d.run][d.stage] = d.ts => files[d] = "completed"
    BY DEF Inv, NoneNewer, LastCompleted, IsLast
  <1>5. newest[d.run][d.stage] \in 0..MaxTime /\ newest[c.run][c.stage] \in 0..MaxTime
    <2>1. newest[d.run] \in [Stages -> 0..MaxTime] /\ newest[c.run] \in [Stages -> 0..MaxTime]
      BY <1>0, <1>2
    <2> QED BY <2>1, <1>0, <1>2
  <1>6. CASE d.run = c.run /\ d.stage = c.stage
    <2>1. newest'[d.run][d.stage] =
            IF newest[c.run][c.stage] < c.ts THEN c.ts ELSE newest[c.run][c.stage]
      BY <1>0, <1>6 DEF SetCompleted
    <2>2. d.ts = c.ts => d = c
      BY <1>6, Fields
    <2>3. newest[d.run][d.stage] = newest[c.run][c.stage]
      BY <1>6
    <2>4. files'[d] = "completed" => d.ts <= newest'[d.run][d.stage]
      BY <2>1, <2>2, <2>3, <1>0, <1>2, <1>3, <1>4, <1>5
    <2>5. newest'[d.run][d.stage] = d.ts => files'[d] = "completed"
      BY <2>1, <2>2, <2>3, <1>0, <1>2, <1>3, <1>4, <1>5
    <2> QED BY <2>4, <2>5 DEF IsLast
  <1>7. CASE ~(d.run = c.run /\ d.stage = c.stage)
    <2>1. newest'[d.run][d.stage] = newest[d.run][d.stage]
      BY <1>0, <1>2, <1>7 DEF SetCompleted
    <2>2. d # c
      BY <1>7
    <2> QED BY <2>1, <2>2, <1>3, <1>4 DEF IsLast
  <1> QED BY <1>6, <1>7

\* A step that touches neither the files nor the history keeps what is said of
\* them.
LEMMA QuietStep ==
  ASSUME Inv, UNCHANGED <<files, newest>>
  PROVE  NoneNewer' /\ LastCompleted'
  BY DEF Inv, NoneNewer, LastCompleted, IsLast

LEMMA InvStep ==
  ASSUME RecoveryAssumption, NoCheckpointAssumption, ~SameSecond, Inv, [Next]_vars
  PROVE  Inv'
  <1> USE DEF Goto
  <1>0. TypeOK /\ TypeOK'
    BY TypeStep DEF Inv
  <1> DEFINE Rest == OneAtWork /\ SavingFresh /\ DoomedSafe /\ NoneNewer /\ LastCompleted
  <1>1. SUFFICES Rest'
    BY <1>0 DEF Inv
  <1>2. CASE UNCHANGED vars \/ Tick
    BY <1>2 DEF Inv, vars, process, directory, Tick, OneAtWork, SavingFresh,
       DoomedSafe, NoneNewer, LastCompleted, IsLast
  <1>3. ASSUME NEW m \in Managers, NEW r \in RunIds, Create(m, r)
        PROVE  Rest'
    <2>1. UNCHANGED <<files, newest, doomed, lock, arg>>
      BY <1>3 DEF Create
    <2>2. OneAtWork' /\ SavingFresh'
      BY <1>3, <1>0, <2>1 DEF Inv, Create, OneAtWork, SavingFresh, TypeOK
    <2>3. DoomedSafe'
      BY <1>3, <1>0, <2>1 DEF Inv, Create, DoomedSafe, IsLast, TypeOK
    <2> QED BY <2>1, <2>2, <2>3, QuietStep
  <1>4. ASSUME NEW m \in Managers, AcquireLock(m)
        PROVE  Rest'
    <2>1. UNCHANGED <<files, newest, doomed, arg>>
      BY <1>4 DEF AcquireLock, directory
    <2>2. pc[m] = "locking" /\ doomed[m] = {}
      BY <1>4 DEF AcquireLock, Inv, DoomedSafe
    <2>3. \/ /\ lock = NoManager /\ lock' = m /\ pc' = [pc EXCEPT ![m] = "idle"]
          \/ lock' = lock /\ pc' = [pc EXCEPT ![m] = "down"]
      BY <1>4 DEF AcquireLock
    <2>4. OneAtWork'
      <3>1. ASSUME NEW n \in Managers, pc'[n] \notin {"down", "locking"} PROVE lock' = n
        <4>1. CASE n = m
          BY <4>1, <3>1, <2>3, <1>0 DEF TypeOK
        <4>2. CASE n # m
          <5>1. pc'[n] = pc[n]
            BY <4>2, <2>3, <1>0 DEF TypeOK
          <5>2. lock = n
            BY <5>1, <3>1 DEF Inv, OneAtWork
          <5> QED BY <5>2, <2>3, RecoveryAssumption DEF RecoveryAssumption
        <4> QED BY <4>1, <4>2
      <3> QED BY <3>1 DEF OneAtWork
    <2>5. SavingFresh'
      BY <2>1, <2>3, <1>0 DEF Inv, SavingFresh, TypeOK
    <2>6. DoomedSafe'
      <3>1. ASSUME NEW n \in Managers, pc'[n] # "cleaning" PROVE doomed[n] = {}
        <4>1. CASE n = m
          BY <4>1, <2>2
        <4>2. CASE n # m
          <5>1. pc'[n] = pc[n]
            BY <4>2, <2>3, <1>0 DEF TypeOK
          <5> QED BY <5>1, <3>1 DEF Inv, DoomedSafe
        <4> QED BY <4>1, <4>2
      <3> QED BY <2>1, <3>1 DEF Inv, DoomedSafe, IsLast
    <2> QED BY <2>1, <2>4, <2>5, <2>6, QuietStep
  <1>5. ASSUME NEW m \in Managers, Exit(m)
        PROVE  Rest'
    <2>1. UNCHANGED <<files, newest>>
      BY <1>5 DEF Exit, directory
    <2>2. /\ pc' = [pc EXCEPT ![m] = "down"] /\ doomed' = [doomed EXCEPT ![m] = {}]
          /\ arg' = [arg EXCEPT ![m] = NoCheckpoint]
          /\ lock' = IF lock = m THEN NoManager ELSE lock
      BY <1>5 DEF Exit
    <2>3. OneAtWork'
      BY <2>2, <1>0 DEF Inv, OneAtWork, TypeOK
    <2>4. SavingFresh'
      BY <2>1, <2>2, <1>0 DEF Inv, SavingFresh, TypeOK
    <2>5. DoomedSafe'
      BY <2>1, <2>2, <1>0 DEF Inv, DoomedSafe, IsLast, TypeOK
    <2> QED BY <2>1, <2>3, <2>4, <2>5, QuietStep
  <1>6. ASSUME NEW m \in Managers, NEW st \in {"success", "failed"}, MarkRun(m, st)
        PROVE  Rest'
    BY <1>6 DEF Inv, MarkRun, process, OneAtWork, SavingFresh, DoomedSafe, NoneNewer,
       LastCompleted, IsLast
  <1>7. ASSUME NEW m \in Managers, NEW s \in Stages, Save(m, s)
        PROVE  Rest'
    <2> DEFINE c == [run |-> rid[m], stage |-> s, ts |-> clock]
    <2>1. UNCHANGED <<files, newest, doomed, lock>> /\ pc[m] = "idle"
      BY <1>7 DEF Save, directory
    <2>2. /\ pc' = [pc EXCEPT ![m] = "saving"] /\ arg' = [arg EXCEPT ![m] = c]
          /\ files[c] = "none"
      BY <1>7 DEF Save
    <2>3. OneAtWork'
      BY <2>1, <2>2, <1>0 DEF Inv, OneAtWork, TypeOK
    <2>4. SavingFresh'
      BY <2>1, <2>2, <1>0 DEF Inv, SavingFresh, TypeOK
    <2>5. DoomedSafe'
      BY <2>1, <2>2, <1>0 DEF Inv, DoomedSafe, IsLast, TypeOK
    <2> QED BY <2>1, <2>3, <2>4, <2>5, QuietStep
  <1>8. ASSUME NEW m \in Managers, WriteCheckpoint(m)
        PROVE  Rest'
    <2>1. /\ pc[m] = "saving" /\ pc' = [pc EXCEPT ![m] = "idle"]
          /\ arg' = [arg EXCEPT ![m] = NoCheckpoint]
          /\ files' = [files EXCEPT ![arg[m]] = "open"] \/ files' = files
          /\ UNCHANGED <<newest, doomed, lock>>
      BY <1>8 DEF WriteCheckpoint
    <2>2. files[arg[m]] = "none" /\ arg[m] \in Checkpoints
      BY <2>1, <1>0 DEF Inv, SavingFresh, TypeOK
    <2>3. OneAtWork'
      BY <2>1, <1>0 DEF Inv, OneAtWork, TypeOK
    <2>4. SavingFresh'
      BY <2>1, <1>0, OthersRest DEF SavingFresh, TypeOK
    <2>5. DoomedSafe'
      BY <2>1, <1>0 DEF Inv, DoomedSafe, IsLast, TypeOK
    <2>6. NoneNewer' /\ LastCompleted'
      BY <2>1, <2>2, <1>0 DEF Inv, NoneNewer, LastCompleted, IsLast, TypeOK
    <2> QED BY <2>3, <2>4, <2>5, <2>6
  <1>9. ASSUME NEW m \in Managers, NEW c \in Checkpoints, pc[m] = "idle",
               SetCompleted(c) \/ UNCHANGED <<files, newest>>,
               pc' = [pc EXCEPT ![m] = "pointing"] \/ UNCHANGED pc,
               UNCHANGED <<doomed, lock>>
        PROVE  Rest'
    <2>1. OneAtWork'
      BY <1>9, <1>0 DEF Inv, OneAtWork, TypeOK
    <2>2. \A n \in Managers : pc'[n] # "saving" /\ doomed'[n] = {}
      <3>1. doomed' = doomed /\ doomed[m] = {} /\ pc'[m] # "saving"
        BY <1>9, <1>0 DEF Inv, DoomedSafe, TypeOK
      <3>2. ASSUME NEW n \in Managers, n # m PROVE pc'[n] # "saving" /\ doomed'[n] = {}
        <4>1. pc[n] \in {"down", "locking"} /\ doomed[n] = {}
          BY <3>2, <1>9, OthersRest
        <4>2. pc'[n] = pc[n]
          BY <3>2, <1>9, <1>0 DEF TypeOK
        <4> QED BY <4>1, <4>2, <3>1
      <3> QED BY <3>1, <3>2
    <2>3. SavingFresh' /\ DoomedSafe'
      BY <2>2 DEF SavingFresh, DoomedSafe
    <2>4. NoneNewer' /\ LastCompleted'
      BY <1>9, SetCompletedSafe, QuietStep
    <2> QED BY <2>1, <2>3, <2>4
  <1>10. ASSUME NEW m \in Managers, NEW s \in Stages, CompleteInMemory(m, s)
         PROVE  Rest'
    <2>1. PICK i \in DOMAIN mem[m] :
            LET c == [run |-> rid[m], stage |-> s, ts |-> mem[m][i].ts]
            IN  \/ /\ Goto(m, "pointing") /\ arg' = [arg EXCEPT ![m] = c]
                   /\ \/ files[c] # "none" /\ SetCompleted(c)
                      \/ files[c] = "none" /\ UNCHANGED <<files, newest>>
                \/ /\ Faults /\ files[c] # "none"
                   /\ UNCHANGED <<pc, arg, files, newest>>
      BY <1>10 DEF CompleteInMemory
    <2> DEFINE c == [run |-> rid[m], stage |-> s, ts |-> mem[m][i].ts]
    <2>2. c \in Checkpoints
      <3>1. mem[m][i] \in Entries
        BY <1>0 DEF TypeOK
      <3> QED BY <3>1, <1>0, MakeCheckpoint DEF Entries, TypeOK
    <2>3. pc[m] = "idle" /\ UNCHANGED <<doomed, lock>>
      BY <1>10 DEF CompleteInMemory
    <2> QED BY <2>1, <2>2, <2>3, <1>9
  <1>11. ASSUME NEW m \in Managers, NEW s \in Stages, CompleteFile(m, s)
         PROVE  Rest'
    <2>1. PICK c \in Checkpoints : SetCompleted(c) /\ Goto(m, "pointing")
      BY <1>11 DEF CompleteFile, Loaded
    <2>2. pc[m] = "idle" /\ UNCHANGED <<doomed, lock>>
      BY <1>11 DEF CompleteFile
    <2> QED BY <2>1, <2>2, <1>9
  <1>12. ASSUME NEW m \in Managers, WritePointer(m)
         PROVE  Rest'
    <2>1. /\ pc[m] = "pointing" /\ pc' = [pc EXCEPT ![m] = "idle"]
          /\ arg' = [arg EXCEPT ![m] = NoCheckpoint]
          /\ UNCHANGED <<files, newest, doomed, lock>>
      BY <1>12 DEF WritePointer
    <2>2. OneAtWork' /\ SavingFresh'
      BY <2>1, <1>0 DEF Inv, OneAtWork, SavingFresh, TypeOK
    <2>3. DoomedSafe'
      BY <2>1, <1>0 DEF Inv, DoomedSafe, IsLast, TypeOK
    <2> QED BY <2>1, <2>2, <2>3, QuietStep
  <1>13. ASSUME NEW m \in Managers, Cleanup(m)
         PROVE  Rest'
    <2>1. /\ pc[m] = "idle" /\ pc' = [pc EXCEPT ![m] = "cleaning"]
          /\ UNCHANGED <<files, newest, lock, arg>>
      BY <1>13 DEF Cleanup, directory
    <2>2. doomed' = [doomed EXCEPT ![m] =
            Loaded(rid[m]) \ (KeepNewest(rid[m]) \cup KeepPerStage(rid[m]))]
      BY <1>13 DEF Cleanup
    <2>3. ASSUME NEW c \in Loaded(rid[m]), IsLast(c)
          PROVE  c \in KeepPerStage(rid[m])
      <3>1. c \in Checkpoints /\ c.run = rid[m]
        BY DEF Loaded
      <3>2. c \in Completed(rid[m])
        BY <2>3, <3>1 DEF Inv, LastCompleted, Completed
      <3>3. ASSUME NEW d \in Completed(rid[m]), d.stage = c.stage
            PROVE  ~After(d, c)
        <4>1. d \in Checkpoints /\ d.run = c.run /\ files[d] = "completed"
          BY <3>1 DEF Completed, Loaded
        <4>2. d.ts <= c.ts
          BY <4>1, <3>3, <2>3 DEF Inv, NoneNewer, IsLast
        <4>3. /\ d.ts \in 1..MaxTime /\ c.ts \in 1..MaxTime /\ MaxTime \in Nat
              /\ AlphaRank[c.stage] \in Int
          BY <3>1, <4>1, Fields DEF RecoveryAssumption
        <4> QED BY <4>2, <4>3, <3>3 DEF After
      <3> QED BY <3>2, <3>3 DEF KeepPerStage
    <2>4. DoomedSafe'
      <3>1. ASSUME NEW n \in Managers
            PROVE  /\ pc'[n] # "cleaning" => doomed'[n] = {}
                   /\ \A c \in doomed'[n] : ~IsLast(c)'
        <4>1. CASE n = m
          BY <4>1, <2>1, <2>2, <2>3, <1>0 DEF IsLast, TypeOK
        <4>2. CASE n # m
          <5>1. doomed[n] = {}
            BY <4>2, <2>1, OthersRest
          <5>2. doomed'[n] = doomed[n]
            BY <4>2, <2>2, <1>0 DEF TypeOK
          <5> QED BY <5>1, <5>2
        <4> QED BY <4>1, <4>2
      <3> QED BY <3>1 DEF DoomedSafe, IsLast
    <2>5. OneAtWork' /\ SavingFresh'
      BY <2>1, <1>0 DEF Inv, OneAtWork, SavingFresh, TypeOK
    <2> QED BY <2>1, <2>4, <2>5, QuietStep
  <1>14. ASSUME NEW m \in Managers, Unlink(m)
         PROVE  Rest'
    <2>1. PICK c \in doomed[m] : /\ files' = [files EXCEPT ![c] = "none"]
                                 /\ doomed' = [doomed EXCEPT ![m] = @ \ {c}]
      BY <1>14 DEF Unlink
    <2>2. pc[m] = "cleaning" /\ UNCHANGED <<pc, arg, lock, newest>>
      BY <1>14 DEF Unlink
    <2>3. c \in Checkpoints /\ ~IsLast(c)
      BY <1>0 DEF Inv, DoomedSafe, TypeOK
    <2>4. OneAtWork'
      BY <2>2 DEF Inv, OneAtWork
    <2>5. SavingFresh'
      BY <2>2, <1>0, OthersRest DEF SavingFresh
    <2>6. DoomedSafe'
      <3>1. \A n \in Managers : doomed'[n] \subseteq doomed[n]
        BY <2>1, <1>0 DEF TypeOK
      <3>2. \A n \in Managers : pc'[n] = pc[n]
        BY <2>2
      <3> QED BY <3>1, <3>2, <2>2 DEF Inv, DoomedSafe, IsLast
    <2>7. NoneNewer' /\ LastCompleted'
      <3>1. \A d \in Checkpoints : files'[d] = IF d = c THEN "none" ELSE files[d]
        BY <2>1, <2>3, <1>0 DEF TypeOK
      <3>2. NoneNewer'
        BY <3>1, <2>2 DEF Inv, NoneNewer
      <3>3. LastCompleted'
        BY <3>1, <2>2, <2>3 DEF Inv, LastCompleted, IsLast
      <3> QED BY <3>2, <3>3
    <2> QED BY <2>4, <2>5, <2>6, <2>7
  <1>15. ASSUME NEW m \in Managers, CleanupEnd(m)
         PROVE  Rest'
    <2>1. /\ pc[m] = "cleaning" /\ pc' = [pc EXCEPT ![m] = "idle"] /\ doomed[m] = {}
          /\ UNCHANGED <<files, newest, doomed, lock, arg>>
      BY <1>15 DEF CleanupEnd, directory
    <2>2. OneAtWork' /\ SavingFresh'
      BY <2>1, <1>0 DEF Inv, OneAtWork, SavingFresh, TypeOK
    <2>3. DoomedSafe'
      BY <2>1, <1>0 DEF Inv, DoomedSafe, IsLast, TypeOK
    <2> QED BY <2>1, <2>2, <2>3, QuietStep
  <1> HIDE DEF Rest
  <1> QED
    BY <1>2, <1>3, <1>4, <1>5, <1>6, <1>7, <1>8, <1>10, <1>11, <1>12, <1>13, <1>14,
       <1>15 DEF Next

LEMMA LastIsKept == ASSUME Inv, RecoveryAssumption PROVE LastCompletedKept
  <1> SUFFICES ASSUME NEW r \in RunIds, NEW s \in Stages, newest[r][s] > 0
               PROVE  files[[run |-> r, stage |-> s, ts |-> newest[r][s]]] = "completed"
    BY DEF LastCompletedKept
  <1> DEFINE c == [run |-> r, stage |-> s, ts |-> newest[r][s]]
  <1>1. newest[r][s] \in 1..MaxTime
    <2>1. newest[r] \in [Stages -> 0..MaxTime]
      BY DEF Inv, TypeOK
    <2> QED BY <2>1 DEF RecoveryAssumption
  <1>2. c \in Checkpoints /\ IsLast(c)
    BY <1>1, MakeCheckpoint DEF IsLast
  <1> QED BY <1>2 DEF Inv, LastCompleted

\* The last completed checkpoint of every stage of every run stays on disk when
\* no stage is saved twice in one second: no crash, restart under the same
\* run_id, second process, failed write or cleanup loses it.
THEOREM LastKept ==
  ASSUME ~SameSecond
  PROVE  Spec => []LastCompletedKept
  <1>1. Init => Inv
    BY InvInit, RecoveryAssumption
  <1>2. Inv /\ [Next]_vars => Inv'
    BY InvStep, RecoveryAssumption, NoCheckpointAssumption
  <1>3. Inv => LastCompletedKept
    BY LastIsKept, RecoveryAssumption
  <1> QED BY <1>1, <1>2, <1>3, PTL DEF Spec

-----------------------------------------------------------------------------
(* The directory holds finitely many files, so the search by name has a    *)
(* last one to return.                                                     *)

Kept == {c \in Checkpoints : files[c] # "none"}

\* A step writes one file or none.
LEMMA OneFile ==
  ASSUME TypeOK, IsFiniteSet(Kept), NEW c, NEW st, files' = [files EXCEPT ![c] = st]
  PROVE  IsFiniteSet(Kept')
  <1>1. Kept' \subseteq Kept \cup {c}
    BY DEF Kept, TypeOK
  <1>2. IsFiniteSet(Kept \cup {c})
    BY FS_AddElement
  <1> QED BY <1>1, <1>2, FS_Subset

LEMMA FiniteStep ==
  ASSUME TypeOK, IsFiniteSet(Kept), [Next]_vars
  PROVE  IsFiniteSet(Kept')
  <1> USE DEF directory, process
  <1>1. CASE UNCHANGED files
    BY <1>1 DEF Kept
  <1>2. CASE \E c \in Checkpoints, st \in {"none", "open", "completed"} :
                files' = [files EXCEPT ![c] = st]
    BY <1>2, OneFile
  <1>3. ASSUME NEW m \in Managers,
               \/ \E r \in RunIds : Create(m, r)
               \/ AcquireLock(m) \/ Exit(m)
               \/ \E st \in {"success", "failed"} : MarkRun(m, st)
               \/ \E s \in Stages : Save(m, s)
               \/ WritePointer(m) \/ Cleanup(m) \/ CleanupEnd(m)
        PROVE  UNCHANGED files
    BY <1>3 DEF Create, AcquireLock, Exit, MarkRun, Save, WritePointer, Cleanup, CleanupEnd
  <1>4. ASSUME NEW m \in Managers, WriteCheckpoint(m) PROVE IsFiniteSet(Kept')
    <2>1. arg[m] \in Checkpoints
      BY <1>4 DEF WriteCheckpoint, TypeOK
    <2> QED BY <1>1, <1>2, <1>4, <2>1 DEF WriteCheckpoint
  <1>5. ASSUME NEW m \in Managers, Unlink(m) PROVE IsFiniteSet(Kept')
    BY <1>2, <1>5 DEF Unlink, TypeOK
  <1>6. ASSUME NEW m \in Managers, NEW s \in Stages, CompleteFile(m, s)
        PROVE  IsFiniteSet(Kept')
    BY <1>2, <1>6 DEF CompleteFile, Loaded, SetCompleted
  <1>7. ASSUME NEW m \in Managers, NEW s \in Stages, CompleteInMemory(m, s)
        PROVE  IsFiniteSet(Kept')
    <2>1. PICK i \in DOMAIN mem[m] :
             \/ SetCompleted([run |-> rid[m], stage |-> s, ts |-> mem[m][i].ts])
             \/ UNCHANGED files
      BY <1>7 DEF CompleteInMemory
    <2> QED BY <1>1, <2>1, OneFile DEF SetCompleted
  <1>8. CASE Tick \/ UNCHANGED vars
    BY <1>1, <1>8 DEF Tick, vars
  <1> QED BY <1>1, <1>3, <1>4, <1>5, <1>6, <1>7, <1>8 DEF Next

\* The order of the file names is a strict order, and in a finite set of files some
\* file has none after it.
LEMMA AfterOrder ==
  ASSUME RecoveryAssumption, NEW c \in Checkpoints, NEW d \in Checkpoints, NEW e \in Checkpoints
  PROVE  ~After(c, c) /\ (After(e, d) /\ After(d, c) => After(e, c))
  <1>1. \A x \in {c, d, e} : x.ts \in Int /\ AlphaRank[x.stage] \in Int
    BY Fields DEF RecoveryAssumption
  <1> QED BY <1>1 DEF After

LEMMA SomeLast ==
  ASSUME RecoveryAssumption, NEW C, C \subseteq Checkpoints, IsFiniteSet(C), C # {}
  PROVE  \E c \in C : \A d \in C : ~After(d, c)
  <1> DEFINE Above(c) == {d \in C : After(d, c)}
             R == StrictSubsetOrdering(C)
             Sets == {Above(c) : c \in C}
  <1>1. IsWellFoundedOn(R, FiniteSubsetsOf(C))
    BY FS_StrictSubsetOrderingWellFounded
  <1>2. Sets \subseteq FiniteSubsetsOf(C) /\ Sets # {}
    <2>1. \A c \in C : Above(c) \in FiniteSubsetsOf(C)
      BY FS_Subset DEF FiniteSubsetsOf
    <2> HIDE DEF Above
    <2>2. \A X \in Sets : \E c \in C : X = Above(c)
      OBVIOUS
    <2>3. \E c \in C : Above(c) \in Sets
      OBVIOUS
    <2> QED BY <2>1, <2>2, <2>3
  <1> HIDE DEF R, Sets
  <1>3. PICK X \in Sets : \A Y \in Sets : <<Y, X>> \notin R
    BY <1>1, <1>2, WFMin
  <1>4. PICK c \in C : X = Above(c)
    BY DEF Sets
  <1>5. ASSUME NEW d \in C, After(d, c) PROVE FALSE
    <2>1. Above(d) \subseteq Above(c)
      BY <1>5, AfterOrder
    <2>2. d \in Above(c) /\ d \notin Above(d)
      BY <1>5, AfterOrder
    <2>3. <<Above(d), X>> \in R
      BY <1>4, <2>1, <2>2 DEF R, StrictSubsetOrdering
    <2>4. Above(d) \in Sets
      BY DEF Sets
    <2> QED BY <1>3, <2>3, <2>4
  <1> QED BY <1>5

LEMMA FoundNow ==
  ASSUME RecoveryAssumption, Inv, IsFiniteSet(Kept)
  PROVE  RecoveryFound
  <1> SUFFICES ASSUME NEW r \in RunIds, NEW s \in Stages, NEW t \in Stages,
                      newest[r][s] > 0, s \notin Unsafe, s < t
               PROVE  \E c \in Decision(r, t) :
                        newest[r][c.stage] > 0 /\ c.stage < t /\ c.stage \notin Unsafe
    BY DEF RecoveryFound
  <1> DEFINE first == [run |-> r, stage |-> s, ts |-> newest[r][s]]
  <1>0. Stages \subseteq Int
    BY DEF RecoveryAssumption
  <1>1. \A c \in Candidates(r, t) :
          c \in Checkpoints /\ newest[r][c.stage] > 0 /\ c.stage < t /\ c.stage \notin Unsafe
    <2> SUFFICES ASSUME NEW c \in Candidates(r, t)
                 PROVE  /\ c \in Checkpoints /\ newest[r][c.stage] > 0
                        /\ c.stage < t /\ c.stage \notin Unsafe
      OBVIOUS
    <2>1. c \in Checkpoints /\ c.run = r /\ files[c] = "completed" /\ c.stage # t
          /\ c.stage \notin Unsafe /\ c.stage <= t
      BY DEF Candidates, Completed, Loaded, Eligible
    <2>2. c.stage \in Stages /\ c.ts \in 1..MaxTime
      BY <2>1, Fields
    <2>3. c.ts <= newest[r][c.stage]
      BY <2>1 DEF Inv, NoneNewer
    <2>4. newest[r][c.stage] \in 0..MaxTime
      <3>1. newest[r] \in [Stages -> 0..MaxTime]
        BY DEF Inv, TypeOK
      <3> QED BY <2>2, <3>1
    <2>5. newest[r][c.stage] > 0
      BY <2>2, <2>3, <2>4 DEF RecoveryAssumption
    <2>6. c.stage \in Int /\ t \in Int
      BY <1>0, <2>2
    <2>7. c.stage < t
      BY <2>1, <2>6
    <2> QED BY <2>1, <2>5, <2>7
  <1>2. first \in Candidates(r, t)
    <2>1. newest[r] \in [Stages -> 0..MaxTime]
      BY DEF Inv, TypeOK
    <2>2. newest[r][s] \in 1..MaxTime
      BY <2>1 DEF RecoveryAssumption
    <2>3. first \in Checkpoints
      BY <2>2, MakeCheckpoint
    <2>4. files[first] = "completed"
      BY LastIsKept DEF LastCompletedKept
    <2>5. s # t /\ s <= t
      BY <1>0
    <2> QED BY <2>3, <2>4, <2>5 DEF Candidates, Completed, Loaded, Eligible
  <1>3. CASE ByPointer(r, t) # {}
    <2>1. PICK c \in ByPointer(r, t) : TRUE
      BY <1>3
    <2>2. c \in Candidates(r, t) /\ c \in Decision(r, t)
      BY <2>1, <1>3 DEF ByPointer, Candidates, Decision
    <2> QED BY <1>1, <2>2
  <1>4. CASE ByPointer(r, t) = {}
    <2>1. Candidates(r, t) \subseteq Kept /\ Candidates(r, t) \subseteq Checkpoints
      BY DEF Candidates, Completed, Loaded, Kept
    <2>2. IsFiniteSet(Candidates(r, t))
      BY <2>1, FS_Subset
    <2>3. PICK c \in Candidates(r, t) : \A d \in Candidates(r, t) : ~After(d, c)
      BY <1>2, <2>1, <2>2, SomeLast
    <2>4. c \in Decision(r, t)
      BY <1>4, <2>3 DEF ByName, Decision
    <2> QED BY <1>1, <2>4
  <1> QED BY <1>3, <1>4

\* A run that has completed a stage that is safe to resume can be recovered at any
\* later stage, from a completed stage before it, whatever became of the pointer: for
\* any processes, crashes, restarts, failing writes and cleanups, when no stage is
\* saved twice in one second.
THEOREM Recoverable ==
  ASSUME ~SameSecond
  PROVE  Spec => []RecoveryFound
  <1>1. Init => Inv /\ IsFiniteSet(Kept)
    <2>1. Init => Kept = {}
      BY DEF Init, Kept
    <2> QED BY <2>1, InvInit, FS_EmptySet, RecoveryAssumption
  <1>2. Inv /\ IsFiniteSet(Kept) /\ [Next]_vars => Inv' /\ IsFiniteSet(Kept)'
    <2>1. Inv => TypeOK
      BY DEF Inv
    <2> QED BY <2>1, InvStep, FiniteStep, RecoveryAssumption, NoCheckpointAssumption
  <1>3. Inv /\ IsFiniteSet(Kept) => RecoveryFound
    BY FoundNow, RecoveryAssumption
  <1> QED BY <1>1, <1>2, <1>3, PTL DEF Spec

=============================================================================
