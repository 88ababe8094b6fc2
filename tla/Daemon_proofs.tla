---------------------------- MODULE Daemon_proofs ----------------------------
(***************************************************************************)
(* Proofs about DaemonWatcher, for any files, paths, workers and bounds:   *)
(* the types of its variables, and that no job is shown as being worked on *)
(* when nobody works on it; when no file arrives during the start-up scan, *)
(* that a path never has two holders (the queue and the workers) and so is *)
(* never processed by two workers at once; and when nobody takes files out *)
(* of watch_dir either, that what lies in .processed is recorded, but for  *)
(* rows that were lost, and nothing that succeeded is converted again, but *)
(* for files that were looked up while they were being copied (invariant   *)
(* Handled).  About DaemonStats, for any threads and names: every job is   *)
(* counted, the lock comes back, and what stops the statistics stops them  *)
(* for good.                                                               *)
(***************************************************************************)
EXTENDS Daemon, TLAPS, FiniteSetTheorems

USE NamesAssumption, ItemsAssumption

-----------------------------------------------------------------------------
(* Types: what the operators the actions are built from produce.           *)

\* The size of the dedup key is a natural number, whatever stat says of the file.
LEMMA SizesInNat ==
    ASSUME NEW n \in Names
    PROVE  SizesIn(n) \subseteq Nat
  <1>1. \A i \in Items : SizesOf(i) \subseteq Nat
    BY DEF SizesOf
  <1>2. CASE InWatch(n)
    <2> SUFFICES ASSUME NEW s \in SizesIn(n) PROVE s \in Nat
      OBVIOUS
    <2>1. PICK i \in Now(n) : s \in SizesOf(i)
      BY <1>2 DEF SizesIn
    <2>2. i \in Items
      BY DEF Now
    <2> QED  BY <1>1, <2>1, <2>2
  <1>3. CASE ~InWatch(n)
    BY <1>3 DEF SizesIn
  <1> QED  BY <1>2, <1>3

\* What mark_processed leaves in the table has the shape of its rows.
LEMMA MarkType ==
    ASSUME db \subseteq Rows, lost \subseteq Items, NEW n \in Names,
           NEW st \in {"success", "failed"}, MarkProcessed(n, st)
    PROVE  db' \subseteq Rows /\ lost' \subseteq Items
  <1>1. Now(n) \subseteq Items
    BY DEF Now
  <1>2. CASE RowLost(n)
    BY <1>1, <1>2 DEF RowLost
  <1>3. ASSUME NEW s \in SizesIn(n),
               db' = {r \in db : r.name # n \/ r.size # s}
                        \cup {[name |-> n, size |-> s, status |-> st]},
               Written(n, s)
        PROVE  db' \subseteq Rows /\ lost' \subseteq Items
    <2>1. [name |-> n, size |-> s, status |-> st] \in Rows
      BY SizesInNat DEF Rows
    <2> QED  BY <1>1, <1>3, <2>1 DEF Written
  <1> QED  BY <1>2, <1>3 DEF MarkProcessed

LEMMA LetThroughType ==
    ASSUME early \subseteq Items, NEW n, NEW s, LetThrough(n, s)
    PROVE  early' \subseteq Items
  BY DEF LetThrough, Now

\* A rename moves items between directories.
LEMMA RenameType ==
    ASSUME place \in [Items -> Places], NEW n, NEW from, NEW to \in Places,
           NEW over, Rename(n, from, to, over)
    PROVE  place' \in [Items -> Places]
  BY DEF Rename, Places

LEMMA EmptySeq == ASSUME NEW S PROVE <<>> \in Seq(S)
  OBVIOUS

\* queue.put appends one path and counts one task.
LEMMA PutType ==
    ASSUME queue \in Seq(Names), unfinished \in Int, NEW n \in Names, Put(n)
    PROVE  queue' \in Seq(Names) /\ unfinished' \in Int
  BY DEF Put

\* A busy worker that moves on stays busy with its path.
LEMMA GotoType ==
    ASSUME worker \in [Workers -> WorkerStates], NEW w \in Workers,
           worker[w].pc \in Busy, NEW to \in Busy, Goto(w, to)
    PROVE  worker' \in [Workers -> WorkerStates]
  <1>1. worker[w] \in [pc : Busy, name : Names]
    BY DEF WorkerStates, Busy, Unborn, Idle, Ended
  <1>2. [worker[w] EXCEPT !.pc = to] \in WorkerStates
    BY <1>1 DEF WorkerStates
  <1> QED  BY <1>2 DEF Goto

LEMMA LoopTestType ==
    ASSUME worker \in [Workers -> WorkerStates], NEW w \in Workers, LoopTest(w)
    PROVE  worker' \in [Workers -> WorkerStates]
  BY DEF LoopTest, WorkerStates

\* The path of a busy worker is a path.
LEMMA BusyName ==
    ASSUME worker \in [Workers -> WorkerStates], NEW w \in Workers,
           worker[w].pc \in Busy
    PROVE  worker[w].name \in Names
  BY DEF WorkerStates, Busy, Unborn, Idle, Ended

LEMMA NoRetryType == NoRetry \in RetryEntries
  BY DEF NoRetry, RetryEntries

-----------------------------------------------------------------------------
(* Types: the initial states and every step.                               *)

LEMMA TypesInit == Init => TypeOK
  <1> SUFFICES ASSUME Init PROVE TypeOK
    OBVIOUS
  <1>1. worker \in [Workers -> WorkerStates]
    BY DEF Init, WorkerStates
  <1>2. retryq \in [Names -> RetryEntries]
    BY NoRetryType DEF Init
  <1>3. place \in [Items -> Places]
    BY DEF Init, Places
  <1>4. observer \in ObserverStates
    BY DEF Init, ObserverStates
  <1>5. /\ events \in Seq(Names) /\ queue \in Seq(Names)
        /\ submitted \in Seq(Names)
    BY EmptySeq DEF Init
  <1>6. /\ db \subseteq Rows /\ scanLeft \subseteq Names /\ jobs \subseteq Names
        /\ processing \subseteq Names /\ processed \subseteq Names
        /\ unfinished \in Int /\ crashes \in Nat
        /\ partial \subseteq Items /\ lost \subseteq Items /\ early \subseteq Items
    BY DEF Init
  <1>7. /\ statsHeld \in BOOLEAN /\ stopEvent \in BOOLEAN
        /\ pauseEvent \in BOOLEAN /\ draining \in BOOLEAN
    BY DEF Init
  <1>8. main = "down"
    BY DEF Init
  <1> QED  BY <1>1, <1>2, <1>3, <1>4, <1>5, <1>6, <1>7, <1>8 DEF TypeOK

\* Each step of the environment, the main thread and the observer keeps the types.
LEMMA TypesMain ==
    ASSUME TypeOK,
           \/ \E i \in Items : Drop(i) \/ Copied(i) \/ Withdraw(i)
           \/ ObserverStep \/ MainStep
           \/ \E n \in Names : RetryDue(n) \/ ProcessRetry(n)
           \/ Pause \/ Resume \/ Drain \/ StopSignal \/ StopCommand \/ Crash
    PROVE  TypeOK'
  <1> USE DEF TypeOK, disk, table, intake, books, control
  <1>1. ASSUME NEW i \in Items, Drop(i) PROVE TypeOK'
    <2>1. NameOf[i] \in Names
      OBVIOUS
    <2>2. place' \in [Items -> Places] /\ events' \in Seq(Names)
      BY <1>1, <2>1 DEF Drop, Places
    <2> QED  BY <1>1, <2>2 DEF Drop
  <1>20. ASSUME NEW i \in Items, Copied(i) PROVE TypeOK'
    BY <1>20 DEF Copied
  <1>2. ASSUME NEW i \in Items, Withdraw(i) PROVE TypeOK'
    <2>1. place' \in [Items -> Places]
      BY <1>2 DEF Withdraw, Places
    <2> QED  BY <1>2, <2>1 DEF Withdraw
  <1>3. CASE ObserverTake
    <2>1. Head(events) \in Names /\ events' \in Seq(Names)
      BY <1>3 DEF ObserverTake
    <2>2. observer' \in ObserverStates
      BY <1>3, <2>1 DEF ObserverTake, ObserverStates
    <2> QED  BY <1>3, <2>1, <2>2 DEF ObserverTake
  <1>4. CASE ObserverDedup
    <2>1. observer.name \in Names
      BY <1>4 DEF ObserverDedup, ObserverStates, Idle
    <2>2. observer' \in ObserverStates
      <3>1. observer \in [pc : {"dedup", "settle"}, name : Names]
        BY <1>4 DEF ObserverDedup, ObserverStates, Idle
      <3>2. [observer EXCEPT !.pc = "settle"]
                \in [pc : {"dedup", "settle"}, name : Names]
        BY <3>1
      <3> QED  BY <1>4, <2>1, <3>2 DEF ObserverDedup, ObserverStates
    <2>3. events' \in Seq(Names)
      <3>1. events' = <<>> \/ events' = events
        BY <1>4 DEF ObserverDedup
      <3> QED  BY <3>1, EmptySeq
    <2>4. processed' \subseteq Names
      BY <1>4, <2>1 DEF ObserverDedup
    <2>5. early' \subseteq Items
      BY <1>4, LetThroughType DEF ObserverDedup
    <2> QED  BY <1>4, <2>2, <2>3, <2>4, <2>5 DEF ObserverDedup
  <1>5. CASE ObserverPut
    <2>1. observer.name \in Names
      BY <1>5 DEF ObserverPut, ObserverStates, Idle
    <2>2. queue' \in Seq(Names) /\ unfinished' \in Int
      BY <1>5, <2>1, PutType DEF ObserverPut
    <2>3. observer' \in ObserverStates
      BY <1>5 DEF ObserverPut, ObserverStates
    <2> QED  BY <1>5, <2>1, <2>2, <2>3 DEF ObserverPut
  <1>6. CASE ObserverGiveUp
    BY <1>6 DEF ObserverGiveUp, ObserverStates
  <1>7. CASE Start
    BY <1>7 DEF Start
  <1>8. ASSUME NEW n \in Names, Scan(n) PROVE TypeOK'
    <2>1. CASE UNCHANGED <<books, early>>
      BY <1>8, <2>1 DEF Scan
    <2>2. ASSUME NEW s, LetThrough(n, s), Put(n), processing' = processing \cup {n},
                 UNCHANGED processed
          PROVE  TypeOK'
      <3>1. queue' \in Seq(Names) /\ unfinished' \in Int /\ early' \subseteq Items
        BY <2>2, PutType, LetThroughType
      <3> QED  BY <1>8, <2>2, <3>1 DEF Scan
    <2> QED  BY <1>8, <2>1, <2>2 DEF Scan
  <1>9. CASE ScanDone
    <2>1. worker' \in [Workers -> WorkerStates]
      BY <1>9 DEF ScanDone, WorkerStates
    <2> QED  BY <1>9, <2>1 DEF ScanDone
  <1>10. CASE StopSave
    BY <1>10 DEF StopSave
  <1>11. CASE Exit
    BY <1>11 DEF Exit
  <1>12. ASSUME NEW n \in Names, RetryDue(n) PROVE TypeOK'
    <2>1. retryq' \in [Names -> RetryEntries]
      BY <1>12 DEF RetryDue, RetryEntries
    <2> QED  BY <1>12, <2>1 DEF RetryDue
  <1>13. ASSUME NEW n \in Names, ProcessRetry(n) PROVE TypeOK'
    <2>1. place' \in [Items -> Places]
      BY <1>13, RenameType DEF ProcessRetry, Places
    <2>2. events' \in Seq(Names) /\ submitted' \in Seq(Names)
      BY <1>13 DEF ProcessRetry
    <2> QED  BY <1>13, <2>1, <2>2 DEF ProcessRetry
  <1>14. CASE Pause
    BY <1>14 DEF Pause
  <1>15. CASE Resume
    BY <1>15 DEF Resume
  <1>16. CASE Drain
    BY <1>16 DEF Drain
  <1>17. CASE StopSignal
    BY <1>17 DEF StopSignal
  <1>18. CASE StopCommand
    BY <1>18 DEF StopCommand
  <1>19. CASE Crash
    <2>1. worker' \in [Workers -> WorkerStates]
      BY <1>19 DEF Crash, WorkerStates
    <2>2. retryq' \in [Names -> RetryEntries]
      BY <1>19, NoRetryType DEF Crash
    <2>3. /\ events' \in Seq(Names) /\ queue' \in Seq(Names)
          /\ submitted' \in Seq(Names)
      BY <1>19, EmptySeq DEF Crash
    <2>4. observer' \in ObserverStates
      BY <1>19 DEF Crash, ObserverStates
    <2>5. /\ processing' \subseteq Names /\ processed' \subseteq Names
          /\ scanLeft' \subseteq Names /\ jobs' \subseteq Names
          /\ unfinished' \in Int /\ crashes' \in Nat
      BY <1>19 DEF Crash
    <2>6. /\ statsHeld' \in BOOLEAN /\ stopEvent' \in BOOLEAN
          /\ pauseEvent' \in BOOLEAN /\ draining' \in BOOLEAN
      BY <1>19 DEF Crash
    <2>7. main' = "down" /\ early' = {} /\ UNCHANGED <<place, partial, db, lost>>
      BY <1>19 DEF Crash
    <2> QED  BY <2>1, <2>2, <2>3, <2>4, <2>5, <2>6, <2>7
  <1> QED
    BY <1>1, <1>2, <1>3, <1>4, <1>5, <1>6, <1>7, <1>8, <1>9, <1>10, <1>11,
       <1>12, <1>13, <1>14, <1>15, <1>16, <1>17, <1>18, <1>19, <1>20
       DEF ObserverStep, MainStep

\* Each step of a worker keeps the types.
LEMMA TypesWorker ==
    ASSUME TypeOK, NEW w \in Workers, WorkerStep(w)
    PROVE  TypeOK'
  <1> USE DEF TypeOK, disk, table, intake, books, control
  <1>1. CASE WorkerGet(w)
    <2>1. Head(queue) \in Names /\ queue' \in Seq(Names)
      BY <1>1 DEF WorkerGet
    <2>2. worker' \in [Workers -> WorkerStates]
      BY <1>1, <2>1 DEF WorkerGet, WorkerStates, Busy
    <2> QED  BY <1>1, <2>1, <2>2 DEF WorkerGet
  <1>2. CASE WorkerEnd(w)
    <2>1. worker' \in [Workers -> WorkerStates]
      BY <1>2, LoopTestType DEF WorkerEnd
    <2> QED  BY <1>2, <2>1 DEF WorkerEnd
  <1>3. CASE WorkerBegin(w)
    <2>1. worker[w].pc \in Busy
      BY <1>3 DEF WorkerBegin, At, Busy
    <2>2. PICK to \in Busy : Goto(w, to)
      BY <1>3 DEF WorkerBegin, Busy
    <2>3. worker' \in [Workers -> WorkerStates]
      BY <2>1, <2>2, GotoType
    <2>4. jobs' \subseteq Names
      BY <1>3, <2>1, BusyName DEF WorkerBegin
    <2> QED  BY <1>3, <2>3, <2>4 DEF WorkerBegin
  <1>4. CASE ConvertOK(w)
    <2>1. worker[w].pc \in Busy /\ Goto(w, "converted") /\ "converted" \in Busy
      BY <1>4 DEF ConvertOK, At, Busy
    <2>2. worker' \in [Workers -> WorkerStates]
      BY <2>1, GotoType
    <2>3. db' \subseteq Rows /\ lost' \subseteq Items
      BY <1>4, <2>1, BusyName, MarkType DEF ConvertOK
    <2>4. retryq' \in [Names -> RetryEntries]
      BY <1>4, NoRetryType DEF ConvertOK
    <2> QED  BY <1>4, <2>2, <2>3, <2>4 DEF ConvertOK
  <1>5. CASE ConvertFail(w)
    <2>1. worker[w].pc \in Busy /\ Goto(w, "failed") /\ "failed" \in Busy
      BY <1>5 DEF ConvertFail, At, Busy
    <2>2. worker' \in [Workers -> WorkerStates]
      BY <2>1, GotoType
    <2> QED  BY <1>5, <2>2 DEF ConvertFail
  <1>6. CASE Archive(w)
    <2>1. worker[w].pc \in Busy
      BY <1>6 DEF Archive, At, Busy
    <2>2. PICK to \in Busy : Goto(w, to)
      BY <1>6 DEF Archive, Busy
    <2>3. worker' \in [Workers -> WorkerStates]
      BY <2>1, <2>2, GotoType
    <2>4. place' \in [Items -> Places]
      BY <1>6, RenameType DEF Archive, Places
    <2> QED  BY <1>6, <2>3, <2>4 DEF Archive
  <1>7. CASE FailRetry(w)
    <2>1. worker[w].pc \in Busy /\ Goto(w, "done") /\ "done" \in Busy
      BY <1>7 DEF FailRetry, At, Busy
    <2>2. worker' \in [Workers -> WorkerStates]
      BY <2>1, GotoType
    <2>3. retryq' \in [Names -> RetryEntries]
      BY <1>7, <2>1, BusyName DEF FailRetry, NextAttempt, RetryEntries
    <2> QED  BY <1>7, <2>2, <2>3 DEF FailRetry
  <1>8. CASE FailMark(w)
    <2>1. worker[w].pc \in Busy /\ Goto(w, "rejected") /\ "rejected" \in Busy
      BY <1>8 DEF FailMark, At, Busy
    <2>2. worker' \in [Workers -> WorkerStates]
      BY <2>1, GotoType
    <2>3. db' \subseteq Rows /\ lost' \subseteq Items
      BY <1>8, <2>1, BusyName, MarkType DEF FailMark
    <2> QED  BY <1>8, <2>2, <2>3 DEF FailMark
  <1>9. CASE FailMove(w)
    <2>1. worker[w].pc \in Busy /\ Goto(w, "done") /\ "done" \in Busy
      BY <1>9 DEF FailMove, At, Busy
    <2>2. worker' \in [Workers -> WorkerStates]
      BY <2>1, GotoType
    <2>3. place' \in [Items -> Places]
      BY <1>9, RenameType DEF FailMove, Places
    <2> QED  BY <1>9, <2>2, <2>3 DEF FailMove
  <1>10. CASE Finish(w)
    <2>1. worker[w].pc \in Busy /\ worker[w].name \in Names
      BY <1>10, BusyName DEF Finish, At, Busy
    <2>2. worker' \in [Workers -> WorkerStates]
      <3>1. CASE LoopTest(w)
        BY <3>1, LoopTestType
      <3>2. CASE Goto(w, "stuck")
        BY <3>2, <2>1, GotoType DEF Busy
      <3> QED  BY <1>10, <3>1, <3>2 DEF Finish
    <2>3. processing' \subseteq Names /\ processed' \subseteq Names
      BY <1>10, <2>1 DEF Finish
    <2>4. unfinished' \in Int /\ jobs' \subseteq Names
      BY <1>10 DEF Finish, EndJob
    <2>5. statsHeld' \in BOOLEAN
      BY <1>10 DEF Finish
    <2> QED  BY <1>10, <2>2, <2>3, <2>4, <2>5 DEF Finish
  <1>11. CASE HandlerError(w)
    <2>1. worker' \in [Workers -> WorkerStates]
      BY <1>11, LoopTestType DEF HandlerError
    <2>2. jobs' \subseteq Names
      BY <1>11 DEF HandlerError, EndJob
    <2> QED  BY <1>11, <2>1, <2>2 DEF HandlerError
  <1>12. CASE RunSubmitted(w)
    BY <1>12 DEF RunSubmitted, EndJob
  <1> QED
    BY <1>1, <1>2, <1>3, <1>4, <1>5, <1>6, <1>7, <1>8, <1>9, <1>10, <1>11,
       <1>12 DEF WorkerStep

LEMMA TypesStep == TypeOK /\ [Next]_vars => TypeOK'
  <1> SUFFICES ASSUME TypeOK, [Next]_vars PROVE TypeOK'
    OBVIOUS
  <1>1. CASE Next
    BY <1>1, TypesMain, TypesWorker DEF Next
  <1>2. CASE UNCHANGED vars
    BY <1>2 DEF vars, TypeOK
  <1> QED  BY <1>1, <1>2

\* In every behaviour of the daemon its variables have the types TypeOK gives:
\* the dedup table, the retry table, the thread states, the queues.
THEOREM TypeCorrect == Spec => []TypeOK
  BY TypesInit, TypesStep, PTL DEF Spec

-----------------------------------------------------------------------------
(* One holder per path.                                                    *)

\* A step that leaves the queue, processing and the observer alone and makes no
\* worker busy with another path preserves the invariant.
LEMMA HolderStable ==
    ASSUME SingleHolder, UNCHANGED <<queue, processing, observer, scanLeft>>,
           Starting' => UNCHANGED <<main, events, worker>>,
           \A w \in Workers : worker'[w].pc \in Busy
               => worker[w].pc \in Busy /\ worker'[w].name = worker[w].name
    PROVE  SingleHolder'
  <1>1. QuietStart' /\ EmptyWhenDown'
    BY DEF SingleHolder, QuietStart, EmptyWhenDown, Starting, Queued
  <1>2. Claimed' /\ ObserverHoldsFresh' /\ QueueDistinct'
    BY DEF SingleHolder, Claimed, ObserverHoldsFresh, QueueDistinct
  <1>3. QueueNotBusy'
    BY DEF SingleHolder, QueueNotBusy, Queued
  <1>4. OneWorkerPerFile'
    BY DEF SingleHolder, OneWorkerPerFile
  <1> QED  BY <1>1, <1>2, <1>3, <1>4 DEF SingleHolder

\* Putting a path that is neither in processing nor in scanLeft, and claiming
\* it, preserves the invariant.
LEMMA HolderPut ==
    ASSUME TypeOK, SingleHolder, NEW n \in Names, Put(n), Starting => n \notin scanLeft',
           ~Queued(n),
           \A w \in Workers : worker[w].pc \in Busy => worker[w].name # n,
           processing' = processing \cup {n}, scanLeft' \subseteq scanLeft,
           UNCHANGED <<worker, main, events>>, main # "down",
           observer' = Idle
    PROVE  SingleHolder'
  <1>1. /\ Len(queue') = Len(queue) + 1 /\ Len(queue) \in Nat
        /\ queue'[Len(queue) + 1] = n
        /\ \A k \in 1..Len(queue) : queue'[k] = queue[k]
    BY DEF Put, TypeOK
  <1>2. \A m : Queued(m)' => Queued(m) \/ m = n
    BY <1>1 DEF Queued
  <1>3. QuietStart' /\ EmptyWhenDown'
    BY <1>2 DEF SingleHolder, QuietStart, EmptyWhenDown, Starting
  <1>4. Claimed'
    BY <1>1 DEF SingleHolder, Claimed
  <1>5. ObserverHoldsFresh'
    BY DEF ObserverHoldsFresh, Idle
  <1>6. QueueDistinct'
    <2> SUFFICES ASSUME NEW k \in 1..Len(queue'), NEW l \in 1..Len(queue'), k # l
                 PROVE  queue'[k] # queue'[l]
      BY DEF QueueDistinct
    <2>1. CASE k \in 1..Len(queue) /\ l \in 1..Len(queue)
      BY <1>1, <2>1 DEF SingleHolder, QueueDistinct
    <2>2. CASE k = Len(queue) + 1 /\ l \in 1..Len(queue)
      BY <1>1, <2>2 DEF Queued
    <2>3. CASE l = Len(queue) + 1 /\ k \in 1..Len(queue)
      BY <1>1, <2>3 DEF Queued
    <2> QED  BY <1>1, <2>1, <2>2, <2>3
  <1>7. QueueNotBusy'
    BY <1>2 DEF SingleHolder, QueueNotBusy
  <1>8. OneWorkerPerFile'
    BY DEF SingleHolder, OneWorkerPerFile
  <1> QED  BY <1>3, <1>4, <1>5, <1>6, <1>7, <1>8 DEF SingleHolder

LEMMA HolderInit == Init => SingleHolder
  <1> SUFFICES ASSUME Init PROVE SingleHolder
    OBVIOUS
  <1>1. queue = <<>> /\ Len(queue) = 0
    BY DEF Init
  <1>2. \A w \in Workers : worker[w] = Unborn /\ worker[w].pc \notin Busy
    BY DEF Init, Unborn, Busy
  <1>3. observer = Idle /\ events = <<>> /\ scanLeft = {}
    BY DEF Init
  <1>4. QuietStart /\ EmptyWhenDown
    BY <1>1, <1>2, <1>3 DEF QuietStart, EmptyWhenDown
  <1>5. Claimed /\ QueueDistinct /\ QueueNotBusy /\ OneWorkerPerFile
    BY <1>1, <1>2 DEF Claimed, QueueDistinct, QueueNotBusy, OneWorkerPerFile
  <1>6. ObserverHoldsFresh
    BY <1>3 DEF ObserverHoldsFresh, Idle
  <1> QED  BY <1>4, <1>5, <1>6 DEF SingleHolder

\* The environment, the observer and the main thread preserve the invariant when
\* no file arrives during the scan.
LEMMA HolderMain ==
    ASSUME ~ArrivalsDuringScan, TypeOK, SingleHolder,
           \/ \E i \in Items : Drop(i) \/ Copied(i) \/ Withdraw(i)
           \/ ObserverStep \/ MainStep
           \/ \E n \in Names : RetryDue(n) \/ ProcessRetry(n)
           \/ Pause \/ Resume \/ Drain \/ StopSignal \/ StopCommand \/ Crash
    PROVE  SingleHolder'
  <1> USE DEF disk, table, intake, books, control
  <1>1. ASSUME NEW i \in Items, Drop(i) PROVE SingleHolder'
    BY <1>1, HolderStable DEF Drop, Starting, Alive
  <1>2. ASSUME NEW i \in Items, Copied(i) \/ Withdraw(i) PROVE SingleHolder'
    BY <1>2, HolderStable DEF Copied, Withdraw
  <1>3. CASE ObserverTake
    <2>1. ~Starting /\ ~Starting'
      BY <1>3 DEF ObserverTake, SingleHolder, QuietStart, Starting
    <2>2. ObserverHoldsFresh'
      BY <1>3 DEF ObserverTake, ObserverHoldsFresh, Known, Idle
    <2>3. QuietStart' /\ EmptyWhenDown'
      BY <2>1 DEF QuietStart, EmptyWhenDown, Starting
    <2> QED
      BY <1>3, <2>2, <2>3 DEF ObserverTake, SingleHolder, Claimed,
         QueueDistinct, QueueNotBusy, OneWorkerPerFile, Queued
  <1>4. CASE ObserverDedup
    <2>1. ~Starting /\ ~Starting'
      BY <1>4 DEF ObserverDedup, SingleHolder, QuietStart, Starting, Idle
    <2>2. ObserverHoldsFresh'
      <3>1. \/ observer'.pc \notin {"dedup", "settle"}
            \/ observer.pc = "dedup" /\ observer' = [observer EXCEPT !.pc = "settle"]
        BY <1>4 DEF ObserverDedup, Idle
      <3>2. UNCHANGED processing
        BY <1>4 DEF ObserverDedup
      <3> QED
        BY <3>1, <3>2 DEF SingleHolder, ObserverHoldsFresh, Idle, ObserverStates, TypeOK
    <2>3. QuietStart' /\ EmptyWhenDown'
      BY <2>1 DEF QuietStart, EmptyWhenDown, Starting
    <2> QED
      BY <1>4, <2>2, <2>3 DEF ObserverDedup, SingleHolder, Claimed,
         QueueDistinct, QueueNotBusy, OneWorkerPerFile, Queued
  <1>5. CASE ObserverPut
    <2>1. observer.name \in Names /\ observer.name \notin processing
      BY <1>5 DEF ObserverPut, TypeOK, ObserverStates, Idle, SingleHolder,
         ObserverHoldsFresh
    <2>2. ~Starting
      BY <1>5 DEF ObserverPut, SingleHolder, QuietStart, Starting, Idle
    <2>3. /\ ~Queued(observer.name)
          /\ \A w \in Workers : worker[w].pc \in Busy
                                  => worker[w].name # observer.name
      BY <2>1 DEF SingleHolder, Claimed, Queued
    <2>4. /\ Put(observer.name) /\ processing' = processing \cup {observer.name}
          /\ observer' = Idle /\ UNCHANGED <<worker, main, events, scanLeft>>
      BY <1>5 DEF ObserverPut
    <2>5. main # "down"
      BY <2>2 DEF Starting
    <2> QED  BY <2>1, <2>2, <2>3, <2>4, <2>5, HolderPut
  <1>6. CASE ObserverGiveUp
    <2>1. ObserverHoldsFresh'
      BY <1>6 DEF ObserverGiveUp, ObserverHoldsFresh, Idle
    <2>2. QuietStart' /\ EmptyWhenDown'
      BY <1>6 DEF ObserverGiveUp, SingleHolder, QuietStart, EmptyWhenDown,
         Starting, Queued
    <2> QED
      BY <1>6, <2>1, <2>2 DEF ObserverGiveUp, SingleHolder, Claimed,
         QueueDistinct, QueueNotBusy, OneWorkerPerFile, Queued
  <1>7. CASE Start
    <2>1. QuietStart' /\ EmptyWhenDown'
      BY <1>7 DEF Start, SingleHolder, QuietStart, EmptyWhenDown, Starting, Queued
    <2> QED
      BY <1>7, <2>1 DEF Start, SingleHolder, Claimed, ObserverHoldsFresh,
         QueueDistinct, QueueNotBusy, OneWorkerPerFile, Queued
  <1>8. ASSUME NEW n \in Names, Scan(n) PROVE SingleHolder'
    <2>1. /\ main = "scanning" /\ main' = main /\ n \in scanLeft
          /\ scanLeft' = scanLeft \ {n} /\ UNCHANGED <<worker, events, observer>>
      BY <1>8 DEF Scan
    <2>2. /\ observer = Idle /\ ~Queued(n)
          /\ \A w \in Workers : worker[w].pc \notin Busy
      BY <2>1 DEF SingleHolder, QuietStart, Starting, Unborn, Busy
    <2>3. CASE Put(n) /\ processing' = processing \cup {n}
      BY <2>1, <2>2, <2>3, HolderPut
    <2>4. CASE UNCHANGED <<queue, processing>>
      <3>1. UNCHANGED <<queue, processing>>
        BY <2>4
      <3>2. QuietStart' /\ EmptyWhenDown'
        BY <2>1, <3>1 DEF SingleHolder, QuietStart, EmptyWhenDown, Starting, Queued
      <3> QED
        BY <2>1, <3>1, <3>2 DEF SingleHolder, Claimed, ObserverHoldsFresh,
           QueueDistinct, QueueNotBusy, OneWorkerPerFile, Queued
    <2> QED  BY <1>8, <2>3, <2>4 DEF Scan
  <1>9. CASE ScanDone
    <2>1. \A w \in Workers : worker'[w].pc \notin Busy
      BY <1>9 DEF ScanDone, Idle, Ended, Busy
    <2> QED  BY <1>9, <2>1, HolderStable DEF ScanDone, Starting
  <1>10. CASE StopSave
    BY <1>10, HolderStable DEF StopSave, Starting
  <1>11. CASE Exit
    BY <1>11, HolderStable DEF Exit, Starting
  <1>12. ASSUME NEW n \in Names, RetryDue(n) PROVE SingleHolder'
    BY <1>12, HolderStable DEF RetryDue
  <1>13. ASSUME NEW n \in Names, ProcessRetry(n) PROVE SingleHolder'
    BY <1>13, HolderStable DEF ProcessRetry, Starting
  <1>14. CASE Pause
    BY <1>14, HolderStable DEF Pause
  <1>15. CASE Resume
    BY <1>15, HolderStable DEF Resume
  <1>16. CASE Drain
    BY <1>16, HolderStable DEF Drain
  <1>17. CASE StopSignal
    BY <1>17, HolderStable DEF StopSignal, Starting
  <1>18. CASE StopCommand
    BY <1>18, HolderStable DEF StopCommand
  <1>19. CASE Crash
    <2>1. /\ queue' = <<>> /\ Len(queue') = 0 /\ scanLeft' = {} /\ events' = <<>>
          /\ observer' = Idle
          /\ \A w \in Workers : worker'[w] = Unborn /\ worker'[w].pc \notin Busy
      BY <1>19 DEF Crash, Unborn, Busy
    <2>2. ObserverHoldsFresh' /\ QuietStart' /\ EmptyWhenDown'
      BY <2>1 DEF ObserverHoldsFresh, QuietStart, EmptyWhenDown, Idle
    <2> QED
      BY <2>1, <2>2 DEF SingleHolder, Claimed, QueueDistinct, QueueNotBusy,
         OneWorkerPerFile
  <1> QED
    BY <1>1, <1>2, <1>3, <1>4, <1>5, <1>6, <1>7, <1>8, <1>9, <1>10, <1>11,
       <1>12, <1>13, <1>14, <1>15, <1>16, <1>17, <1>18, <1>19
       DEF ObserverStep, MainStep

\* A worker that only changes its place in the code, or leaves it.
LEMMA HolderGoto ==
    ASSUME TypeOK, SingleHolder, NEW w \in Workers, worker[w] # Unborn,
           \/ worker[w].pc \in Busy /\ \E to \in Busy : Goto(w, to)
           \/ LoopTest(w),
           UNCHANGED <<queue, processing, observer, scanLeft, main>>
    PROVE  SingleHolder'
  <1>1. ~Starting'
    BY DEF SingleHolder, QuietStart, Starting
  <1>2. ASSUME NEW v \in Workers, worker'[v].pc \in Busy
        PROVE  worker[v].pc \in Busy /\ worker'[v].name = worker[v].name
    <2>1. CASE v = w /\ worker[w].pc \in Busy /\ \E to \in Busy : Goto(w, to)
      <3>1. worker[w] \in [pc : Busy, name : Names]
        BY <2>1 DEF TypeOK, WorkerStates, Busy, Unborn, Idle, Ended
      <3>2. PICK to \in Busy : worker' = [worker EXCEPT ![w].pc = to]
        BY <2>1 DEF Goto
      <3>3. worker'[w] = [worker[w] EXCEPT !.pc = to]
        BY <3>2 DEF TypeOK
      <3> QED  BY <2>1, <3>1, <3>3
    <2>2. CASE v = w /\ LoopTest(w)
      BY <1>2, <2>2 DEF LoopTest, Idle, Ended, Busy, TypeOK
    <2>3. CASE v # w
      <3>1. worker'[v] = worker[v]
        BY <2>3 DEF Goto, LoopTest, TypeOK
      <3> QED  BY <1>2, <3>1
    <2> QED  BY <2>1, <2>2, <2>3
  <1> QED  BY <1>1, <1>2, HolderStable

\* A worker takes the head of the queue: the path changes hands.
LEMMA HolderGet ==
    ASSUME TypeOK, SingleHolder, NEW w \in Workers, WorkerGet(w)
    PROVE  SingleHolder'
  <1> DEFINE n == Head(queue)
  <1> USE DEF disk, table, intake, books, control
  <1>1. /\ Len(queue) \in Nat /\ Len(queue) > 0 /\ n = queue[1]
        /\ Len(queue') = Len(queue) - 1
        /\ \A k \in 1..Len(queue') : queue'[k] = queue[k + 1]
    BY DEF WorkerGet, TypeOK
  <1>2. /\ worker'[w].name = n /\ worker[w].pc \notin Busy
        /\ \A v \in Workers : v # w => worker'[v] = worker[v]
    BY DEF WorkerGet, TypeOK, Idle, Busy
  <1>3. ~Starting /\ ~Starting'
    BY DEF WorkerGet, SingleHolder, QuietStart, Starting, Idle, Unborn
  <1>4. QuietStart' /\ EmptyWhenDown'
    BY <1>3 DEF QuietStart, EmptyWhenDown, Starting
  <1>5. \A m : Queued(m)' => Queued(m) /\ m # n
    <2> SUFFICES ASSUME NEW k \in 1..Len(queue')
                 PROVE  Queued(queue'[k]) /\ queue'[k] # n
      BY DEF Queued
    <2>1. k + 1 \in 1..Len(queue) /\ k + 1 # 1 /\ 1 \in 1..Len(queue)
      BY <1>1
    <2>2. queue[k + 1] # queue[1]
      BY <2>1 DEF SingleHolder, QueueDistinct
    <2> QED  BY <1>1, <2>1, <2>2 DEF Queued
  <1>6. n \in processing /\ Queued(n)
    BY <1>1 DEF SingleHolder, Claimed, Queued
  <1>7. Claimed'
    <2>1. \A k \in 1..Len(queue') : queue'[k] \in processing
      BY <1>1 DEF SingleHolder, Claimed
    <2> QED  BY <1>2, <1>6, <2>1 DEF SingleHolder, Claimed, WorkerGet
  <1>8. QueueDistinct'
    <2> SUFFICES ASSUME NEW k \in 1..Len(queue'), NEW l \in 1..Len(queue'), k # l
                 PROVE  queue'[k] # queue'[l]
      BY DEF QueueDistinct
    <2>1. k + 1 \in 1..Len(queue) /\ l + 1 \in 1..Len(queue) /\ k + 1 # l + 1
      BY <1>1
    <2> QED  BY <1>1, <2>1 DEF SingleHolder, QueueDistinct
  <1>9. QueueNotBusy'
    BY <1>2, <1>5 DEF SingleHolder, QueueNotBusy
  <1>10. OneWorkerPerFile'
    BY <1>2, <1>6 DEF SingleHolder, OneWorkerPerFile, QueueNotBusy
  <1>11. ObserverHoldsFresh'
    BY DEF SingleHolder, ObserverHoldsFresh, WorkerGet
  <1> QED
    BY <1>4, <1>7, <1>8, <1>9, <1>10, <1>11 DEF SingleHolder

\* A worker is done with its path: mark_completed takes it out of processing.
LEMMA HolderFinish ==
    ASSUME TypeOK, SingleHolder, NEW w \in Workers, Finish(w)
    PROVE  SingleHolder'
  <1> USE DEF disk, table, intake, books, control
  <1> DEFINE n == worker[w].name
  <1>1. worker[w].pc \in Busy /\ worker[w] # Unborn
    BY DEF Finish, At, Busy, Unborn
  <1>2. CASE Goto(w, "stuck") /\ UNCHANGED processing
    <2>1. UNCHANGED <<queue, processing, observer, scanLeft, main>>
      BY <1>2 DEF Finish
    <2>2. \E to \in Busy : Goto(w, to)
      BY <1>2 DEF Busy
    <2> QED  BY <1>1, <2>1, <2>2, HolderGoto
  <1>3. CASE processing' = processing \ {n} /\ LoopTest(w)
    <2>1. /\ UNCHANGED <<queue, observer, scanLeft, main>>
          /\ worker'[w].pc \notin Busy
          /\ \A v \in Workers : v # w => worker'[v] = worker[v]
      BY <1>3 DEF Finish, LoopTest, TypeOK, Idle, Ended, Busy
    <2>2. ~Starting'
      BY <1>1, <2>1 DEF SingleHolder, QuietStart, Starting
    <2>3. QuietStart' /\ EmptyWhenDown'
      BY <2>2 DEF QuietStart, EmptyWhenDown, Starting
    <2>4. \A k \in 1..Len(queue) : queue[k] # n
      BY <1>1 DEF SingleHolder, QueueNotBusy, Queued
    <2>5. \A v \in Workers : v # w /\ worker[v].pc \in Busy => worker[v].name # n
      BY <1>1 DEF SingleHolder, OneWorkerPerFile
    <2>6. Claimed'
      BY <1>3, <2>1, <2>4, <2>5 DEF SingleHolder, Claimed
    <2>7. ObserverHoldsFresh' /\ QueueDistinct' /\ QueueNotBusy' /\ OneWorkerPerFile'
      BY <1>3, <2>1 DEF SingleHolder, ObserverHoldsFresh, QueueDistinct,
         QueueNotBusy, OneWorkerPerFile, Queued
    <2> QED  BY <2>3, <2>6, <2>7 DEF SingleHolder
  <1> QED  BY <1>2, <1>3 DEF Finish

LEMMA HolderWorker ==
    ASSUME TypeOK, SingleHolder, NEW w \in Workers, WorkerStep(w)
    PROVE  SingleHolder'
  <1> USE DEF disk, table, intake, books, control
  <1>1. CASE WorkerGet(w)
    BY <1>1, HolderGet
  <1>2. CASE WorkerEnd(w)
    BY <1>2, HolderGoto DEF WorkerEnd, Idle, Unborn
  <1>3. CASE Finish(w)
    BY <1>3, HolderFinish
  <1>4. CASE HandlerError(w)
    BY <1>4, HolderGoto DEF HandlerError, At, Unborn
  <1>5. CASE RunSubmitted(w)
    <2>1. ~Starting /\ ~Starting'
      BY <1>5 DEF RunSubmitted, SingleHolder, QuietStart, Starting, Ended, Unborn
    <2> QED  BY <1>5, <2>1, HolderStable DEF RunSubmitted
  <1>6. CASE \/ WorkerBegin(w) \/ ConvertOK(w) \/ ConvertFail(w) \/ Archive(w)
             \/ FailRetry(w) \/ FailMark(w) \/ FailMove(w)
    <2>1. worker[w].pc \in Busy /\ worker[w] # Unborn
      BY <1>6 DEF WorkerBegin, ConvertOK, ConvertFail, Archive, FailRetry,
         FailMark, FailMove, At, Busy, Unborn
    <2>2. \E to \in Busy : Goto(w, to)
      BY <1>6 DEF WorkerBegin, ConvertOK, ConvertFail, Archive, FailRetry,
         FailMark, FailMove, Busy
    <2>3. UNCHANGED <<queue, processing, observer, scanLeft, main>>
      BY <1>6 DEF WorkerBegin, ConvertOK, ConvertFail, Archive, FailRetry,
         FailMark, FailMove
    <2> QED  BY <2>1, <2>2, <2>3, HolderGoto
  <1> QED  BY <1>1, <1>2, <1>3, <1>4, <1>5, <1>6 DEF WorkerStep

LEMMA HolderStep ==
    ~ArrivalsDuringScan /\ TypeOK /\ SingleHolder /\ [Next]_vars => SingleHolder'
  <1> SUFFICES ASSUME ~ArrivalsDuringScan, TypeOK, SingleHolder, [Next]_vars
               PROVE  SingleHolder'
    OBVIOUS
  <1>1. CASE Next
    BY <1>1, HolderMain, HolderWorker DEF Next
  <1>2. CASE UNCHANGED vars
    BY <1>2, HolderStable DEF vars
  <1> QED  BY <1>1, <1>2

\* When no file is dropped before the start-up scan is over, no two workers ever
\* process one path at the same time, and a path that is queued is held by no
\* worker and queued once: for any number of workers, paths, files and crashes.
THEOREM HolderCorrect ==
    ASSUME ~ArrivalsDuringScan
    PROVE  Spec => [](SingleHolder /\ OneWorkerPerFile)
  <1>1. SingleHolder => OneWorkerPerFile
    BY DEF SingleHolder
  <1> QED  BY HolderInit, HolderStep, TypeCorrect, <1>1, PTL DEF Spec

-----------------------------------------------------------------------------
(* The job table.                                                          *)

\* Before there is an executor no worker is in the code.
UnbornAtStart == Starting => \A w \in Workers : worker[w] = Unborn

\* A step that leaves the workers' names alone and lets none of those who have a
\* job leave it keeps every job with its worker.
LEMMA JobsStable ==
    ASSUME NoGhostJobs, jobs' \subseteq jobs,
           \A w \in Workers :
               worker[w].pc \in {"converting", "converted", "failed", "rejected", "done"}
                   => \/ worker'[w].name = worker[w].name
                         /\ worker'[w].pc \in {"converting", "converted", "failed",
                                               "rejected", "done"}
                      \/ worker[w].name \notin jobs'
    PROVE  NoGhostJobs'
  BY DEF NoGhostJobs

LEMMA GhostInit == Init => UnbornAtStart /\ NoGhostJobs
  BY DEF Init, UnbornAtStart, NoGhostJobs

\* The environment, the observer and the main thread touch neither the jobs nor the
\* workers, but for the birth of the workers and the end of the process.
LEMMA GhostMain ==
    ASSUME TypeOK, UnbornAtStart, NoGhostJobs,
           \/ \E i \in Items : Drop(i) \/ Copied(i) \/ Withdraw(i)
           \/ ObserverStep \/ MainStep
           \/ \E n \in Names : RetryDue(n) \/ ProcessRetry(n)
           \/ Pause \/ Resume \/ Drain \/ StopSignal \/ StopCommand \/ Crash
    PROVE  UnbornAtStart' /\ NoGhostJobs'
  <1> USE DEF disk, table, intake, books, control
  <1>1. CASE ScanDone
    <2>1. \A w \in Workers : worker[w].pc = "unborn"
      BY <1>1 DEF ScanDone, UnbornAtStart, Starting, Unborn
    <2>2. jobs = {} /\ jobs' = jobs /\ ~Starting'
      BY <1>1, <2>1 DEF ScanDone, NoGhostJobs, Starting
    <2> QED  BY <2>2 DEF UnbornAtStart, NoGhostJobs
  <1>2. CASE Crash
    <2>1. jobs' = {} /\ \A w \in Workers : worker'[w] = Unborn
      BY <1>2 DEF Crash
    <2> QED  BY <2>1 DEF UnbornAtStart, NoGhostJobs
  <1>3. CASE UNCHANGED <<worker, jobs>> /\ (Starting' => Starting)
    BY <1>3 DEF UnbornAtStart, NoGhostJobs
  <1>4. ASSUME NEW i \in Items, Drop(i) \/ Copied(i) \/ Withdraw(i)
        PROVE  UNCHANGED <<worker, jobs>> /\ (Starting' => Starting)
    BY <1>4 DEF Drop, Copied, Withdraw, Starting
  <1>5. ASSUME ObserverStep
        PROVE  UNCHANGED <<worker, jobs>> /\ (Starting' => Starting)
    BY <1>5 DEF ObserverStep, ObserverTake, ObserverDedup, ObserverPut, ObserverGiveUp, Starting
  <1>6. ASSUME Start \/ (\E n \in Names : Scan(n)) \/ StopSave \/ Exit
        PROVE  UNCHANGED <<worker, jobs>> /\ (Starting' => Starting)
    BY <1>6 DEF Start, Scan, StopSave, Exit, Starting
  <1>7. ASSUME NEW n \in Names, RetryDue(n) \/ ProcessRetry(n)
        PROVE  UNCHANGED <<worker, jobs>> /\ (Starting' => Starting)
    BY <1>7 DEF RetryDue, ProcessRetry, Starting
  <1>8. ASSUME Pause \/ Resume \/ Drain \/ StopSignal \/ StopCommand
        PROVE  UNCHANGED <<worker, jobs>> /\ (Starting' => Starting)
    BY <1>8 DEF Pause, Resume, Drain, StopSignal, StopCommand, Starting
  <1> QED  BY <1>1, <1>2, <1>3, <1>4, <1>5, <1>6, <1>7, <1>8 DEF MainStep

\* A worker enters its job when it begins, and takes it out of the table on every way
\* out.
LEMMA GhostWorker ==
    ASSUME TypeOK, UnbornAtStart, NoGhostJobs, NEW w \in Workers, WorkerStep(w)
    PROVE  UnbornAtStart' /\ NoGhostJobs'
  <1> USE DEF disk, table, intake, books, control
  <1>1. UnbornAtStart'
    <2>1. main' = main
      BY DEF WorkerStep, WorkerGet, WorkerEnd, WorkerBegin, ConvertOK, ConvertFail, Archive,
         FailRetry, FailMark, FailMove, Finish, HandlerError, RunSubmitted
    <2>2. worker[w] \in {Idle, Ended} \/ worker[w].pc \in Busy
      <3>1. CASE WorkerGet(w) \/ WorkerEnd(w) \/ RunSubmitted(w)
        BY <3>1 DEF WorkerGet, WorkerEnd, RunSubmitted
      <3>2. CASE \/ WorkerBegin(w) \/ ConvertOK(w) \/ ConvertFail(w) \/ Archive(w)
                 \/ FailRetry(w) \/ FailMark(w) \/ FailMove(w)
        BY <3>2 DEF WorkerBegin, ConvertOK, ConvertFail, Archive, FailRetry, FailMark, FailMove,
           At, Busy
      <3>3. CASE Finish(w) \/ HandlerError(w)
        BY <3>3 DEF Finish, HandlerError, At, Busy
      <3> QED  BY <3>1, <3>2, <3>3 DEF WorkerStep
    <2>3. worker[w] # Unborn
      BY <2>2 DEF Busy, Unborn, Idle, Ended
    <2> QED  BY <2>1, <2>3 DEF UnbornAtStart, Starting
  <1>2. \A v \in Workers : v # w => worker'[v] = worker[v]
    BY DEF WorkerStep, WorkerGet, WorkerEnd, WorkerBegin, ConvertOK, ConvertFail, Archive,
       FailRetry, FailMark, FailMove, Finish, HandlerError, RunSubmitted, LoopTest, Goto, TypeOK
  <1>3. CASE WorkerGet(w) \/ WorkerEnd(w)
    <2>1. worker[w].pc = "idle" /\ jobs' = jobs
      BY <1>3 DEF WorkerGet, WorkerEnd, Idle
    <2> QED  BY <1>1, <1>2, <2>1, JobsStable
  <1>4. CASE RunSubmitted(w)
    <2>1. worker' = worker /\ jobs' = jobs \ {Head(submitted)}
      BY <1>4 DEF RunSubmitted, EndJob
    <2>2. \A n \in jobs' : n \in jobs
      BY <2>1
    <2> QED  BY <1>1, <2>1, <2>2 DEF NoGhostJobs
  <1>5. CASE WorkerBegin(w)
    <2>1. PICK to \in {"done", "failed", "converting"} :
              Goto(w, to) /\ jobs' \subseteq jobs \cup {worker[w].name}
              /\ (to # "converting" => jobs' = jobs)
      BY <1>5 DEF WorkerBegin
    <2>2. worker'[w] = [worker[w] EXCEPT !.pc = to] /\ worker[w].pc = "taken"
      BY <1>5, <2>1 DEF Goto, WorkerBegin, At, TypeOK
    <2>3. worker[w] \in [pc : Busy, name : Names]
      BY <2>2 DEF TypeOK, WorkerStates, Unborn, Idle, Ended
    <2>4. worker'[w].pc = to /\ worker'[w].name = worker[w].name
      BY <2>2, <2>3
    <2>5. ASSUME NEW n \in jobs'
          PROVE  \E v \in Workers : /\ worker'[v].name = n
                                    /\ worker'[v].pc \in {"converting", "converted", "failed",
                                                          "rejected", "done"}
      <3>1. CASE n \in jobs
        <4>1. PICK v \in Workers :
                  /\ worker[v].name = n
                  /\ worker[v].pc \in {"converting", "converted", "failed", "rejected", "done"}
          BY <3>1 DEF NoGhostJobs
        <4>2. v # w
          BY <2>2, <4>1
        <4> QED  BY <1>2, <4>1, <4>2
      <3>2. CASE n \notin jobs
        <4>1. to = "converting" /\ n = worker[w].name
          BY <2>1, <2>5, <3>2
        <4> QED  BY <2>4, <4>1
      <3> QED  BY <3>1, <3>2
    <2> QED  BY <1>1, <2>5 DEF NoGhostJobs
  <1>6. CASE \/ ConvertOK(w) \/ ConvertFail(w) \/ Archive(w)
             \/ FailRetry(w) \/ FailMark(w) \/ FailMove(w)
    <2>1. PICK to \in {"converted", "failed", "rejected", "done"} : Goto(w, to) /\ jobs' = jobs
      BY <1>6 DEF ConvertOK, ConvertFail, Archive, FailRetry, FailMark, FailMove
    <2>2. worker[w].pc \in Busy
      BY <1>6 DEF ConvertOK, ConvertFail, Archive, FailRetry, FailMark, FailMove, At, Busy
    <2>3. worker[w] \in [pc : Busy, name : Names]
      BY <2>2 DEF TypeOK, WorkerStates, Unborn, Idle, Ended, Busy
    <2>4. worker'[w].pc = to /\ worker'[w].name = worker[w].name
      BY <2>1, <2>3 DEF Goto, TypeOK
    <2> QED  BY <1>1, <1>2, <2>1, <2>4, JobsStable
  <1>7. CASE Finish(w) \/ HandlerError(w)
    <2>1. jobs' = jobs \ {worker[w].name}
      BY <1>7 DEF Finish, HandlerError, EndJob
    <2> QED  BY <1>1, <1>2, <2>1, JobsStable
  <1> QED  BY <1>3, <1>4, <1>5, <1>6, <1>7 DEF WorkerStep

\* No job stays in stats.current_jobs after its worker has left it, whichever way it
\* left: for any workers and files, arrivals, withdrawals, requests, faults and crashes.
THEOREM JobsCorrect == Spec => []NoGhostJobs
  <1>1. TypeOK /\ UnbornAtStart /\ NoGhostJobs /\ [Next]_vars => UnbornAtStart' /\ NoGhostJobs'
    <2>1. CASE UNCHANGED vars
      BY <2>1 DEF vars, UnbornAtStart, Starting, NoGhostJobs
    <2> QED  BY <2>1, GhostMain, GhostWorker DEF Next
  <1> QED  BY <1>1, GhostInit, TypeCorrect, PTL DEF Spec

-----------------------------------------------------------------------------
(* Outcomes, when no file arrives during the scan and none is withdrawn.   *)

\* A path that has settled, is queued or is converted is that of a file in watch_dir.
StillThere ==
    /\ observer.pc = "settle" => InWatch(observer.name)
    /\ \A k \in 1..Len(queue) : InWatch(queue[k])
    /\ \A w \in Workers : worker[w].pc \in {"taken", "converting", "converted"}
                              => InWatch(worker[w].name)

\* Before its conversion begins, a file that was looked up with its own size has no row.
Fresh(n) == \A i \in Now(n) \ early : ~Row(n, SizeOf[i])
Unrecorded ==
    /\ observer.pc = "settle" => Fresh(observer.name)
    /\ \A k \in 1..Len(queue) : Fresh(queue[k])
    /\ \A w \in Workers : worker[w].pc = "taken" => Fresh(worker[w].name)

\* Before it is archived it has a success row, unless that row is lost.
Success(n, s) == \E r \in db : r.name = n /\ r.size = s /\ r.status = "success"
Successful(n) == \A i \in Now(n) \ lost : Success(n, SizeOf[i])
RecordedFirst ==
    \A w \in Workers : worker[w].pc = "converted" => Successful(worker[w].name)

\* A path is processed once in a run of the daemon: nobody comes back to one that
\* has a retry.
Tried == {"taken", "converting", "converted", "failed"}
ProcessedOnce ==
    /\ Starting => \A n \in Names : ~retryq[n].known
    /\ observer.pc \in {"dedup", "settle"} => observer.name \notin processed
    /\ \A n \in Names : retryq[n].known =>
          /\ n \in processing \cup processed /\ ~Queued(n)
          /\ \A w \in Workers : worker[w].name = n => worker[w].pc \notin Tried

\* So no failure is the second one of its path, and nothing gets into .errors.
NothingRejected ==
    /\ \A w \in Workers : worker[w].pc # "rejected"
    /\ \A i \in Items : place[i] # "errors"

Handled ==
    /\ StillThere /\ Unrecorded /\ RecordedFirst /\ ProcessedOnce
    /\ NothingRejected /\ OutcomeRecorded

\* What holds of a path stays while its files, its rows and their histories stay.
LEMMA PathStays ==
    ASSUME UNCHANGED <<db, lost, early>>, NEW n,
           \A i \in Items : NameOf[i] = n => place'[i] = place[i]
    PROVE  /\ InWatch(n)' <=> InWatch(n)
           /\ Fresh(n)' <=> Fresh(n)
           /\ Successful(n)' <=> Successful(n)
  <1>1. Now(n)' = Now(n)
    BY DEF Now
  <1>2. InWatch(n)' <=> InWatch(n)
    BY DEF InWatch, InDir
  <1> QED  BY <1>1, <1>2 DEF Fresh, Successful, Row, Success

\* A lookup that lets a path through lets it through without a row of the size it saw,
\* and says nothing of other paths.
LEMMA LookedUp ==
    ASSUME UNCHANGED <<place, db>>, NEW n, NEW s, LetThrough(n, s), ~Row(n, s)
    PROVE  Fresh(n)' /\ \A m : Fresh(m) => Fresh(m)'
  <1>1. \A m : Now(m)' = Now(m)
    BY DEF Now
  <1>2. \A m, t : Row(m, t)' <=> Row(m, t)
    BY DEF Row
  <1>3. Fresh(n)'
    <2> SUFFICES ASSUME NEW i \in Now(n)', i \notin early' PROVE ~Row(n, SizeOf[i])'
      BY DEF Fresh
    <2>1. SizeOf[i] = s
      BY <1>1 DEF LetThrough
    <2> QED  BY <1>2, <2>1
  <1>4. ASSUME NEW m, Fresh(m) PROVE Fresh(m)'
    <2>1. CASE m = n
      BY <1>3, <2>1
    <2>2. CASE m # n
      <3>1. \A i \in Now(m) : i \notin Now(n)
        BY <2>2 DEF Now
      <3>2. \A i \in Now(m) : i \in early => i \in early'
        BY <3>1 DEF LetThrough
      <3> QED  BY <1>1, <1>2, <1>4, <3>2 DEF Fresh
    <2> QED  BY <2>1, <2>2
  <1> QED  BY <1>3, <1>4

\* A worker that goes on with its path, or leaves it.
Onward(w) ==
    LET at == worker[w].pc  then == worker'[w].pc
    IN  /\ then \in Tried => at \in Tried /\ worker'[w].name = worker[w].name
        /\ then = "taken" => at = "taken"
        /\ then = "converting" => at \in {"taken", "converting"}
        /\ then = "converted" => at = "converted"
        /\ then # "rejected"

LEMMA OnwardSame ==
    ASSUME NothingRejected, NEW w \in Workers, worker'[w] = worker[w]
    PROVE  Onward(w)
  BY DEF Onward, NothingRejected

\* Only the files of one path m move, which nobody is at afterwards.
LEMMA HandledElsewhere ==
    ASSUME Handled, NEW m,
           \A i \in Items : NameOf[i] # m => place'[i] = place[i],
           UNCHANGED <<db, lost, early, queue, observer, retryq, processing, processed, main>>,
           \A w \in Workers : Onward(w), ~Queued(m), observer.pc = "settle" => observer.name # m,
           \A w \in Workers : worker'[w].pc \in {"taken", "converting", "converted"}
                                  => worker'[w].name # m
    PROVE  StillThere' /\ Unrecorded' /\ RecordedFirst' /\ ProcessedOnce'
  <1>1. \A n : n # m => /\ InWatch(n)' <=> InWatch(n)
                        /\ Fresh(n)' <=> Fresh(n)
                        /\ Successful(n)' <=> Successful(n)
    BY PathStays
  <1>3. \A k \in 1..Len(queue) : queue[k] # m
    BY DEF Queued
  <1>4. StillThere'
    BY <1>1, <1>3 DEF Handled, StillThere, Onward, Tried
  <1>5. Unrecorded'
    BY <1>1, <1>3 DEF Handled, Unrecorded, Onward, Tried
  <1>6. RecordedFirst'
    BY <1>1 DEF Handled, RecordedFirst, Onward, Tried
  <1>7. ProcessedOnce'
    BY DEF Handled, ProcessedOnce, Starting, Queued, Onward
  <1> QED  BY <1>4, <1>5, <1>6, <1>7

\* A step that leaves files, rows and the queue alone and makes no path known to have
\* a retry.
LEMMA HandledStable ==
    ASSUME Handled, UNCHANGED <<place, db, lost, early, queue>>,
           \A n \in Names : retryq'[n].known => retryq[n].known,
           processing \cup processed \subseteq processing' \cup processed',
           Starting' => Starting, \A w \in Workers : Onward(w),
           observer'.pc = "settle" => observer' = observer,
           observer'.pc \in {"dedup", "settle"} => observer'.name \notin processed'
    PROVE  Handled'
  <1>1. OutcomeRecorded'
    BY DEF Handled, OutcomeRecorded
  <1>2. \A n : /\ InWatch(n)' <=> InWatch(n)
               /\ Fresh(n)' <=> Fresh(n)
               /\ Successful(n)' <=> Successful(n)
    BY PathStays
  <1>4. StillThere'
    BY <1>2 DEF Handled, StillThere, Onward, Tried
  <1>5. Unrecorded'
    BY <1>2 DEF Handled, Unrecorded, Onward, Tried
  <1>6. RecordedFirst'
    BY <1>2 DEF Handled, RecordedFirst, Onward, Tried
  <1>7. ProcessedOnce'
    BY DEF Handled, ProcessedOnce, Queued, Onward
  <1>8. NothingRejected'
    BY DEF Handled, NothingRejected, Onward
  <1> QED  BY <1>1, <1>4, <1>5, <1>6, <1>7, <1>8 DEF Handled

\* A path without row and retry is queued, of a file that is there.
LEMMA HandledPut ==
    ASSUME TypeOK, Handled, NEW n \in Names, Put(n), InWatch(n), Fresh(n)',
           \A m : Fresh(m) => Fresh(m)',
           ~retryq[n].known, processing' = processing \cup {n}, observer' = Idle,
           UNCHANGED <<place, db, lost, retryq, processed, worker, main>>
    PROVE  Handled'
  <1>1. /\ Len(queue') = Len(queue) + 1 /\ Len(queue) \in Nat
        /\ queue'[Len(queue) + 1] = n
        /\ \A k \in 1..Len(queue) : queue'[k] = queue[k]
    BY DEF Put, TypeOK
  <1>2. \A k \in 1..Len(queue') : queue'[k] = n \/ k \in 1..Len(queue)
    BY <1>1
  <1>3. OutcomeRecorded'
    BY DEF Handled, OutcomeRecorded
  <1>4. \A m : (InWatch(m)' <=> InWatch(m)) /\ (Successful(m) => Successful(m)')
    BY DEF InWatch, InDir, Successful, Now, Success
  <1>6. observer'.pc = "idle"
    BY DEF Idle
  <1>7. StillThere'
    BY <1>1, <1>2, <1>4, <1>6 DEF Handled, StillThere
  <1>8. Unrecorded'
    BY <1>1, <1>2, <1>6 DEF Handled, Unrecorded
  <1>9. RecordedFirst'
    BY <1>4 DEF Handled, RecordedFirst
  <1>10. \A m : Queued(m)' => Queued(m) \/ m = n
    BY <1>1, <1>2 DEF Queued
  <1>11. ProcessedOnce'
    BY <1>6, <1>10 DEF Handled, ProcessedOnce, Starting
  <1>12. NothingRejected'
    BY DEF Handled, NothingRejected
  <1> QED  BY <1>3, <1>7, <1>8, <1>9, <1>11, <1>12 DEF Handled

LEMMA HandledInit == Init => Handled
  <1> SUFFICES ASSUME Init PROVE Handled
    OBVIOUS
  <1>1. \A w \in Workers : worker[w].pc = "unborn"
    BY DEF Init, Unborn
  <1>2. observer.pc = "idle" /\ Len(queue) = 0
    BY DEF Init, Idle
  <1>3. \A n \in Names : ~retryq[n].known
    BY DEF Init, NoRetry
  <1>4. \A i \in Items : place[i] \in {"away", "watch"}
    BY DEF Init
  <1>6. StillThere /\ Unrecorded /\ RecordedFirst
    BY <1>1, <1>2 DEF StillThere, Unrecorded, RecordedFirst
  <1>7. ProcessedOnce /\ NothingRejected /\ OutcomeRecorded
    BY <1>1, <1>2, <1>3, <1>4 DEF ProcessedOnce, NothingRejected, OutcomeRecorded
  <1> QED  BY <1>6, <1>7 DEF Handled

\* The environment, the observer and the main thread: a path is queued once it has
\* been found without a row.
LEMMA HandledMain ==
    ASSUME Withdrawals = {}, TypeOK, SingleHolder, Handled,
           \/ \E i \in Items : Drop(i) \/ Copied(i) \/ Withdraw(i)
           \/ ObserverStep \/ MainStep
           \/ \E n \in Names : RetryDue(n) \/ ProcessRetry(n)
           \/ Pause \/ Resume \/ Drain \/ StopSignal \/ StopCommand \/ Crash
    PROVE  Handled'
  <1> USE DEF disk, table, intake, books, control
  <1>1. ASSUME NEW i \in Items, Drop(i) PROVE Handled'
    <2> DEFINE m == NameOf[i]
    <2>1. /\ ~InWatch(m) /\ place' = [place EXCEPT ![i] = "watch"]
          /\ \A j \in Items : NameOf[j] = m => place[j] # "watch"
          /\ UNCHANGED <<db, lost, early, queue, observer, retryq, processing, processed, main, worker>>
      BY <1>1 DEF Drop, InWatch, InDir
    <2>2. \A j \in Items : place'[j] = place[j] \/ (j = i /\ place'[j] = "watch")
      <3>1. place \in [Items -> Places] /\ place' = [place EXCEPT ![i] = "watch"]
        BY <2>1 DEF TypeOK
      <3> QED  BY ONLY <3>1
    <2>4. OutcomeRecorded' /\ NothingRejected'
      BY <2>1, <2>2 DEF Handled, OutcomeRecorded, NothingRejected
    <2>5. /\ ~Queued(m) /\ (observer.pc = "settle" => observer.name # m)
          /\ \A w \in Workers : worker'[w].pc \in {"taken", "converting", "converted"}
                                    => worker'[w].name # m
      BY <2>1 DEF Handled, StillThere, Queued
    <2>6. \A w \in Workers : Onward(w)
      BY <2>1, OnwardSame DEF Handled
    <2>7. \A j \in Items : NameOf[j] # m => place'[j] = place[j]
      BY <2>2
    <2>8. StillThere' /\ Unrecorded' /\ RecordedFirst' /\ ProcessedOnce'
      <3> HIDE DEF m
      <3> QED  BY <2>1, <2>5, <2>6, <2>7, HandledElsewhere
    <2> QED  BY <2>4, <2>8 DEF Handled
  <1>2. ASSUME NEW i \in Items, Withdraw(i) PROVE Handled'
    BY <1>2 DEF Withdraw
  <1>3. ASSUME UNCHANGED worker PROVE \A w \in Workers : Onward(w)
    BY <1>3, OnwardSame DEF Handled
  <1>14. ASSUME NEW i \in Items, Copied(i) PROVE Handled'
    <2>1. UNCHANGED <<place, db, lost, early, queue, retryq, processing, processed, observer,
                      worker, main>>
      BY <1>14 DEF Copied
    <2>2. observer.pc \in {"dedup", "settle"} => observer.name \notin processed
      BY DEF Handled, ProcessedOnce
    <2> QED  BY <1>3, <2>1, <2>2, HandledStable DEF Starting
  <1>4. observer.pc \in {"dedup", "settle"} => observer.name \notin processed
    BY DEF Handled, ProcessedOnce
  <1>5. CASE ObserverTake
    <2>1. UNCHANGED <<place, db, lost, early, queue, retryq, processing, processed, worker, main>>
      BY <1>5 DEF ObserverTake
    <2>2. /\ observer'.pc # "settle"
          /\ observer'.pc = "dedup" => observer'.name \notin processed
      BY <1>5 DEF ObserverTake, Known, Idle
    <2> QED  BY <1>3, <2>1, <2>2, HandledStable DEF Starting
  <1>6. CASE ObserverDedup
    <2>1. UNCHANGED <<place, db, lost, queue, retryq, processing, worker, main>>
      BY <1>6 DEF ObserverDedup
    <2>2. CASE /\ observer'.pc \notin {"dedup", "settle"} /\ processed \subseteq processed'
               /\ UNCHANGED early
      BY <1>3, <2>1, <2>2, HandledStable DEF Starting
    <2>3. ASSUME NEW s, ~Row(observer.name, s), LetThrough(observer.name, s),
                 InWatch(observer.name), observer' = [observer EXCEPT !.pc = "settle"],
                 UNCHANGED processed
          PROVE  Handled'
      <3>1. observer.pc = "dedup"
        BY <1>6 DEF ObserverDedup
      <3>2. observer \in [pc : {"dedup", "settle"}, name : Names]
        BY <3>1 DEF TypeOK, ObserverStates, Idle
      <3>3. observer'.pc = "settle" /\ observer'.name = observer.name
        BY <2>3, <3>2
      <3>4. OutcomeRecorded' /\ NothingRejected'
        BY <2>1 DEF Handled, OutcomeRecorded, NothingRejected
      <3>5. \A n : (InWatch(n)' <=> InWatch(n)) /\ (Successful(n) => Successful(n)')
        BY <2>1 DEF InWatch, InDir, Successful, Now, Success
      <3>6. Fresh(observer.name)' /\ \A n : Fresh(n) => Fresh(n)'
        <4> PICK m : m = observer.name
          OBVIOUS
        <4>1. Fresh(m)' /\ \A n : Fresh(n) => Fresh(n)'
          BY <2>1, <2>3, LookedUp
        <4>2. observer'.name = m
          BY <3>3
        <4> QED  BY <4>1, <4>2 DEF Fresh
      <3>7. StillThere'
        BY <2>1, <2>3, <3>3, <3>5 DEF Handled, StillThere
      <3>8. Unrecorded'
        BY <2>1, <3>3, <3>6 DEF Handled, Unrecorded
      <3>9. RecordedFirst'
        BY <2>1, <3>5 DEF Handled, RecordedFirst
      <3>10. ProcessedOnce'
        BY <1>4, <2>1, <2>3, <3>1, <3>3 DEF Handled, ProcessedOnce, Starting, Queued
      <3> QED  BY <3>4, <3>7, <3>8, <3>9, <3>10 DEF Handled
    <2> QED  BY <1>6, <2>2, <2>3 DEF ObserverDedup, Idle, IsDuplicate
  <1>7. CASE ObserverPut
    <2> DEFINE n == observer.name
    <2>1. n \in Names /\ n \notin processing /\ n \notin processed
      BY <1>4, <1>7 DEF ObserverPut, TypeOK, ObserverStates, Idle, SingleHolder,
         ObserverHoldsFresh
    <2>2. ~retryq[n].known
      BY <2>1 DEF Handled, ProcessedOnce
    <2>3. InWatch(n) /\ Fresh(n)
      BY <1>7 DEF ObserverPut, Handled, Unrecorded
    <2>4. /\ Put(n) /\ processing' = processing \cup {n} /\ observer' = Idle
          /\ UNCHANGED <<place, db, lost, early, retryq, processed, worker, main>>
      BY <1>7 DEF ObserverPut
    <2> HIDE DEF n
    <2>5. \A l : Fresh(l) => Fresh(l)'
      BY <2>4, PathStays
    <2> QED  BY <2>1, <2>2, <2>3, <2>4, <2>5, HandledPut
  <1>8. ASSUME NEW n \in Names, Scan(n) PROVE Handled'
    <2>1. Starting /\ observer = Idle /\ observer' = Idle
      BY <1>8 DEF Scan, Starting, SingleHolder, QuietStart
    <2>2. UNCHANGED <<place, db, lost, retryq, processed, worker, main>>
      BY <1>8 DEF Scan
    <2>3. ASSUME NEW s, ~Row(n, s), LetThrough(n, s), InWatch(n), Put(n),
                 processing' = processing \cup {n}
          PROVE  Handled'
      <3>1. Fresh(n)' /\ \A m : Fresh(m) => Fresh(m)'
        BY <2>2, <2>3, LookedUp
      <3>2. ~retryq[n].known
        BY <2>1 DEF Handled, ProcessedOnce
      <3> QED  BY <2>1, <2>2, <2>3, <3>1, <3>2, HandledPut
    <2>4. CASE UNCHANGED <<queue, processing, early>>
      BY <1>3, <1>4, <2>1, <2>2, <2>4, HandledStable DEF Starting
    <2> QED  BY <1>8, <2>3, <2>4 DEF Scan, IsDuplicate
  <1>9. CASE \/ ObserverGiveUp \/ Start \/ StopSave \/ Exit
             \/ Pause \/ Resume \/ Drain \/ StopSignal \/ StopCommand
    <2>1. UNCHANGED <<place, db, lost, early, queue, retryq, processing, processed, worker>>
      BY <1>9 DEF ObserverGiveUp, Start, StopSave, Exit, Pause, Resume, Drain, StopSignal,
         StopCommand
    <2>2. observer' \in {observer, Idle} /\ (Starting' => Starting)
      BY <1>9 DEF ObserverGiveUp, Start, StopSave, Exit, Pause, Resume, Drain, StopSignal,
         StopCommand, Starting
    <2> QED  BY <1>3, <1>4, <2>1, <2>2, HandledStable DEF Idle
  <1>10. CASE ScanDone
    <2>1. /\ UNCHANGED <<place, db, lost, early, queue, retryq, processing, processed, observer>>
          /\ ~Starting'
      BY <1>10 DEF ScanDone, Starting
    <2>2. \A w \in Workers : worker'[w].pc \in {"idle", "ended"}
      BY <1>10 DEF ScanDone, Idle, Ended
    <2>3. \A w \in Workers : Onward(w)
      BY <2>2 DEF Onward, Tried
    <2> QED  BY <1>4, <2>1, <2>3, HandledStable
  <1>11. ASSUME NEW n \in Names, RetryDue(n) PROVE Handled'
    <2>1. UNCHANGED <<place, db, lost, early, queue, processing, processed, observer, worker, main>>
      BY <1>11 DEF RetryDue
    <2>2. \A m \in Names : retryq'[m].known => retryq[m].known
      BY <1>11 DEF RetryDue, TypeOK, RetryEntries
    <2> QED  BY <1>3, <1>4, <2>1, <2>2, HandledStable DEF Starting
  <1>12. ASSUME NEW n \in Names, ProcessRetry(n) PROVE Handled'
    BY <1>12 DEF ProcessRetry, InDir, Handled, NothingRejected
  <1>13. CASE Crash
    <2>1. /\ UNCHANGED <<place, db, lost>> /\ Len(queue') = 0 /\ observer'.pc = "idle"
          /\ \A w \in Workers : worker'[w].pc = "unborn"
          /\ \A n \in Names : ~retryq'[n].known
      BY <1>13 DEF Crash, Idle, Unborn, NoRetry
    <2>2. OutcomeRecorded' /\ NothingRejected'
      BY <2>1 DEF Handled, OutcomeRecorded, NothingRejected
    <2>3. StillThere' /\ Unrecorded' /\ RecordedFirst' /\ ProcessedOnce'
      BY <2>1 DEF StillThere, Unrecorded, RecordedFirst, ProcessedOnce
    <2> QED  BY <2>2, <2>3 DEF Handled
  <1> QED
    BY <1>1, <1>2, <1>5, <1>6, <1>7, <1>8, <1>9, <1>10, <1>11, <1>12, <1>13, <1>14
       DEF ObserverStep, MainStep

\* A worker that does not get its path from the queue just goes on with it.
LEMMA WorkerOnward ==
    ASSUME TypeOK, SingleHolder, Handled, NEW w \in Workers, WorkerStep(w), ~WorkerGet(w),
           ~ConvertOK(w), ~FailMark(w)
    PROVE  \A v \in Workers : Onward(v)
  <1> USE DEF disk, table, intake, books, control
  <1>1. ASSUME NEW v \in Workers, v # w PROVE Onward(v)
    <2>1. worker'[v] = worker[v]
      BY <1>1 DEF WorkerStep, WorkerEnd, WorkerBegin, ConvertFail, Archive, FailRetry, FailMove,
         Finish, HandlerError, RunSubmitted, LoopTest, Goto, TypeOK
    <2> QED  BY <2>1, OnwardSame DEF Handled
  <1>2. CASE RunSubmitted(w)
    BY <1>2, OnwardSame DEF RunSubmitted, Handled
  <1>3. ASSUME LoopTest(w) PROVE Onward(w)
    <2>1. worker'[w] \in {Idle, Ended}
      BY <1>3 DEF LoopTest, TypeOK
    <2>2. worker'[w].pc \notin Tried \cup {"rejected"}
      BY <2>1 DEF Tried, Idle, Ended
    <2> QED  BY <2>2 DEF Onward, Tried
  <1>4. ASSUME NEW to, Goto(w, to), to \in {"done", "failed", "converting", "stuck"},
               to = "converting" => At(w, "taken"),
               to = "failed" => worker[w].pc \in Tried
        PROVE  Onward(w)
    <2>1. worker'[w] = [worker[w] EXCEPT !.pc = to]
      BY <1>4 DEF Goto, TypeOK
    <2>2. worker[w] \in [pc : Busy, name : Names] \cup {Unborn, Idle, Ended}
      BY DEF TypeOK, WorkerStates
    <2>3. worker'[w].pc = to /\ worker'[w].name = worker[w].name
      BY <2>1, <2>2 DEF Unborn, Idle, Ended
    <2> QED  BY <1>4, <2>3 DEF Onward, Tried, At
  <1>5. Onward(w)
    <2>1. CASE WorkerEnd(w) \/ HandlerError(w)
      BY <1>3, <2>1 DEF WorkerEnd, HandlerError
    <2>2. CASE Finish(w)
      BY <1>3, <1>4, <2>2 DEF Finish
    <2>3. CASE WorkerBegin(w)
      BY <1>4, <2>3 DEF WorkerBegin, At, Tried
    <2>4. CASE ConvertFail(w) \/ Archive(w)
      BY <1>4, <2>4 DEF ConvertFail, Archive, At, Tried
    <2>5. CASE FailRetry(w) \/ FailMove(w)
      BY <1>4, <2>5 DEF FailRetry, FailMove
    <2> QED  BY <1>2, <2>1, <2>2, <2>3, <2>4, <2>5 DEF WorkerStep
  <1> QED  BY <1>1, <1>5

\* A worker takes a path that has no row and no retry.
LEMMA HandledGet ==
    ASSUME TypeOK, SingleHolder, Handled, NEW w \in Workers, WorkerGet(w)
    PROVE  Handled'
  <1> DEFINE n == Head(queue)
  <1> USE DEF disk, table, intake, books, control
  <1>1. /\ Len(queue) \in Nat /\ Len(queue) > 0 /\ n = queue[1]
        /\ Len(queue') = Len(queue) - 1
        /\ \A k \in 1..Len(queue') : queue'[k] = queue[k + 1]
    BY DEF WorkerGet, TypeOK
  <1>2. /\ worker'[w].pc = "taken" /\ worker'[w].name = n
        /\ \A v \in Workers : v # w => worker'[v] = worker[v]
        /\ UNCHANGED <<place, db, lost, early, main, observer, processing, processed, retryq>>
    BY DEF WorkerGet, TypeOK
  <1>3. OutcomeRecorded' /\ NothingRejected'
    BY <1>2 DEF Handled, OutcomeRecorded, NothingRejected
  <1>4. \A m : /\ InWatch(m)' <=> InWatch(m)
               /\ Fresh(m)' <=> Fresh(m)
               /\ Successful(m)' <=> Successful(m)
    BY <1>2, PathStays
  <1>6. 1 \in 1..Len(queue) /\ \A k \in 1..Len(queue') : k + 1 \in 1..Len(queue)
    BY <1>1
  <1>7. Queued(n) /\ \A m : Queued(m)' => Queued(m)
    BY <1>1, <1>6 DEF Queued
  <1> HIDE DEF n
  <1>8. StillThere'
    BY <1>1, <1>2, <1>4, <1>6 DEF Handled, StillThere
  <1>9. Unrecorded'
    BY <1>1, <1>2, <1>4, <1>6 DEF Handled, Unrecorded
  <1>10. RecordedFirst'
    BY <1>2, <1>4 DEF Handled, RecordedFirst
  <1>11. ProcessedOnce'
    BY <1>2, <1>7 DEF Handled, ProcessedOnce, Starting
  <1> QED  BY <1>3, <1>8, <1>9, <1>10, <1>11 DEF Handled

\* The path of a busy worker is nowhere else.
LEMMA BusyAlone ==
    ASSUME SingleHolder, NEW w \in Workers, worker[w].pc \in Busy
    PROVE  /\ ~Queued(worker[w].name) /\ worker[w].name \in processing
           /\ observer.pc \in {"dedup", "settle"} => observer.name # worker[w].name
           /\ \A v \in Workers : v # w /\ worker[v].pc \in Busy
                                     => worker[v].name # worker[w].name
           /\ ~Starting
  <1>1. worker[w] # Unborn
    BY DEF Busy, Unborn
  <1> QED  BY <1>1 DEF SingleHolder, QueueNotBusy, Claimed, ObserverHoldsFresh,
              OneWorkerPerFile, QuietStart, Starting

\* The success row of a path is there afterwards or counted as lost, no other path
\* gets a row, and none loses a success row.
LEMMA MarkSuccess ==
    ASSUME NEW n, MarkProcessed(n, "success")
    PROVE  /\ \A m, s : Success(m, s) => Success(m, s)'
           /\ \A m, s : m # n => (Row(m, s)' => Row(m, s))
           /\ \A i \in Items \ Now(n) : i \in lost' <=> i \in lost
           /\ \A i \in Now(n) : i \in lost' \/ Success(n, SizeOf[i])'
  <1>1. CASE RowLost(n)
    BY <1>1 DEF RowLost, Success, Row
  <1>2. ASSUME NEW t, Written(n, t),
               db' = {r \in db : r.name # n \/ r.size # t}
                        \cup {[name |-> n, size |-> t, status |-> "success"]}
        PROVE  /\ \A m, s : Success(m, s) => Success(m, s)'
               /\ \A m, s : m # n => (Row(m, s)' => Row(m, s))
               /\ \A i \in Items \ Now(n) : i \in lost' <=> i \in lost
               /\ \A i \in Now(n) : i \in lost' \/ Success(n, SizeOf[i])'
    <2>1. Success(n, t)'
      <3>1. [name |-> n, size |-> t, status |-> "success"] \in db'
        BY <1>2
      <3> QED  BY <3>1 DEF Success
    <2>2. ASSUME NEW m, NEW s, Success(m, s) PROVE Success(m, s)'
      <3>1. PICK r \in db : r.name = m /\ r.size = s /\ r.status = "success"
        BY <2>2 DEF Success
      <3>2. CASE r.name # n \/ r.size # t
        BY <1>2, <3>1, <3>2 DEF Success
      <3>3. CASE r.name = n /\ r.size = t
        BY <2>1, <3>1, <3>3
      <3> QED  BY <3>2, <3>3
    <2>3. \A m, s : m # n => (Row(m, s)' => Row(m, s))
      BY <1>2 DEF Row
    <2>4. \A i \in Items \ Now(n) : i \in lost' <=> i \in lost
      BY <1>2 DEF Written
    <2>5. \A i \in Now(n) : i \in lost' \/ Success(n, SizeOf[i])'
      BY <1>2, <2>1 DEF Written
    <2> QED  BY <2>2, <2>3, <2>4, <2>5
  <1> QED  BY <1>1, <1>2 DEF MarkProcessed

\* The conversion succeeds: the success row comes before the move, and replaces no row
\* of another path.
LEMMA HandledConvert ==
    ASSUME TypeOK, SingleHolder, Handled, NEW w \in Workers, ConvertOK(w)
    PROVE  Handled'
  <1> PICK n : n = worker[w].name
    OBVIOUS
  <1> USE DEF disk, table, intake, books, control
  <1>1. /\ worker[w].pc = "converting" /\ worker[w].pc \in Busy
        /\ UNCHANGED <<place, early, main, observer, queue, processing, processed>>
        /\ Goto(w, "converted") /\ MarkProcessed(n, "success")
        /\ retryq' = [retryq EXCEPT ![n] = NoRetry]
    BY DEF ConvertOK, At, Busy
  <1>2. /\ worker'[w].pc = "converted" /\ worker'[w].name = n
        /\ \A v \in Workers : v # w => worker'[v] = worker[v]
    <2>1. worker[w] \in [pc : Busy, name : Names]
      BY <1>1 DEF TypeOK, WorkerStates, Busy, Unborn, Idle, Ended
    <2> QED  BY <1>1, <2>1 DEF Goto, TypeOK
  <1>3. /\ ~Queued(n)
        /\ observer.pc \in {"dedup", "settle"} => observer.name # n
        /\ \A v \in Workers : v # w /\ worker[v].pc \in Busy => worker[v].name # n
    BY <1>1, BusyAlone
  <1>4. \A m \in Names : retryq'[m].known => retryq[m].known
    BY <1>1 DEF TypeOK, NoRetry, RetryEntries
  <1>5. /\ \A m, s : Success(m, s) => Success(m, s)'
        /\ \A m, s : m # n => (Row(m, s)' => Row(m, s))
        /\ \A i \in Items \ Now(n) : i \in lost' <=> i \in lost
        /\ \A i \in Now(n) : i \in lost' \/ Success(n, SizeOf[i])'
    BY <1>1, MarkSuccess
  <1>6. NothingRejected'
    BY <1>1, <1>2 DEF Handled, NothingRejected
  <1>7. \A m : (InWatch(m)' <=> InWatch(m)) /\ Now(m)' = Now(m) /\ Now(m) \subseteq Items
    BY <1>1 DEF InWatch, InDir, Now
  <1>8. \A m : m # n => (Fresh(m) => Fresh(m)') /\ (Successful(m) => Successful(m)')
    <2>1. \A m : m # n => \A i \in Now(m) : i \notin Now(n)
      BY DEF Now
    <2> QED  BY <1>1, <1>5, <1>7, <2>1 DEF Fresh, Successful
  <1>9. Successful(n)'
    BY <1>5, <1>7 DEF Successful
  <1>10. OutcomeRecorded'
    <2> SUFFICES ASSUME NEW i \in Items, i \notin lost', NEW d \in {"processed", "errors"},
                        place'[i] = d
                 PROVE  \E r \in db' : /\ r.name = NameOf[i] /\ r.size = SizeOf[i]
                                       /\ (r.status = "success") = (d = "processed")
      BY DEF OutcomeRecorded
    <2>1. d = "processed" /\ place[i] = "processed"
      BY <1>1 DEF Handled, NothingRejected
    <2>2. i \notin lost
      BY <1>5, <2>1 DEF Now
    <2>3. Success(NameOf[i], SizeOf[i])
      BY <2>1, <2>2 DEF Handled, OutcomeRecorded, Success
    <2>4. Success(NameOf[i], SizeOf[i])'
      BY <1>5, <2>3
    <2> QED  BY <2>1, <2>4 DEF Success
  <1>11. StillThere'
    BY <1>1, <1>2, <1>7 DEF Handled, StillThere
  <1>12. Unrecorded'
    BY <1>1, <1>2, <1>3, <1>8 DEF Handled, Unrecorded, Queued, Busy
  <1>13. RecordedFirst'
    BY <1>2, <1>8, <1>9 DEF Handled, RecordedFirst
  <1>14. ProcessedOnce'
    BY <1>1, <1>2, <1>4 DEF Handled, ProcessedOnce, Starting, Queued, Tried
  <1> QED  BY <1>6, <1>10, <1>11, <1>12, <1>13, <1>14 DEF Handled

\* Its file is archived, or stays when the rename fails.
LEMMA HandledArchive ==
    ASSUME TypeOK, SingleHolder, Handled, NEW w \in Workers, Archive(w)
    PROVE  Handled'
  <1> PICK n : n = worker[w].name
    OBVIOUS
  <1> USE DEF disk, table, intake, books, control
  <1>1. /\ worker[w].pc = "converted" /\ worker[w].pc \in Busy
        /\ UNCHANGED <<db, lost, early, queue, observer, retryq, processing, processed, main>>
    BY DEF Archive, At, Busy
  <1>2. /\ ~Queued(n)
        /\ observer.pc \in {"dedup", "settle"} => observer.name # n
        /\ \A v \in Workers : v # w /\ worker[v].pc \in Busy => worker[v].name # n
    BY <1>1, BusyAlone
  <1>3. \A v \in Workers : Onward(v)
    BY WorkerOnward, <1>1 DEF WorkerStep, Archive, At, WorkerGet, ConvertOK, FailMark, Idle
  <1>4. CASE UNCHANGED place
    <2>1. observer.pc \in {"dedup", "settle"} => observer.name \notin processed
      BY DEF Handled, ProcessedOnce
    <2> QED  BY <1>1, <1>3, <1>4, <2>1, HandledStable DEF Starting
  <1>5. ASSUME NEW over \in BOOLEAN, Rename(n, "watch", "processed", over), Goto(w, "done")
        PROVE  Handled'
    <2>1. /\ worker'[w].pc = "done"
          /\ \A v \in Workers : v # w => worker'[v] = worker[v]
      <3>1. worker[w] \in [pc : Busy, name : Names]
        BY <1>1 DEF TypeOK, WorkerStates, Busy, Unborn, Idle, Ended
      <3> QED  BY <1>5, <3>1 DEF Goto, TypeOK
    <2>2. Successful(n)
      BY <1>1 DEF Handled, RecordedFirst
    <2>3. \A i \in Items : \/ place'[i] = place[i]
                           \/ NameOf[i] = n /\ place[i] = "watch" /\ place'[i] = "processed"
                           \/ NameOf[i] = n /\ place'[i] = "gone"
      BY <1>5 DEF Rename
    <2>4. NothingRejected'
      BY <2>1, <2>3 DEF Handled, NothingRejected
    <2>5. OutcomeRecorded'
      <3> SUFFICES ASSUME NEW i \in Items, i \notin lost', NEW d \in {"processed", "errors"},
                          place'[i] = d
                   PROVE  \E r \in db' : /\ r.name = NameOf[i] /\ r.size = SizeOf[i]
                                         /\ (r.status = "success") = (d = "processed")
        BY DEF OutcomeRecorded
      <3>1. CASE place[i] = d
        BY <1>1, <3>1 DEF Handled, OutcomeRecorded
      <3>2. CASE NameOf[i] = n /\ place[i] = "watch" /\ place'[i] = "processed"
        <4>1. i \in Now(n) \ lost
          BY <1>1, <3>2 DEF Now
        <4>2. Success(n, SizeOf[i])
          BY <2>2, <4>1 DEF Successful
        <4> QED  BY <1>1, <3>2, <4>2 DEF Success
      <3> QED  BY <2>3, <3>1, <3>2
    <2>6. \A v \in Workers : worker'[v].pc \in {"taken", "converting", "converted"}
                                 => worker'[v].name # n
      BY <1>2, <2>1 DEF Busy
    <2>7. \A i \in Items : NameOf[i] # n => place'[i] = place[i]
      BY <2>3
    <2>8. StillThere' /\ Unrecorded' /\ RecordedFirst' /\ ProcessedOnce'
      BY <1>1, <1>2, <1>3, <2>6, <2>7, HandledElsewhere
    <2> QED  BY <2>4, <2>5, <2>8 DEF Handled
  <1> QED  BY <1>4, <1>5 DEF Archive

\* The conversion failed: its path gets a retry, and nobody else has it.
LEMMA HandledRetry ==
    ASSUME TypeOK, SingleHolder, Handled, NEW w \in Workers, FailRetry(w)
    PROVE  Handled'
  <1> PICK n : n = worker[w].name
    OBVIOUS
  <1> USE DEF disk, table, intake, books, control
  <1>1. /\ worker[w].pc = "failed" /\ worker[w].pc \in Busy
        /\ UNCHANGED <<place, db, lost, early, queue, observer, processing, processed, main>>
        /\ Goto(w, "done")
    BY DEF FailRetry, At, Busy
  <1>2. /\ ~Queued(n) /\ n \in processing /\ ~Starting
        /\ \A v \in Workers : v # w /\ worker[v].pc \in Busy => worker[v].name # n
    BY <1>1, BusyAlone
  <1>3. \A v \in Workers : Onward(v)
    <2>1. ~WorkerGet(w) /\ ~ConvertOK(w)
      BY <1>1 DEF WorkerGet, ConvertOK, At, Idle
    <2>2. ~FailMark(w)
      BY DEF FailRetry, FailMark
    <2> QED  BY <2>1, <2>2, WorkerOnward DEF WorkerStep
  <1>4. /\ worker'[w].pc = "done"
        /\ \A v \in Workers : v # w => worker'[v] = worker[v]
    <2>1. worker[w] \in [pc : Busy, name : Names]
      BY <1>1 DEF TypeOK, WorkerStates, Busy, Unborn, Idle, Ended
    <2> QED  BY <1>1, <2>1 DEF Goto, TypeOK
  <1>5. \A m \in Names : m # n => retryq'[m] = retryq[m]
    BY DEF FailRetry, TypeOK
  <1>6. OutcomeRecorded' /\ NothingRejected'
    BY <1>1, <1>4 DEF Handled, OutcomeRecorded, NothingRejected
  <1>7. \A m : /\ InWatch(m)' <=> InWatch(m)
               /\ Fresh(m)' <=> Fresh(m)
               /\ Successful(m)' <=> Successful(m)
    BY <1>1, PathStays
  <1>9. StillThere' /\ Unrecorded'
    BY <1>1, <1>4, <1>7 DEF Handled, StillThere, Unrecorded
  <1>10. RecordedFirst'
    BY <1>1, <1>4, <1>7 DEF Handled, RecordedFirst
  <1>11. ProcessedOnce'
    BY <1>1, <1>2, <1>4, <1>5 DEF Handled, ProcessedOnce, Starting, Queued, Tried, Busy
  <1> QED  BY <1>6, <1>9, <1>10, <1>11 DEF Handled

LEMMA HandledWorker ==
    ASSUME TypeOK, SingleHolder, Handled, NEW w \in Workers, WorkerStep(w)
    PROVE  Handled'
  <1> USE DEF disk, table, intake, books, control
  <1>1. observer.pc \in {"dedup", "settle"} => observer.name \notin processed
    BY DEF Handled, ProcessedOnce
  <1>2. CASE WorkerGet(w)
    BY <1>2, HandledGet
  <1>3. CASE ConvertOK(w)
    BY <1>3, HandledConvert
  <1>4. CASE Archive(w)
    BY <1>4, HandledArchive
  <1>5. CASE FailRetry(w)
    BY <1>5, HandledRetry
  <1>6. CASE FailMark(w)
    <2>1. worker[w].pc = "failed" /\ worker[w].name \in Names
      BY <1>6, BusyName DEF FailMark, At, Busy, TypeOK
    <2>2. retryq[worker[w].name].known
      BY <1>6 DEF FailMark, ShouldRetry
    <2> QED  BY <2>1, <2>2 DEF Handled, ProcessedOnce, Tried
  <1>7. CASE FailMove(w)
    BY <1>7 DEF FailMove, At, Handled, NothingRejected
  <1>8. ASSUME ~WorkerGet(w), ~ConvertOK(w), ~FailMark(w)
        PROVE  \A v \in Workers : Onward(v)
    BY <1>8, WorkerOnward
  <1>9. CASE Finish(w)
    <2>1. UNCHANGED <<place, db, lost, early, queue, retryq, observer, main>>
      BY <1>9 DEF Finish
    <2>2. processing \cup processed \subseteq processing' \cup processed'
      BY <1>9 DEF Finish
    <2>3. observer.pc \in {"dedup", "settle"} => observer.name # worker[w].name
      BY <1>9, BusyAlone DEF Finish, At, Busy
    <2>4. observer'.pc \in {"dedup", "settle"} => observer'.name \notin processed'
      BY <1>1, <1>9, <2>1, <2>3 DEF Finish
    <2>5. \A v \in Workers : Onward(v)
      BY <1>8, <1>9 DEF Finish, At, WorkerGet, ConvertOK, FailMark, Idle
    <2> QED  BY <2>1, <2>2, <2>4, <2>5, HandledStable DEF Starting
  <1>10. CASE \/ WorkerEnd(w) \/ WorkerBegin(w) \/ ConvertFail(w)
              \/ HandlerError(w) \/ RunSubmitted(w)
    <2>1. UNCHANGED <<place, db, lost, early, queue, retryq, processing, processed, observer, main>>
      BY <1>10 DEF WorkerEnd, WorkerBegin, ConvertFail, HandlerError, RunSubmitted
    <2>2. CASE WorkerGet(w) \/ ConvertOK(w) \/ FailMark(w)
      BY <1>2, <1>3, <1>6, <2>2
    <2>3. CASE \A v \in Workers : Onward(v)
      BY <1>1, <2>1, <2>3, HandledStable DEF Starting
    <2> QED  BY <1>8, <2>2, <2>3
  <1> QED
    BY <1>2, <1>3, <1>4, <1>5, <1>6, <1>7, <1>9, <1>10 DEF WorkerStep

LEMMA HandledStep ==
    Withdrawals = {} /\ TypeOK /\ SingleHolder /\ Handled /\ [Next]_vars => Handled'
  <1> SUFFICES ASSUME Withdrawals = {}, TypeOK, SingleHolder, Handled, [Next]_vars
               PROVE  Handled'
    OBVIOUS
  <1>1. CASE Next
    BY <1>1, HandledMain, HandledWorker DEF Next
  <1>2. CASE UNCHANGED vars
    <2>1. UNCHANGED <<place, db, lost, early, queue, retryq, processing, processed, observer, main,
                      worker>>
      BY <1>2 DEF vars
    <2>2. \A w \in Workers : Onward(w)
      BY <2>1, OnwardSame DEF Handled
    <2>3. observer.pc \in {"dedup", "settle"} => observer.name \notin processed
      BY DEF Handled, ProcessedOnce
    <2> QED  BY <2>1, <2>2, <2>3, HandledStable DEF Starting
  <1> QED  BY <1>1, <1>2

LEMMA HandledAlways ==
    ASSUME ~ArrivalsDuringScan, Withdrawals = {}
    PROVE  Spec => []Handled
  <1>1. TypeOK /\ SingleHolder /\ Handled /\ [Next]_vars => Handled'
    BY HandledStep
  <1>2. SingleHolder /\ TypeOK /\ [Next]_vars => SingleHolder'
    BY HolderStep
  <1> QED  BY <1>1, <1>2, HolderInit, HandledInit, TypeCorrect, PTL DEF Spec

\* A file in .processed has a success row, and one in .errors a failed one, whatever
\* crash or restart came between, unless its row was lost (a failed INSERT that nobody
\* is told of, a file recorded while it was being copied): when files arrive after the
\* start-up scan and nobody takes them out of watch_dir, for any paths, files, copies,
\* workers and retries.
THEOREM OutcomesCorrect ==
    ASSUME ~ArrivalsDuringScan, Withdrawals = {}
    PROVE  Spec => []OutcomeRecorded
  <1>1. Handled => OutcomeRecorded
    BY DEF Handled
  <1> QED  BY <1>1, HandledAlways, PTL

\* Nothing is ever rejected: a path whose conversion failed once stays in watch_dir with
\* a retry that nobody comes back to, and the branch of _process_file that gives up, with
\* everything that waits for a file in .errors, is never reached.
THEOREM NeverRejected ==
    ASSUME ~ArrivalsDuringScan, Withdrawals = {}
    PROVE  Spec => []NothingRejected
  <1>1. Handled => NothingRejected
    BY DEF Handled
  <1> QED  BY <1>1, HandledAlways, PTL

\* A conversion starts only on a file whose name and size have no success row, in this
\* run of the daemon or after a restart, unless the file was looked up with a size it
\* did not keep.
THEOREM NoRepeat ==
    ASSUME ~ArrivalsDuringScan, Withdrawals = {}
    PROVE  Spec => NoRepeatConversion
  <1> DEFINE A == \A w \in Workers : \A i \in Items \ early :
                    worker'[w].pc = "converting" /\ worker[w].pc # "converting"
                      /\ i \in Now(worker'[w].name)
                        => ~ \E r \in db : /\ r.name = NameOf[i] /\ r.size = SizeOf[i]
                                           /\ r.status = "success"
  <1>1. TypeOK /\ Handled /\ [Next]_vars => A
    <2> SUFFICES ASSUME TypeOK, Handled, [Next]_vars, NEW w \in Workers,
                        worker'[w].pc = "converting", worker[w].pc # "converting"
                 PROVE  worker[w].pc = "taken" /\ worker'[w].name = worker[w].name
      BY DEF Handled, Unrecorded, Fresh, Now, Row
    <2> USE DEF disk, table, intake, books, control
    <2>1. CASE UNCHANGED worker
      BY <2>1
    <2>2. CASE \E v \in Workers : WorkerStep(v)
      <3> PICK v \in Workers : WorkerStep(v)
        BY <2>2
      <3>1. worker'[w] # worker[w] => v = w
        BY DEF WorkerStep, WorkerGet, WorkerEnd, WorkerBegin, ConvertOK, ConvertFail, Archive,
           FailRetry, FailMark, FailMove, Finish, HandlerError, RunSubmitted, LoopTest, Goto,
           TypeOK
      <3>2. v = w
        BY <3>1
      <3>3. WorkerBegin(w)
        <4>1. ~LoopTest(w)
          BY DEF LoopTest, TypeOK, Idle, Ended
        <4>2. \A to \in Busy : Goto(w, to) => to = "converting"
          BY DEF Goto, TypeOK, WorkerStates, Unborn, Idle, Ended
        <4>3. ~WorkerGet(w)
          BY DEF WorkerGet, TypeOK
        <4> QED
          BY <3>2, <4>1, <4>2, <4>3 DEF WorkerStep, WorkerEnd, ConvertOK, ConvertFail, Archive,
             FailRetry, FailMark, FailMove, Finish, HandlerError, RunSubmitted, Busy
      <3>4. worker[w].pc = "taken" /\ worker[w] \in [pc : Busy, name : Names]
        BY <3>3 DEF WorkerBegin, At, TypeOK, WorkerStates, Unborn, Idle, Ended
      <3> QED  BY <3>3, <3>4 DEF WorkerBegin, Goto, TypeOK
    <2>3. CASE ScanDone \/ Crash
      BY <2>3 DEF ScanDone, Crash, Idle, Ended, Unborn
    <2>4. UNCHANGED worker \/ (\E v \in Workers : WorkerStep(v)) \/ ScanDone \/ Crash
      <3>1. CASE UNCHANGED vars
        BY <3>1 DEF vars
      <3>2. CASE Next
        BY <3>2 DEF Next, Drop, Copied, Withdraw, ObserverStep, ObserverTake, ObserverDedup, ObserverPut,
           ObserverGiveUp, MainStep, Start, Scan, StopSave, Exit, RetryDue, ProcessRetry, Pause,
           Resume, Drain, StopSignal, StopCommand
      <3> QED  BY <3>1, <3>2
    <2> QED  BY <2>1, <2>2, <2>3, <2>4
  <1>2. NoRepeatConversion <=> [][A]_vars
    BY DEF NoRepeatConversion
  <1> HIDE DEF A
  <1> QED  BY <1>1, <1>2, HandledAlways, TypeCorrect, PTL DEF Spec

-----------------------------------------------------------------------------
(* DaemonStats: what is counted.                                           *)

\* Who starts a job has none, who completes one has one, and the main thread
\* does neither; a job is started or completed by the thread that has the lock.
StatsTyped ==
    /\ running \subseteq Workers \ {Main} /\ IsFiniteSet(current)
    /\ pc \in [Threads -> {"idle"} \cup Stats!Wanting \cup Stats!Inside]
    /\ name \in [Threads -> JobNames]
    /\ totals \in [processed : Nat, failed : Nat] /\ started \in Nat
    /\ \A t \in Threads :
        /\ pc[t] \in Stats!Inside => lock = t
        /\ pc[t] \in {"job_started", "starting"} => t # Main /\ t \notin running
        /\ pc[t] \in {"job_completed", "completing"} => t \in running

\* Every change of the table and of the totals keeps the sum with what was
\* started; in full when the table lists each thread that works by its name.
Distinct == \A t, u \in Threads \ {Main} : t # u => name[t] # name[u]
Counted == totals.processed + totals.failed + Cardinality(current)
Counts ==
    /\ Counted <= started
    /\ Distinct => current = {name[t] : t \in running} /\ Counted = started

StatsInv == StatsTyped /\ Counts

LEMMA Cardinal == \A S : Stats!Cardinality(S) = Cardinality(S)
BY DEF Stats!Cardinality, Cardinality

LEMMA StatsStart == ASSUME Stats!Init PROVE StatsInv
<1>1. IsFiniteSet({}) /\ Cardinality({}) = 0  BY FS_EmptySet
<1> QED  BY <1>1 DEF Stats!Init, StatsInv, StatsTyped, Counts, Counted, Stats!Wanting, Stats!Inside

LEMMA StatsTypedNext ==
    ASSUME StatsTyped, [Stats!Next]_statsVars PROVE StatsTyped'
<1> USE DEF StatsTyped, Stats!Wanting, Stats!Inside
<1>1. Main \in Threads /\ NoThread \notin Threads  BY ServiceAssumption DEF Stats!StatsAssumption
<1>2. CASE UNCHANGED statsVars  BY <1>2 DEF statsVars
<1>3. CASE Stats!MinutePasses  BY <1>3 DEF Stats!MinutePasses
<1>4. CASE Stats!CallSave  BY <1>1, <1>4 DEF Stats!CallSave, Stats!Goto
<1>5. CASE Stats!Signal  BY <1>1, <1>5 DEF Stats!Signal, Stats!Goto
<1>6. ASSUME NEW t \in Threads, Stats!CallJobStarted(t) PROVE StatsTyped'
  BY <1>1, <1>6 DEF Stats!CallJobStarted, Stats!Goto
<1>7. ASSUME NEW t \in Threads, Stats!CallJobCompleted(t) PROVE StatsTyped'
  BY <1>1, <1>7 DEF Stats!CallJobCompleted, Stats!Goto
<1>8. ASSUME NEW t \in Threads, Stats!CallGetSummary(t) PROVE StatsTyped'
  BY <1>1, <1>8 DEF Stats!CallGetSummary, Stats!Goto
<1>9. ASSUME NEW t \in Threads, Stats!Acquire(t) PROVE StatsTyped'
  BY <1>1, <1>9 DEF Stats!Acquire, Stats!Goto, Stats!Free
<1>10. ASSUME NEW t \in Threads, Stats!JobStarted(t) PROVE StatsTyped'
  <2>1. IsFiniteSet(current \cup {name[t]})  BY FS_AddElement
  <2>2. t \in Workers \ {Main}  BY <1>10 DEF Stats!JobStarted, Threads
  <2> QED  BY <1>1, <1>10, <2>1, <2>2 DEF Stats!JobStarted, Stats!Goto
<1>11. ASSUME NEW t \in Threads, Stats!JobCompleted(t) PROVE StatsTyped'
  <2>1. IsFiniteSet(current \ {name[t]})  BY FS_RemoveElement
  <2>2. current' = current \/ current' = current \ {name[t]}
    BY <1>11 DEF Stats!JobCompleted, Stats!Unlist
  <2>3. totals' \in [processed : Nat, failed : Nat]
    BY <1>11 DEF Stats!JobCompleted, Stats!Count
  <2>4. pc' = [pc EXCEPT ![t] = "save"] \/ pc' = [pc EXCEPT ![t] = "leave"]
    BY <1>11 DEF Stats!JobCompleted, Stats!Goto, Stats!SaveIfDue, Stats!ReturnEarly
  <2>5. /\ pc[t] = "completing" /\ running' = running \ {t}
        /\ lock' = lock /\ name' = name /\ started' = started
    BY <1>11 DEF Stats!JobCompleted
  <2> QED  BY <1>1, <2>1, <2>2, <2>3, <2>4, <2>5
<1>12. ASSUME NEW t \in Threads, Stats!Release(t) PROVE StatsTyped'
  BY <1>1, <1>12 DEF Stats!Release, Stats!Goto
<1> QED
  BY <1>2, <1>3, <1>4, <1>5, <1>6, <1>7, <1>8, <1>9, <1>10, <1>11, <1>12
  DEF Stats!Next, Stats!Step

LEMMA CountsNext ==
    ASSUME StatsInv, [Stats!Next]_statsVars PROVE Counts'
<1> USE DEF Counted
<1>1. Cardinality(current) \in Nat  BY FS_CardinalityType DEF StatsInv, StatsTyped
<1>2. totals.processed \in Nat /\ totals.failed \in Nat /\ started \in Nat
  BY DEF StatsInv, StatsTyped
<1>3. ASSUME NEW t \in Threads, Stats!JobStarted(t) PROVE Counts'
  <2>1. /\ current' = current \cup {name[t]} /\ started' = started + 1
        /\ totals' = totals /\ running' = running \cup {t} /\ name' = name
        /\ t # Main /\ t \notin running
    BY <1>3 DEF Stats!JobStarted, StatsInv, StatsTyped
  <2>2. Cardinality(current') =
            IF name[t] \in current THEN Cardinality(current) ELSE Cardinality(current) + 1
    BY <2>1, FS_AddElement DEF StatsInv, StatsTyped
  <2>3. Counted' <= started'  BY <1>1, <1>2, <2>1, <2>2 DEF StatsInv, Counts
  <2>4. ASSUME Distinct PROVE current' = {name[u] : u \in running'} /\ Counted' = started'
    <3>1. current = {name[u] : u \in running} /\ Counted = started
      BY <2>4 DEF StatsInv, Counts
    <3>2. \A u \in running : name[u] # name[t]
      BY <2>1, <2>4 DEF StatsInv, StatsTyped, Distinct, Threads
    <3>3. name[t] \notin current  BY <3>1, <3>2
    <3>4. current' = {name[u] : u \in running'}  BY <2>1, <3>1
    <3> QED  BY <1>1, <1>2, <2>1, <2>2, <3>1, <3>3, <3>4
  <2> QED  BY <2>1, <2>3, <2>4 DEF Counts, Distinct
<1>4. ASSUME NEW t \in Threads, Stats!JobCompleted(t) PROVE Counts'
  <2>1. /\ running' = running \ {t} /\ started' = started /\ name' = name /\ t \in running
        /\ running \subseteq Threads \ {Main}
    BY <1>4 DEF Stats!JobCompleted, StatsInv, StatsTyped, Threads
  <2>2. CASE name[t] \in current
    <3>1. current' = current \ {name[t]}
      BY <1>4, <2>2 DEF Stats!JobCompleted, Stats!Unlist
    <3>2. totals'.processed + totals'.failed = totals.processed + totals.failed + 1
      <4>1. PICK ok \in BOOLEAN : totals' = Stats!Count(ok)
        BY <1>4, <2>2 DEF Stats!JobCompleted
      <4> QED  BY <1>2, <4>1 DEF Stats!Count, StatsInv, StatsTyped
    <3>3. Cardinality(current') = Cardinality(current) - 1
      BY <2>2, <3>1, FS_RemoveElement DEF StatsInv, StatsTyped
    <3>5. totals'.processed + totals'.failed + Cardinality(current') = Counted
      BY <1>1, <1>2, <3>2, <3>3
    <3>4. ASSUME Distinct PROVE current' = {name[u] : u \in running'}
      <4>1. current = {name[u] : u \in running}  BY <3>4 DEF StatsInv, Counts
      <4>2. \A u \in running : u # t => name[u] # name[t]
        BY <2>1, <3>4 DEF Distinct
      <4> QED  BY <2>1, <3>1, <4>1, <4>2
    <3> QED  BY <2>1, <3>4, <3>5 DEF StatsInv, Counts, Distinct
  <2>3. CASE name[t] \notin current
    <3>1. current' = current /\ totals' = totals
      BY <1>4, <2>3 DEF Stats!JobCompleted
    <3>2. ~Distinct  BY <2>1, <2>3 DEF StatsInv, Counts
    <3> QED  BY <2>1, <3>1, <3>2 DEF StatsInv, Counts, Distinct
  <2> QED  BY <2>2, <2>3
<1>5. ASSUME UNCHANGED <<name, running, current, totals, started>> PROVE Counts'
  BY <1>5 DEF StatsInv, Counts, Distinct
<1> QED
  BY <1>3, <1>4, <1>5
  DEF Stats!Next, Stats!Step, statsVars, Stats!MinutePasses, Stats!CallSave, Stats!Signal,
      Stats!CallJobStarted, Stats!CallJobCompleted, Stats!CallGetSummary, Stats!Acquire,
      Stats!Release

\* When no call is in progress every job that was started is counted once, as
\* processed, as failed or as current, and never twice.
THEOREM EveryJobCounted == DaemonSpec => []Accounting
<1>1. WatcherInit \/ StatsInit => StatsInv  BY StatsStart DEF WatcherInit, StatsInit
<1>2. ASSUME StatsInv, [WatcherNext \/ StatsNext]_daemonVars PROVE StatsInv'
  <2>1. [Stats!Next]_statsVars
    BY <1>2 DEF WatcherNext, StatsNext, daemonVars
  <2> QED  BY <1>2, <2>1, StatsTypedNext, CountsNext DEF StatsInv
<1>3. StatsInv => Accounting
  BY Cardinal DEF StatsInv, Counts, Counted, Distinct, Accounting, Stats!Accounting
<1> QED  BY <1>1, <1>2, <1>3, PTL DEF DaemonSpec

-----------------------------------------------------------------------------
(* DaemonStats: the lock.                                                  *)

\* The lock is held by the thread that is in a with block, and by no thread that
\* has returned.
LockHeld ==
    /\ lock \in Threads \cup {NoThread}
    /\ \A t \in Threads : /\ pc[t] \in Stats!Inside => lock = t
                          /\ lock = t => pc[t] # "idle"

\* Without a minute, a stop and a signal, no call asks for the lock a second time.
Calm ==
    Triggers = {} => ~due /\ \A t \in Threads : pc[t] # "save" /\ (lock = t => pc[t] \in Stats!Inside)

LockInv == LockHeld /\ Calm /\ pc \in [Threads -> {"idle"} \cup Stats!Wanting \cup Stats!Inside]

LEMMA LockStart == ASSUME Stats!Init PROVE LockInv
BY ServiceAssumption
   DEF Stats!StatsAssumption, Stats!Init, LockInv, LockHeld, Calm, Stats!Wanting, Stats!Inside

LEMMA LockNext == ASSUME LockInv, [Stats!Next]_statsVars PROVE LockInv'
<1> USE DEF LockInv, LockHeld, Calm, Stats!Wanting, Stats!Inside, Stats!Goto
<1>0. Main \in Threads /\ NoThread \notin Threads
  BY ServiceAssumption DEF Stats!StatsAssumption
<1>1. CASE UNCHANGED statsVars  BY <1>1 DEF statsVars
<1>2. CASE Stats!MinutePasses  BY <1>2 DEF Stats!MinutePasses
<1>3. CASE Stats!CallSave  BY <1>0, <1>3 DEF Stats!CallSave
<1>4. CASE Stats!Signal  BY <1>0, <1>4 DEF Stats!Signal
<1>5. ASSUME NEW t \in Threads, Stats!CallJobStarted(t) PROVE LockInv'
  BY <1>5 DEF Stats!CallJobStarted
<1>6. ASSUME NEW t \in Threads, Stats!CallJobCompleted(t) PROVE LockInv'
  BY <1>6 DEF Stats!CallJobCompleted
<1>7. ASSUME NEW t \in Threads, Stats!CallGetSummary(t) PROVE LockInv'
  BY <1>7 DEF Stats!CallGetSummary
<1>8. ASSUME NEW t \in Threads, Stats!Acquire(t) PROVE LockInv'
  BY <1>0, <1>8 DEF Stats!Acquire, Stats!Free
<1>9. ASSUME NEW t \in Threads, Stats!JobStarted(t) PROVE LockInv'
  BY <1>9 DEF Stats!JobStarted
<1>10. ASSUME NEW t \in Threads, Stats!JobCompleted(t) PROVE LockInv'
  <2>1. \/ pc' = [pc EXCEPT ![t] = "leave"]
        \/ pc' = [pc EXCEPT ![t] = "save"] /\ due
    BY <1>10 DEF Stats!JobCompleted, Stats!SaveIfDue, Stats!ReturnEarly
  <2>2. pc[t] = "completing" /\ UNCHANGED <<lock, due>>  BY <1>10 DEF Stats!JobCompleted
  <2> QED  BY <2>1, <2>2
<1>11. ASSUME NEW t \in Threads, Stats!Release(t) PROVE LockInv'
  BY <1>0, <1>11 DEF Stats!Release
<1> QED  BY <1>1, <1>2, <1>3, <1>4, <1>5, <1>6, <1>7, <1>8, <1>9, <1>10, <1>11
         DEF Stats!Next, Stats!Step

LEMMA LockAlways == DaemonSpec => []LockInv
<1>1. WatcherInit \/ StatsInit => LockInv  BY LockStart DEF WatcherInit, StatsInit
<1>2. LockInv /\ [WatcherNext \/ StatsNext]_daemonVars => LockInv'
  <2>1. [WatcherNext \/ StatsNext]_daemonVars => [Stats!Next]_statsVars
    BY DEF WatcherNext, StatsNext, daemonVars
  <2> QED  BY <2>1, LockNext
<1> QED  BY <1>1, <1>2, PTL DEF DaemonSpec

\* The lock is free, or the thread that has it is in a with block and goes on, or
\* is the one thread that waits for it: no thread returns with the lock, and no two
\* are ever in a with block (job_started, job_completed, get_summary, save).
THEOREM LockComesBack ==
    DaemonSpec => [](/\ Stats!Free \/ Stats!Jammed \/ \E t \in Threads : lock = t /\ pc[t] \in Stats!Inside
                     /\ \A t, u \in Threads :
                          pc[t] \in Stats!Inside /\ pc[u] \in Stats!Inside => t = u)
<1>1. LockInv => /\ Stats!Free \/ Stats!Jammed \/ \E t \in Threads : lock = t /\ pc[t] \in Stats!Inside
                 /\ \A t, u \in Threads :
                      pc[t] \in Stats!Inside /\ pc[u] \in Stats!Inside => t = u
  BY DEF LockInv, LockHeld, Stats!Free, Stats!Jammed
<1> QED  BY <1>1, LockAlways, PTL

\* A thread that asks again for the lock it holds has stopped the statistics for good:
\* the lock stays with it, and nothing is counted any more (save within job_completed,
\* get_summary within save, the handler of SIGUSR1).
THEOREM JamLasts ==
    DaemonSpec => [][Stats!Jammed => /\ Stats!Jammed' /\ lock' = lock
                                     /\ UNCHANGED <<running, current, totals, started>>]_daemonVars
<1>0. Main \in Threads /\ NoThread \notin Threads
  BY ServiceAssumption DEF Stats!StatsAssumption
<1> DEFINE Stays == Stats!Jammed => /\ Stats!Jammed' /\ lock' = lock
                                    /\ UNCHANGED <<running, current, totals, started>>
<1>1. ASSUME LockInv, [Stats!Next]_statsVars, Stats!Jammed PROVE Stays
  <2> PICK t \in Threads : lock = t /\ pc[t] \in Stats!Wanting  BY <1>1 DEF Stats!Jammed
  <2> USE <1>0, <1>1 DEF LockInv, LockHeld, Stats!Wanting, Stats!Inside, Stats!Goto
  <2>1. ASSUME NEW u \in Threads, Stats!Step(u) PROVE FALSE
    BY <2>1 DEF Stats!Step, Stats!Acquire, Stats!Free, Stats!JobStarted, Stats!JobCompleted,
         Stats!Release
  <2>2. ASSUME UNCHANGED <<lock, running, current, totals, started>>, pc'[t] \in Stats!Wanting
        PROVE  Stays
    BY <2>2 DEF Stats!Jammed
  <2>3. CASE Stats!MinutePasses  BY <2>2, <2>3 DEF Stats!MinutePasses
  <2>4. CASE Stats!CallSave  BY <2>2, <2>4 DEF Stats!CallSave
  <2>5. CASE Stats!Signal  BY <2>2, <2>5 DEF Stats!Signal
  <2>6. ASSUME NEW u \in Threads,
               Stats!CallJobStarted(u) \/ Stats!CallJobCompleted(u) \/ Stats!CallGetSummary(u)
        PROVE  Stays
    BY <2>2, <2>6 DEF Stats!CallJobStarted, Stats!CallJobCompleted, Stats!CallGetSummary
  <2>7. CASE UNCHANGED statsVars  BY <2>2, <2>7 DEF statsVars
  <2> QED  BY <2>1, <2>3, <2>4, <2>5, <2>6, <2>7 DEF Stats!Next
<1>2. LockInv /\ [WatcherNext \/ StatsNext]_daemonVars => [Stays]_daemonVars
  <2>1. [WatcherNext \/ StatsNext]_daemonVars => [Stats!Next]_statsVars
    BY DEF WatcherNext, StatsNext, daemonVars
  <2> QED  BY <1>1, <2>1
<1> QED  BY <1>2, LockAlways, PTL DEF DaemonSpec

\* A save that goes on stops the statistics: with the lock it has got it asks for the
\* summary, which wants the lock (save, get_summary).  So no save ever ends.
THEOREM SavesJam ==
    DaemonSpec => [][\A t \in Threads : pc[t] = "save" => pc'[t] = "save" \/ Stats!Jammed']_daemonVars
<1> DEFINE Jams == \A t \in Threads : pc[t] = "save" => pc'[t] = "save" \/ Stats!Jammed'
<1>1. ASSUME LockInv, [Stats!Next]_statsVars PROVE Jams
  <2> USE <1>1 DEF LockInv, Stats!Goto
  <2>1. ASSUME NEW u \in Threads, Stats!Acquire(u), NEW t \in Threads, pc[t] = "save"
        PROVE  pc'[t] = "save" \/ Stats!Jammed'
    <3>1. CASE u = t
      <4>1. lock' = t /\ pc'[t] = "get_summary"  BY <2>1, <3>1 DEF Stats!Acquire
      <4> QED  BY <4>1 DEF Stats!Jammed, Stats!Wanting
    <3> QED  BY <2>1, <3>1 DEF Stats!Acquire
  <2>2. ASSUME NEW u \in Threads, Stats!JobStarted(u) \/ Stats!JobCompleted(u) \/ Stats!Release(u)
        PROVE  Jams
    BY <2>2 DEF Stats!JobStarted, Stats!JobCompleted, Stats!Release, Stats!SaveIfDue,
         Stats!ReturnEarly
  <2>3. ASSUME NEW u \in Threads,
               Stats!CallJobStarted(u) \/ Stats!CallJobCompleted(u) \/ Stats!CallGetSummary(u)
        PROVE  Jams
    BY <2>3 DEF Stats!CallJobStarted, Stats!CallJobCompleted, Stats!CallGetSummary
  <2>4. CASE Stats!MinutePasses \/ Stats!CallSave \/ Stats!Signal \/ UNCHANGED statsVars
    BY <2>4 DEF Stats!MinutePasses, Stats!CallSave, Stats!Signal, statsVars
  <2> QED  BY <2>1, <2>2, <2>3, <2>4 DEF Stats!Next, Stats!Step
<1>2. LockInv /\ [WatcherNext \/ StatsNext]_daemonVars => [Jams]_daemonVars
  <2>1. [WatcherNext \/ StatsNext]_daemonVars => [Stats!Next]_statsVars
    BY DEF WatcherNext, StatsNext, daemonVars
  <2> QED  BY <1>1, <2>1
<1> QED  BY <1>2, LockAlways, PTL DEF DaemonSpec

\* While no minute passes, nothing stops and no signal comes, no thread ever asks again
\* for the lock it holds.
THEOREM NoJamInCalm == ASSUME Triggers = {} PROVE DaemonSpec => []~Stats!Jammed
<1>1. LockInv => ~Stats!Jammed
  BY DEF LockInv, Calm, Stats!Jammed, Stats!Wanting, Stats!Inside
<1> QED  BY <1>1, LockAlways, PTL
=============================================================================
