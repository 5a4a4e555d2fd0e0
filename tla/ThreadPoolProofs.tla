--------------------------- MODULE ThreadPoolProofs ---------------------------
(***************************************************************************)
(* Safety of the worker pool for any number of workers.  Proved in three   *)
(* layers: the types, who may own a worker, and the wakeup argument.       *)
(***************************************************************************)
EXTENDS ThreadPool, TLAPS

\* Every variable keeps its type (thread_pool.cc, sync.cc run_thread, phy.cc stop).
THEOREM TypeCorrect == Spec => []TypeOK
<1>1. Init => TypeOK
  BY NofWorkersAssumption DEF Init, TypeOK, Worker, Status, WorkerPC, SyncPC, StopPC
<1>2. TypeOK /\ [Next]_vars => TypeOK'
  <2> SUFFICES ASSUME TypeOK, [Next]_vars PROVE TypeOK'
    OBVIOUS
  <2> USE NofWorkersAssumption DEF TypeOK, Worker, Status, WorkerPC, SyncPC, StopPC
  <2>1. ASSUME NEW w \in Worker, WorkerStep(w) PROVE TypeOK'
    BY <2>1 DEF WorkerStep, WorkerGoto, clientVars, Boot, LoopTest, WaitTest, Sleep, Begin,
       WorkDone, FinishIdle, FinishSignal
  <2>2. CASE SyncLoop
    BY <2>2 DEF SyncGoto, stopVars, SyncLoop
  <2>3. CASE ScanOne
    BY <2>3 DEF SyncGoto, stopVars, ScanOne
  <2>4. CASE ScanEnd
    BY <2>4 DEF SyncGoto, stopVars, ScanEnd
  <2>5. CASE Rescan
    BY <2>5 DEF SyncGoto, stopVars, Rescan
  <2>6. CASE TakeWorker
    BY <2>6 DEF SyncGoto, stopVars, TakeWorker
  <2>7. CASE Dispatch
    BY <2>7 DEF SyncGoto, stopVars, Dispatch, StartWorker
  <2>8. CASE Release
    BY <2>8 DEF SyncGoto, stopVars, Release
  <2>9. CASE RadioError
    BY <2>9 DEF SyncGoto, stopVars, RadioError
  <2>10. CASE StopSync
    BY <2>10 DEF StopGoto, StopSync
  <2>11. CASE StopPool
    BY <2>11 DEF StopGoto, StopPool
  <2>12. CASE StopFlag
    BY <2>12 DEF StopGoto, StopFlag
  <2>13. CASE StopSignal
    BY <2>13 DEF StopGoto, StopSignal
  <2>14. CASE StopJoin
    BY <2>14 DEF StopGoto, StopJoin, StartWorker
  <2>15. CASE UNCHANGED vars
    BY <2>15 DEF vars
  <2>16. QED
    BY <2>1, <2>2, <2>3, <2>4, <2>5, <2>6, <2>7, <2>8, <2>9, <2>10, <2>11, <2>12, <2>13, <2>14, <2>15
       DEF Next, SyncStep, Receive, StopStep, Terminated
<1>3. QED
  BY <1>1, <1>2, PTL DEF Spec

\* phy::stop joins the sync thread before it touches the pool, so its flags fall in order.
LEMMA StopOrderStep == TypeOK /\ StopOrder /\ [Next]_vars => StopOrder'
<1> SUFFICES ASSUME TypeOK, StopOrder, [Next]_vars PROVE StopOrder'
  OBVIOUS
<1> USE NofWorkersAssumption DEF TypeOK, Worker, Status, WorkerPC, SyncPC, StopPC, StopOrder
<1>1. ASSUME NEW v \in Worker, Boot(v) PROVE StopOrder'
  BY <1>1 DEF WorkerGoto, clientVars, Boot
<1>2. ASSUME NEW v \in Worker, LoopTest(v) PROVE StopOrder'
  BY <1>2 DEF WorkerGoto, clientVars, LoopTest
<1>3. ASSUME NEW v \in Worker, WaitTest(v) PROVE StopOrder'
  BY <1>3 DEF WorkerGoto, clientVars, WaitTest
<1>4. ASSUME NEW v \in Worker, Sleep(v) PROVE StopOrder'
  BY <1>4 DEF WorkerGoto, clientVars, Sleep
<1>5. ASSUME NEW v \in Worker, Begin(v) PROVE StopOrder'
  BY <1>5 DEF WorkerGoto, clientVars, Begin
<1>6. ASSUME NEW v \in Worker, WorkDone(v) PROVE StopOrder'
  BY <1>6 DEF WorkerGoto, clientVars, WorkDone
<1>7. ASSUME NEW v \in Worker, FinishIdle(v) PROVE StopOrder'
  BY <1>7 DEF WorkerGoto, clientVars, FinishIdle
<1>8. ASSUME NEW v \in Worker, FinishSignal(v) PROVE StopOrder'
  BY <1>8 DEF WorkerGoto, clientVars, FinishSignal
<1>9. CASE SyncLoop
  BY <1>9 DEF SyncGoto, stopVars, SyncLoop
<1>10. CASE ScanOne
  BY <1>10 DEF SyncGoto, stopVars, ScanOne
<1>11. CASE ScanEnd
  BY <1>11 DEF SyncGoto, stopVars, ScanEnd
<1>12. CASE Rescan
  BY <1>12 DEF SyncGoto, stopVars, Rescan
<1>13. CASE TakeWorker
  BY <1>13 DEF SyncGoto, stopVars, TakeWorker
<1>14. CASE Dispatch
  BY <1>14 DEF SyncGoto, stopVars, Dispatch, StartWorker
<1>15. CASE Release
  BY <1>15 DEF SyncGoto, stopVars, Release
<1>16. CASE RadioError
  BY <1>16 DEF SyncGoto, stopVars, RadioError
<1>17. CASE StopSync
  BY <1>17 DEF StopGoto, StopSync
<1>18. CASE StopPool
  BY <1>18 DEF StopGoto, StopPool
<1>19. CASE StopFlag
  BY <1>19 DEF StopGoto, StopFlag
<1>20. CASE StopSignal
  BY <1>20 DEF StopGoto, StopSignal
<1>21. CASE StopJoin
  BY <1>21 DEF StopGoto, StopJoin, StartWorker
<1>22. CASE UNCHANGED vars
  BY <1>22 DEF vars
<1>23. QED
  BY <1>1, <1>2, <1>3, <1>4, <1>5, <1>6, <1>7, <1>8, <1>9, <1>10, <1>11, <1>12, <1>13, <1>14, <1>15, <1>16, <1>17, <1>18, <1>19, <1>20, <1>21, <1>22
     DEF Next, WorkerStep, SyncStep, Receive, StopStep, Terminated

\* No step gives a worker a second owner.
LEMMA OwnershipStep == TypeOK /\ StopOrder /\ Ownership /\ [Next]_vars => Ownership'
<1> SUFFICES ASSUME TypeOK, StopOrder, Ownership, [Next]_vars PROVE Ownership'
  OBVIOUS
<1> USE NofWorkersAssumption DEF TypeOK, Worker, Status, WorkerPC, SyncPC, StopPC, StopOrder, Ownership
<1>1. ASSUME NEW v \in Worker, Boot(v) PROVE Ownership'
  BY <1>1 DEF WorkerGoto, clientVars, Boot
<1>2. ASSUME NEW v \in Worker, LoopTest(v) PROVE Ownership'
  BY <1>2 DEF WorkerGoto, clientVars, LoopTest
<1>3. ASSUME NEW v \in Worker, WaitTest(v) PROVE Ownership'
  BY <1>3 DEF WorkerGoto, clientVars, WaitTest
<1>4. ASSUME NEW v \in Worker, Sleep(v) PROVE Ownership'
  BY <1>4 DEF WorkerGoto, clientVars, Sleep
<1>5. ASSUME NEW v \in Worker, Begin(v) PROVE Ownership'
  BY <1>5 DEF WorkerGoto, clientVars, Begin
<1>6. ASSUME NEW v \in Worker, WorkDone(v) PROVE Ownership'
  BY <1>6 DEF WorkerGoto, clientVars, WorkDone
<1>7. ASSUME NEW v \in Worker, FinishIdle(v) PROVE Ownership'
  BY <1>7 DEF WorkerGoto, clientVars, FinishIdle
<1>8. ASSUME NEW v \in Worker, FinishSignal(v) PROVE Ownership'
  BY <1>8 DEF WorkerGoto, clientVars, FinishSignal
<1>9. CASE SyncLoop
  BY <1>9 DEF SyncGoto, stopVars, SyncLoop
<1>10. CASE ScanOne
  BY <1>10 DEF SyncGoto, stopVars, ScanOne
<1>11. CASE ScanEnd
  BY <1>11 DEF SyncGoto, stopVars, ScanEnd
<1>12. CASE Rescan
  BY <1>12 DEF SyncGoto, stopVars, Rescan
<1>13. CASE TakeWorker
  BY <1>13 DEF SyncGoto, stopVars, TakeWorker
<1>14. CASE Dispatch
  BY <1>14 DEF SyncGoto, stopVars, Dispatch, StartWorker
<1>15. CASE Release
  BY <1>15 DEF SyncGoto, stopVars, Release
<1>16. CASE RadioError
  BY <1>16 DEF SyncGoto, stopVars, RadioError
<1>17. CASE StopSync
  BY <1>17 DEF StopGoto, StopSync
<1>18. CASE StopPool
  BY <1>18 DEF StopGoto, StopPool
<1>19. CASE StopFlag
  BY <1>19 DEF StopGoto, StopFlag
<1>20. CASE StopSignal
  BY <1>20 DEF StopGoto, StopSignal
<1>21. CASE StopJoin
  BY <1>21 DEF StopGoto, StopJoin, StartWorker
<1>22. CASE UNCHANGED vars
  BY <1>22 DEF vars
<1>23. QED
  BY <1>1, <1>2, <1>3, <1>4, <1>5, <1>6, <1>7, <1>8, <1>9, <1>10, <1>11, <1>12, <1>13, <1>14, <1>15, <1>16, <1>17, <1>18, <1>19, <1>20, <1>21, <1>22
     DEF Next, WorkerStep, SyncStep, Receive, StopStep, Terminated

\* FinishSignal cannot run during a scan, so a worker idle behind the scan stays at sigq.
LEMMA ScanCoveredStep == TypeOK /\ StopOrder /\ Ownership /\ ScanCovered /\ [Next]_vars => ScanCovered'
<1> SUFFICES ASSUME TypeOK, StopOrder, Ownership, ScanCovered, [Next]_vars PROVE ScanCovered'
  OBVIOUS
<1> USE NofWorkersAssumption DEF TypeOK, Worker, Status, WorkerPC, SyncPC, StopPC, StopOrder, Ownership, ScanCovered
<1>1. ASSUME NEW v \in Worker, Boot(v) PROVE ScanCovered'
  BY <1>1 DEF WorkerGoto, clientVars, Boot
<1>2. ASSUME NEW v \in Worker, LoopTest(v) PROVE ScanCovered'
  BY <1>2 DEF WorkerGoto, clientVars, LoopTest
<1>3. ASSUME NEW v \in Worker, WaitTest(v) PROVE ScanCovered'
  BY <1>3 DEF WorkerGoto, clientVars, WaitTest
<1>4. ASSUME NEW v \in Worker, Sleep(v) PROVE ScanCovered'
  BY <1>4 DEF WorkerGoto, clientVars, Sleep
<1>5. ASSUME NEW v \in Worker, Begin(v) PROVE ScanCovered'
  BY <1>5 DEF WorkerGoto, clientVars, Begin
<1>6. ASSUME NEW v \in Worker, WorkDone(v) PROVE ScanCovered'
  BY <1>6 DEF WorkerGoto, clientVars, WorkDone
<1>7. ASSUME NEW v \in Worker, FinishIdle(v) PROVE ScanCovered'
  BY <1>7 DEF WorkerGoto, clientVars, FinishIdle
<1>8. ASSUME NEW v \in Worker, FinishSignal(v) PROVE ScanCovered'
  BY <1>8 DEF WorkerGoto, clientVars, FinishSignal
<1>9. CASE SyncLoop
  BY <1>9 DEF SyncGoto, stopVars, SyncLoop
<1>10. CASE ScanOne
  BY <1>10 DEF SyncGoto, stopVars, ScanOne
<1>11. CASE ScanEnd
  BY <1>11 DEF SyncGoto, stopVars, ScanEnd
<1>12. CASE Rescan
  BY <1>12 DEF SyncGoto, stopVars, Rescan
<1>13. CASE TakeWorker
  BY <1>13 DEF SyncGoto, stopVars, TakeWorker
<1>14. CASE Dispatch
  BY <1>14 DEF SyncGoto, stopVars, Dispatch, StartWorker
<1>15. CASE Release
  BY <1>15 DEF SyncGoto, stopVars, Release
<1>16. CASE RadioError
  BY <1>16 DEF SyncGoto, stopVars, RadioError
<1>17. CASE StopSync
  BY <1>17 DEF StopGoto, StopSync
<1>18. CASE StopPool
  BY <1>18 DEF StopGoto, StopPool
<1>19. CASE StopFlag
  BY <1>19 DEF StopGoto, StopFlag
<1>20. CASE StopSignal
  BY <1>20 DEF StopGoto, StopSignal
<1>21. CASE StopJoin
  BY <1>21 DEF StopGoto, StopJoin, StartWorker
<1>22. CASE UNCHANGED vars
  BY <1>22 DEF vars
<1>23. QED
  BY <1>1, <1>2, <1>3, <1>4, <1>5, <1>6, <1>7, <1>8, <1>9, <1>10, <1>11, <1>12, <1>13, <1>14, <1>15, <1>16, <1>17, <1>18, <1>19, <1>20, <1>21, <1>22
     DEF Next, WorkerStep, SyncStep, Receive, StopStep, Terminated

\* The inductive invariant of the pool.
THEOREM PoolInvariant == Spec => []PoolInv
<1>1. Init => PoolInv
  BY NofWorkersAssumption DEF Init, PoolInv, TypeOK, StopOrder, Ownership, ScanCovered,
     Worker, Status, WorkerPC, SyncPC, StopPC
<1>2. TypeOK /\ TypeOK' /\ PoolInv /\ [Next]_vars => PoolInv'
  BY StopOrderStep, OwnershipStep, ScanCoveredStep DEF PoolInv
<1>3. QED
  BY <1>1, <1>2, TypeCorrect, PTL DEF Spec

\* The sync thread never receives into the buffer of a worker that is processing.
THEOREM HeldIsQuietHolds == Spec => []HeldIsQuiet
<1>1. PoolInv => HeldIsQuiet
  BY DEF PoolInv, TypeOK, Ownership, HeldIsQuiet
<1>2. QED
  BY <1>1, PoolInvariant, PTL

\* wait_worker never sleeps past a hand-back, although find_finished_worker reads the
\* status table without the locks that guard it.
THEOREM NoLostWakeupHolds == Spec => []NoLostWakeup
<1>1. PoolInv => NoLostWakeup
  BY DEF PoolInv, ScanCovered, NoLostWakeup
<1>2. QED
  BY <1>1, PoolInvariant, PTL
===============================================================================
