------------------------- MODULE ChunkCount_proofs -------------------------
(***************************************************************************)
(* The end of phase 1.  The master starts phase 2 when done_workers has    *)
(* reached total_workers; here is why this means that every chunk has been *)
(* scanned to its end, and that the work queue it then fills is complete.  *)
(***************************************************************************)
EXTENDS JobPipeline_proofs

USE DEF vars, dbVars, jobVars, itemVars, natsVars, masterVars, createVars, watchVars,
        requestVars, workerVars, procVars, phase2Vars, scanVars, history

-----------------------------------------------------------------------------
(* The workers that may still report the end of their chunk.               *)
Scanners    == {w \in Worker : scanning[w]}
Outstanding == targets \cup chunkMsg \cup Scanners

countVars == <<targets, chunkMsg, scanning, doneWorkers, totalWorkers>>

(* A chunk is sent to a worker that was online, and without faults a       *)
(* worker that is online can hear it.                                      *)
UpInv ==
    /\ targets \subseteq online
    /\ faults = 0 => \A w \in online : proc[w] # "down"

(* A chunk is in one place at a time and is counted once.                  *)
CountInv ==
    /\ targets \cap chunkMsg = {}
    /\ \A w \in targets \cup chunkMsg : ~scanning[w]
    /\ createPc \in {"none", "resolve"} => targets = {}
    /\ createPc \in {"none", "resolve", "start"} =>
          /\ chunkMsg = {} /\ Scanners = {}
          /\ doneWorkers = 0 /\ totalWorkers = 0
    /\ createPc \in {"publish", "end"} /\ JobExists =>
          /\ doneWorkers + Cardinality(Outstanding) <= totalWorkers
          /\ faults = 0 => doneWorkers + Cardinality(Outstanding) = totalWorkers

(* Once the watcher has seen the count complete, nothing is outstanding,   *)
(* and once the queue is filled every stored address has its row.          *)
QueueInv ==
    requests = {} =>
        /\ watch1 \in {"populate", "advance"} \/ jobPhase # "phase1" =>
              /\ createPc \in {"publish", "end"}
              /\ targets = {} /\ chunkMsg = {}
              /\ \A w \in Worker : ~scanning[w]
        /\ watch1 = "advance" \/ jobPhase # "phase1" =>
              \A i \in found : queue[i] # "absent"

(* The master selects the workers that are online.                        *)
LEMMA UpMaster ==
  ASSUME TypeOK, UpInv,
         MasterStep \/ MasterRestart \/ MasterStatementFails
  PROVE  UpInv'
<1> USE DEF TypeOK, UpInv
<1>1. CASE \E w \in Worker : PublishChunk(w)   BY <1>1 DEF PublishChunk
<1>2. CASE CreateJob   BY <1>2 DEF CreateJob
<1>3. CASE ResolveFails   BY <1>3 DEF ResolveFails, SetStatus, JobExists
<1>4. CASE SelectWorkers   BY <1>4 DEF SelectWorkers
<1>5. CASE StartJob   BY <1>5 DEF StartJob, SetStatus, JobExists
<1>6. CASE SelectPhase1Jobs   BY <1>6 DEF SelectPhase1Jobs, Phase1Complete
<1>7. CASE PopulateWorkQueue   BY <1>7 DEF PopulateWorkQueue
<1>8. CASE AdvanceToPhase2   BY <1>8 DEF AdvanceToPhase2, SetPhase, JobExists
<1>9. CASE PublishPhase2   BY <1>9 DEF PublishPhase2
<1>10. CASE RecoverProcessing
    BY <1>10 DEF RecoverProcessing, Requeue, LostItems, ProcessingItems
<1>11. CASE SelectPhase2Jobs   BY <1>11 DEF SelectPhase2Jobs, Watch2Goto
<1>12. CASE CountUndone   BY <1>12 DEF CountUndone, Watch2Goto
<1>13. CASE CountUnverified   BY <1>13 DEF CountUnverified, Watch2Goto
<1>14. CASE AdvanceToPhase2b
    BY <1>14 DEF AdvanceToPhase2b, Watch2Phase, SetPhase, JobExists
<1>15. CASE FinishPhase
    BY <1>15 DEF FinishPhase, Watch2Phase, SetPhase, JobExists
<1>16. CASE FinishStatus   BY <1>16 DEF FinishStatus, SetStatus, JobExists
<1>17. CASE PurgeTlsOk   BY <1>17 DEF PurgeTlsOk
<1>18. CASE MasterCleanup   BY <1>18 DEF MasterCleanup
<1>19. CASE CancelStatus   BY <1>19 DEF CancelStatus, SetStatus, JobExists
<1>20. CASE CancelRequeue   BY <1>20 DEF CancelRequeue, Requeue, ProcessingItems
<1>21. CASE DeleteResults   BY <1>21 DEF DeleteResults
<1>22. CASE DeleteQueue   BY <1>22 DEF DeleteQueue
<1>23. CASE DeleteMasscan   BY <1>23 DEF DeleteMasscan
<1>24. CASE DeleteJobRow   BY <1>24 DEF DeleteJobRow
<1>25. CASE MasterRestart   BY <1>25 DEF MasterRestart
<1>26. CASE MasterStatementFails
    BY <1>26 DEF MasterStatementFails, DbFault, PopulateFails,
         CountFailsAtMaster
<1>. QED
  BY <1>1, <1>2, <1>3, <1>4, <1>5, <1>6, <1>7, <1>8, <1>9, <1>10, <1>11,
     <1>12, <1>13, <1>14, <1>15, <1>16, <1>17, <1>18, <1>19, <1>20, <1>21,
     <1>22, <1>23, <1>24, <1>25, <1>26 DEF MasterStep, CreateStep, Watch1Step,
     Watch2Step, CancelStep, DeleteStep

(* A worker registers before it can be selected.                          *)
LEMMA UpWorker ==
  ASSUME TypeOK, UpInv, NEW u \in Worker,
         WorkerStep(u) \/ CrashWorker(u) \/ LoseMessage(u) \/ FetchFails(u)
            \/ ReadFailsAtWorker(u) \/ FlushFails(u) \/ InsertHitFails(u)
            \/ ScanPanics(u) \/ VerifyPanics(u)
  PROVE  UpInv'
<1> USE DEF TypeOK, UpInv
<1>1. CASE StartWorker(u)   BY <1>1 DEF StartWorker
<1>2. CASE RegisterWorker(u)   BY <1>2 DEF RegisterWorker
<1>3. CASE SubscribePhase2(u)   BY <1>3 DEF SubscribePhase2
<1>4. CASE ReceiveChunk(u)   BY <1>4 DEF ReceiveChunk
<1>5. CASE InsertMasscanResults(u)   BY <1>5 DEF InsertMasscanResults
<1>6. CASE MarkPhase1Done(u)
    BY <1>6 DEF MarkPhase1Done, OneMoreDone, JobExists
<1>7. CASE ReceivePhase2(u)   BY <1>7 DEF ReceivePhase2, EnterPhase2
<1>8. CASE StartupPickup(u)   BY <1>8 DEF StartupPickup, EnterPhase2
<1>9. CASE Reconcile(u)   BY <1>9 DEF Reconcile, Goto
<1>10. CASE CheckCancelled(u)   BY <1>10 DEF CheckCancelled, Goto
<1>11. CASE FetchWorkBatch(u)
    BY <1>11 DEF FetchWorkBatch, Claim, Batches, Fetchable, PendingItems
<1>12. CASE ScanMiss(u)   BY <1>12 DEF ScanMiss
<1>13. CASE ScanHit(u)   BY <1>13 DEF ScanHit
<1>14. CASE MarkHit(u)   BY <1>14 DEF MarkHit, RowsDone
<1>15. CASE Flush(u)   BY <1>15 DEF Flush, RowsDone, Flushable
<1>16. CASE NextBatch(u)   BY <1>16 DEF NextBatch, Goto
<1>17. CASE CountUnfinished(u)   BY <1>17 DEF CountUnfinished, Goto, AfterScan
<1>18. CASE CheckUnverified(u)   BY <1>18 DEF CheckUnverified, Goto
<1>19. CASE CheckCancelled2b(u)   BY <1>19 DEF CheckCancelled2b, Goto
<1>20. CASE FetchUnverified(u)
    BY <1>20 DEF FetchUnverified, VerifyBatches, UnverifiedItems
<1>21. CASE VerifyRejects(u)   BY <1>21 DEF VerifyRejects, RejectRow
<1>22. CASE VerifyAccepts(u)   BY <1>22 DEF VerifyAccepts
<1>23. CASE MarkVerified(u)   BY <1>23 DEF MarkVerified, RowsDone
<1>24. CASE NextVerifyBatch(u)   BY <1>24 DEF NextVerifyBatch, Goto
<1>25. CASE CrashWorker(u)   BY <1>25 DEF CrashWorker
<1>26. CASE LoseMessage(u)   BY <1>26 DEF LoseMessage
<1>27. CASE FetchFails(u)
    BY <1>27 DEF FetchFails, DbFault, Claim, Batches, Fetchable, PendingItems
<1>28. CASE ReadFailsAtWorker(u)
    BY <1>28 DEF ReadFailsAtWorker, DbFault, AfterScan
<1>29. CASE FlushFails(u)   BY <1>29 DEF FlushFails, DbFault, Flushable
<1>30. CASE InsertHitFails(u)   BY <1>30 DEF InsertHitFails, DbFault
<1>31. CASE ScanPanics(u)   BY <1>31 DEF ScanPanics, PanicFault
<1>32. CASE VerifyPanics(u)   BY <1>32 DEF VerifyPanics, PanicFault
<1>. QED
  BY <1>1, <1>2, <1>3, <1>4, <1>5, <1>6, <1>7, <1>8, <1>9, <1>10, <1>11,
     <1>12, <1>13, <1>14, <1>15, <1>16, <1>17, <1>18, <1>19, <1>20, <1>21,
     <1>22, <1>23, <1>24, <1>25, <1>26, <1>27, <1>28, <1>29, <1>30, <1>31,
     <1>32 DEF WorkerStep, BootStep, Phase1Step, ScanStep, VerifyStep

(* The sets that are counted are finite.                                   *)
LEMMA OutstandingFinite ==
  ASSUME TypeOK
  PROVE  /\ IsFiniteSet(Outstanding)
         /\ Cardinality(Outstanding) \in Nat
<1>1. Outstanding \subseteq Worker /\ IsFiniteSet(Worker)
  BY PipelineAssumption DEF Outstanding, Scanners, TypeOK, PipelineAssumption
<1>2. IsFiniteSet(Outstanding)
  BY <1>1, FS_Subset
<1>. QED
  BY <1>2, FS_CardinalityType

(* A chunk that is lost lowers the number outstanding.                     *)
LEMMA OutstandingShrinks ==
  ASSUME TypeOK, Outstanding' \subseteq Outstanding
  PROVE  Cardinality(Outstanding') <= Cardinality(Outstanding)
BY OutstandingFinite, FS_Subset

(* Steps that move no chunk.                                               *)
LEMMA CountFrame ==
  ASSUME CountInv, UNCHANGED countVars, faults' = 0 => faults = 0,
         \/ createPc' = createPc /\ (JobExists' => JobExists)
         \/ createPc = "none" /\ createPc' = "resolve"
         \/ createPc = "resolve" /\ createPc' = "end"
  PROVE  CountInv'
<1>1. Scanners' = Scanners
  BY DEF Scanners, countVars
<1>2. Outstanding' = Outstanding
  BY <1>1 DEF Outstanding, countVars
<1>3. CASE createPc' = createPc /\ (JobExists' => JobExists)
  BY <1>1, <1>2, <1>3 DEF CountInv, countVars
<1>4. CASE createPc = "none" /\ createPc' = "resolve"
  BY <1>1, <1>2, <1>4 DEF CountInv, countVars
<1>5. CASE createPc = "resolve" /\ createPc' = "end"
  <2>1. Outstanding = {}
    BY <1>5 DEF CountInv, Outstanding
  <2>. QED
    BY <1>1, <1>2, <1>5, <2>1, FS_EmptySet DEF CountInv, countVars
<1>. QED
  BY <1>3, <1>4, <1>5

(* A chunk goes from the list to a message or is lost with it, is received,*)
(* scanned and counted.                                                    *)
LEMMA CountMaster ==
  ASSUME TypeOK, UpInv, CountInv,
         MasterStep \/ MasterRestart \/ MasterStatementFails
  PROVE  CountInv'
<1> USE DEF TypeOK
<1>1. CASE SelectWorkers
  <2>1. CASE online = {}
    <3>1. UNCHANGED countVars
      BY <1>1, <2>1 DEF SelectWorkers, CountInv, countVars
    <3>. QED
      BY <1>1, <2>1, <3>1, CountFrame DEF SelectWorkers
  <2>2. CASE online # {}
    <3>1. createPc' = "start"
      BY <1>1, <2>2 DEF SelectWorkers
    <3>2. Scanners' = {} /\ Scanners = {}
      BY <1>1 DEF SelectWorkers, CountInv, Scanners
    <3>. QED
      BY <1>1, <3>1, <3>2 DEF SelectWorkers, CountInv, Scanners
  <2>. QED
    BY <2>1, <2>2
<1>2. CASE StartJob
  <2>1. createPc' = "publish" /\ UNCHANGED <<targets, chunkMsg, scanning, doneWorkers>>
    BY <1>2 DEF StartJob
  <2>2. Scanners = {} /\ chunkMsg = {} /\ doneWorkers = 0
    BY <1>2 DEF StartJob, CountInv
  <2>3. Scanners' = {} /\ Outstanding' = targets
    BY <2>1, <2>2 DEF Scanners, Outstanding
  <2>4. JobExists' => totalWorkers' = Cardinality(targets)
    BY <1>2 DEF StartJob, SetStatus, JobExists
  <2>5. IsFiniteSet(targets) /\ Cardinality(targets) \in Nat
    BY PipelineAssumption, FS_Subset, FS_CardinalityType DEF PipelineAssumption
  <2>. QED
    BY <2>1, <2>2, <2>3, <2>4, <2>5 DEF CountInv
<1>3. ASSUME NEW w \in Worker, PublishChunk(w) PROVE CountInv'
  <2>1. /\ createPc = "publish" /\ createPc' \in {"publish", "end"}
        /\ w \in targets /\ targets' = targets \ {w}
        /\ UNCHANGED <<scanning, doneWorkers, totalWorkers, jobStatus, faults>>
    BY <1>3 DEF PublishChunk
  <2>2. Scanners' = Scanners
    BY <2>1 DEF Scanners
  <2>3. CASE proc[w] = "down"
    <3>1. faults' # 0
      BY <2>1, <2>3 DEF UpInv
    <3>2. chunkMsg' = chunkMsg
      BY <1>3, <2>3 DEF PublishChunk
    <3>3. Outstanding' \subseteq Outstanding
      BY <2>1, <2>2, <3>2 DEF Outstanding
    <3>4. IsFiniteSet(Outstanding') /\ Cardinality(Outstanding') \in Nat
      BY <3>3, OutstandingFinite, FS_Subset, FS_CardinalityType
    <3>5. Cardinality(Outstanding') <= Cardinality(Outstanding)
      BY <3>3, OutstandingShrinks
    <3>. QED
      BY <2>1, <2>2, <3>1, <3>2, <3>4, <3>5, OutstandingFinite DEF CountInv, JobExists
  <2>4. CASE proc[w] # "down"
    <3>1. chunkMsg' = chunkMsg \cup {w}
      BY <1>3, <2>4 DEF PublishChunk
    <3>2. Outstanding' = Outstanding
      BY <2>1, <2>2, <3>1 DEF Outstanding
    <3>. QED
      BY <2>1, <2>2, <3>1, <3>2 DEF CountInv, JobExists
  <2>. QED
    BY <2>3, <2>4
<1>4. CASE MasterRestart
  <2>1. /\ targets' = {} /\ faults' # 0
        /\ createPc' = IF createPc = "none" THEN "none" ELSE "end"
        /\ JobExists' => JobExists
        /\ UNCHANGED <<chunkMsg, scanning, doneWorkers, totalWorkers>>
    BY <1>4 DEF MasterRestart, JobExists
  <2>2. Scanners' = Scanners
    BY <2>1 DEF Scanners
  <2>3. Outstanding' \subseteq Outstanding
    BY <2>1, <2>2 DEF Outstanding
  <2>4. CASE createPc = "none"
    BY <2>1, <2>2, <2>4 DEF CountInv
  <2>5. CASE createPc \in {"resolve", "start"}
    <3>1. Outstanding' = {}
      BY <2>1, <2>2, <2>5 DEF CountInv, Outstanding
    <3>. QED
      BY <2>1, <2>2, <2>5, <3>1, FS_EmptySet DEF CountInv
  <2>6. CASE createPc \in {"publish", "end"}
    <3>1. Cardinality(Outstanding') <= Cardinality(Outstanding)
      BY <2>3, OutstandingShrinks
    <3>2. Cardinality(Outstanding') \in Nat
      BY <2>3, OutstandingFinite, FS_Subset, FS_CardinalityType
    <3>. QED
      BY <2>1, <2>2, <2>6, <3>1, <3>2, OutstandingFinite DEF CountInv
  <2>. QED
    BY <2>4, <2>5, <2>6
<1>5. CASE ~(SelectWorkers \/ StartJob \/ MasterRestart \/ \E w \in Worker : PublishChunk(w))
  <2>1. UNCHANGED countVars /\ (faults' = 0 => faults = 0)
    BY <1>5 DEF countVars, MasterStep, CreateStep, Watch1Step, Watch2Step, CancelStep,
       DeleteStep, CreateJob, ResolveFails, SelectPhase1Jobs, PopulateWorkQueue,
       AdvanceToPhase2, PublishPhase2, RecoverProcessing, SelectPhase2Jobs,
       CountUndone, CountUnverified, Watch2Goto, AdvanceToPhase2b, FinishPhase,
       Watch2Phase, FinishStatus, PurgeTlsOk, MasterCleanup, CancelStatus,
       CancelRequeue, DeleteResults, DeleteQueue, DeleteMasscan, DeleteJobRow,
       MasterStatementFails, DbFault
  <2>2. \/ createPc' = createPc /\ (JobExists' => JobExists)
        \/ createPc = "none" /\ createPc' = "resolve"
        \/ createPc = "resolve" /\ createPc' = "end"
    BY <1>5 DEF JobExists, SetStatus, MasterStep, CreateStep, Watch1Step, Watch2Step,
       CancelStep, DeleteStep, CreateJob, ResolveFails, SelectPhase1Jobs,
       PopulateWorkQueue, AdvanceToPhase2, PublishPhase2, RecoverProcessing,
       SelectPhase2Jobs, CountUndone, CountUnverified, Watch2Goto, AdvanceToPhase2b,
       FinishPhase, Watch2Phase, FinishStatus, PurgeTlsOk, MasterCleanup,
       CancelStatus, CancelRequeue, DeleteResults, DeleteQueue, DeleteMasscan,
       DeleteJobRow, MasterStatementFails, DbFault
  <2>. QED
    BY <2>1, <2>2, CountFrame
<1>. QED
  BY <1>1, <1>2, <1>3, <1>4, <1>5

(* A worker takes its chunk over, reports it, or dies with it.             *)
LEMMA CountWorker ==
  ASSUME TypeOK, CountInv, NEW u \in Worker,
         WorkerStep(u) \/ CrashWorker(u) \/ LoseMessage(u) \/ FetchFails(u)
            \/ ReadFailsAtWorker(u) \/ FlushFails(u) \/ InsertHitFails(u)
            \/ ScanPanics(u) \/ VerifyPanics(u)
  PROVE  CountInv'
<1> USE DEF TypeOK
<1>1. CASE ReceiveChunk(u)
  <2>1. /\ u \in chunkMsg /\ chunkMsg' = chunkMsg \ {u}
        /\ scanning' = [scanning EXCEPT ![u] = TRUE]
        /\ UNCHANGED <<targets, doneWorkers, totalWorkers, jobStatus, createPc, faults>>
    BY <1>1 DEF ReceiveChunk
  <2>2. Scanners' = Scanners \cup {u}
    BY <2>1 DEF Scanners
  <2>3. Outstanding' = Outstanding
    BY <2>1, <2>2 DEF Outstanding
  <2>. QED
    BY <2>1, <2>2, <2>3 DEF CountInv, JobExists
<1>2. CASE MarkPhase1Done(u)
  <2>1. /\ scanning[u] /\ scanning' = [scanning EXCEPT ![u] = FALSE]
        /\ JobExists => doneWorkers' = doneWorkers + 1
        /\ UNCHANGED <<targets, chunkMsg, totalWorkers, jobStatus, createPc, faults>>
    BY <1>2 DEF MarkPhase1Done, OneMoreDone
  <2>2. Scanners' = Scanners \ {u} /\ u \in Scanners
    BY <2>1 DEF Scanners
  <2>3. u \in Outstanding /\ Outstanding' = Outstanding \ {u}
    BY <2>1, <2>2 DEF Outstanding, CountInv
  <2>4. Cardinality(Outstanding') = Cardinality(Outstanding) - 1
    BY <2>3, OutstandingFinite, FS_RemoveElement
  <2>. QED
    BY SMTT(60), <2>1, <2>2, <2>4, OutstandingFinite DEF CountInv, JobExists
<1>3. CASE CrashWorker(u) \/ LoseMessage(u)
  <2>1. /\ faults' # 0
        /\ \/ chunkMsg' = chunkMsg
           \/ chunkMsg' = chunkMsg \ {u}
        /\ \/ scanning' = scanning
           \/ scanning' = [scanning EXCEPT ![u] = FALSE]
        /\ UNCHANGED <<targets, doneWorkers, totalWorkers, jobStatus, createPc>>
    BY <1>3 DEF CrashWorker, LoseMessage
  <2>2. Scanners' \subseteq Scanners
    BY <2>1 DEF Scanners
  <2>3. Outstanding' \subseteq Outstanding
    BY <2>1, <2>2 DEF Outstanding
  <2>4. Cardinality(Outstanding') <= Cardinality(Outstanding)
    BY <2>3, OutstandingShrinks
  <2>5. Cardinality(Outstanding') \in Nat
    BY <2>3, OutstandingFinite, FS_Subset, FS_CardinalityType
  <2>. QED
    BY <2>1, <2>2, <2>4, <2>5, OutstandingFinite DEF CountInv, JobExists
<1>4. CASE ~(ReceiveChunk(u) \/ MarkPhase1Done(u) \/ CrashWorker(u) \/ LoseMessage(u))
  <2>1. UNCHANGED countVars /\ (faults' = 0 => faults = 0) /\ UNCHANGED <<createPc, jobStatus>>
    BY <1>4 DEF countVars, WorkerStep, BootStep, Phase1Step, ScanStep, VerifyStep,
       StartWorker, RegisterWorker, SubscribePhase2, InsertMasscanResults,
       ReceivePhase2, StartupPickup, Reconcile, Goto, CheckCancelled, FetchWorkBatch,
       ScanMiss, ScanHit, MarkHit, Flush, NextBatch, CountUnfinished, CheckUnverified,
       CheckCancelled2b, FetchUnverified, VerifyRejects, VerifyAccepts, MarkVerified,
       NextVerifyBatch, DbFault, FetchFails, ReadFailsAtWorker, FlushFails,
       InsertHitFails, PanicFault, ScanPanics,
       VerifyPanics
  <2>. QED
    BY <2>1, CountFrame DEF JobExists
<1>. QED
  BY <1>1, <1>2, <1>3, <1>4

(* The watcher sees the count complete only when nothing is outstanding.  *)
LEMMA QueueMaster ==
  ASSUME "db" \notin Faults, TypeOK, PhaseInv, ScanInv, CountInv, QueueInv,
         MasterStep \/ MasterRestart \/ MasterStatementFails
  PROVE  QueueInv'
<1> USE DEF TypeOK, PhaseInv, ScanInv, QueueInv
<1>1. CASE \E w \in Worker : PublishChunk(w)   BY <1>1 DEF PublishChunk
<1>2. CASE CreateJob   BY <1>2 DEF CreateJob
<1>3. CASE ResolveFails   BY <1>3 DEF ResolveFails, SetStatus, JobExists
<1>4. CASE SelectWorkers   BY <1>4 DEF SelectWorkers
<1>5. CASE StartJob   BY <1>5 DEF StartJob, SetStatus, JobExists
<1>6. CASE SelectPhase1Jobs
  <2>1. jobStatus = "running" /\ doneWorkers > 0 /\ doneWorkers >= totalWorkers
    BY <1>6 DEF SelectPhase1Jobs, Phase1Complete
  <2>2. createPc \in {"publish", "end"}
    BY <2>1 DEF CountInv
  <2>3. Cardinality(Outstanding) = 0
    BY SMTT(120), <2>1, <2>2, OutstandingFinite DEF CountInv, JobExists
  <2>4. Outstanding = {}
    BY <2>3, OutstandingFinite, FS_EmptySet
  <2>5. targets = {} /\ chunkMsg = {} /\ \A w \in Worker : ~scanning[w]
    BY <2>4 DEF Outstanding, Scanners
  <2>. QED
    BY <1>6, <2>2, <2>5 DEF SelectPhase1Jobs
<1>7. CASE PopulateWorkQueue   BY <1>7 DEF PopulateWorkQueue
<1>8. CASE AdvanceToPhase2   BY <1>8 DEF AdvanceToPhase2, SetPhase, JobExists
<1>9. CASE PublishPhase2   BY <1>9 DEF PublishPhase2
<1>10. CASE RecoverProcessing
    BY <1>10 DEF RecoverProcessing, Requeue, LostItems, ProcessingItems
<1>11. CASE SelectPhase2Jobs   BY <1>11 DEF SelectPhase2Jobs, Watch2Goto
<1>12. CASE CountUndone   BY <1>12 DEF CountUndone, Watch2Goto
<1>13. CASE CountUnverified   BY <1>13 DEF CountUnverified, Watch2Goto
<1>14. CASE AdvanceToPhase2b
    BY <1>14 DEF AdvanceToPhase2b, Watch2Phase, SetPhase, JobExists
<1>15. CASE FinishPhase
    BY <1>15 DEF FinishPhase, Watch2Phase, SetPhase, JobExists
<1>16. CASE FinishStatus   BY <1>16 DEF FinishStatus, SetStatus, JobExists
<1>17. CASE PurgeTlsOk   BY <1>17 DEF PurgeTlsOk
<1>18. CASE MasterCleanup   BY <1>18 DEF MasterCleanup
<1>19. CASE CancelStatus   BY <1>19 DEF CancelStatus, SetStatus, JobExists
<1>20. CASE CancelRequeue   BY <1>20 DEF CancelRequeue, Requeue, ProcessingItems
<1>21. CASE DeleteResults   BY <1>21 DEF DeleteResults
<1>22. CASE DeleteQueue   BY <1>22 DEF DeleteQueue
<1>23. CASE DeleteMasscan   BY <1>23 DEF DeleteMasscan
<1>24. CASE DeleteJobRow   BY <1>24 DEF DeleteJobRow
<1>25. CASE MasterRestart   BY <1>25 DEF MasterRestart
<1>26. CASE MasterStatementFails
    BY <1>26 DEF MasterStatementFails, DbFault, PopulateFails,
         CountFailsAtMaster
<1>. QED
  BY <1>1, <1>2, <1>3, <1>4, <1>5, <1>6, <1>7, <1>8, <1>9, <1>10, <1>11,
     <1>12, <1>13, <1>14, <1>15, <1>16, <1>17, <1>18, <1>19, <1>20, <1>21,
     <1>22, <1>23, <1>24, <1>25, <1>26 DEF MasterStep, CreateStep, Watch1Step,
     Watch2Step, CancelStep, DeleteStep

(* With nothing outstanding no address is stored any more.                *)
LEMMA QueueWorker ==
  ASSUME TypeOK, ScanInv, QueueInv, NEW u \in Worker,
         WorkerStep(u) \/ CrashWorker(u) \/ LoseMessage(u) \/ FetchFails(u)
            \/ ReadFailsAtWorker(u) \/ FlushFails(u) \/ InsertHitFails(u)
            \/ ScanPanics(u) \/ VerifyPanics(u)
  PROVE  QueueInv'
<1> USE DEF TypeOK, ScanInv, QueueInv
<1>1. CASE StartWorker(u)   BY <1>1 DEF StartWorker
<1>2. CASE RegisterWorker(u)   BY <1>2 DEF RegisterWorker
<1>3. CASE SubscribePhase2(u)   BY <1>3 DEF SubscribePhase2
<1>4. CASE ReceiveChunk(u)   BY <1>4 DEF ReceiveChunk
<1>5. CASE InsertMasscanResults(u)   BY <1>5 DEF InsertMasscanResults
<1>6. CASE MarkPhase1Done(u)
    BY <1>6 DEF MarkPhase1Done, OneMoreDone, JobExists
<1>7. CASE ReceivePhase2(u)   BY <1>7 DEF ReceivePhase2, EnterPhase2
<1>8. CASE StartupPickup(u)   BY <1>8 DEF StartupPickup, EnterPhase2
<1>9. CASE Reconcile(u)   BY <1>9 DEF Reconcile, Goto
<1>10. CASE CheckCancelled(u)   BY <1>10 DEF CheckCancelled, Goto
<1>11. CASE FetchWorkBatch(u)
    BY <1>11 DEF FetchWorkBatch, Claim, Batches, Fetchable, PendingItems
<1>12. CASE ScanMiss(u)   BY <1>12 DEF ScanMiss
<1>13. CASE ScanHit(u)   BY <1>13 DEF ScanHit
<1>14. CASE MarkHit(u)   BY <1>14 DEF MarkHit, RowsDone
<1>15. CASE Flush(u)   BY <1>15 DEF Flush, RowsDone, Flushable
<1>16. CASE NextBatch(u)   BY <1>16 DEF NextBatch, Goto
<1>17. CASE CountUnfinished(u)   BY <1>17 DEF CountUnfinished, Goto, AfterScan
<1>18. CASE CheckUnverified(u)   BY <1>18 DEF CheckUnverified, Goto
<1>19. CASE CheckCancelled2b(u)   BY <1>19 DEF CheckCancelled2b, Goto
<1>20. CASE FetchUnverified(u)
    BY <1>20 DEF FetchUnverified, VerifyBatches, UnverifiedItems
<1>21. CASE VerifyRejects(u)   BY <1>21 DEF VerifyRejects, RejectRow
<1>22. CASE VerifyAccepts(u)   BY <1>22 DEF VerifyAccepts
<1>23. CASE MarkVerified(u)   BY <1>23 DEF MarkVerified, RowsDone
<1>24. CASE NextVerifyBatch(u)   BY <1>24 DEF NextVerifyBatch, Goto
<1>25. CASE CrashWorker(u)   BY <1>25 DEF CrashWorker
<1>26. CASE LoseMessage(u)   BY <1>26 DEF LoseMessage
<1>27. CASE FetchFails(u)
    BY <1>27 DEF FetchFails, DbFault, Claim, Batches, Fetchable, PendingItems
<1>28. CASE ReadFailsAtWorker(u)
    BY <1>28 DEF ReadFailsAtWorker, DbFault, AfterScan
<1>29. CASE FlushFails(u)   BY <1>29 DEF FlushFails, DbFault, Flushable
<1>30. CASE InsertHitFails(u)   BY <1>30 DEF InsertHitFails, DbFault
<1>31. CASE ScanPanics(u)   BY <1>31 DEF ScanPanics, PanicFault
<1>32. CASE VerifyPanics(u)   BY <1>32 DEF VerifyPanics, PanicFault
<1>. QED
  BY <1>1, <1>2, <1>3, <1>4, <1>5, <1>6, <1>7, <1>8, <1>9, <1>10, <1>11,
     <1>12, <1>13, <1>14, <1>15, <1>16, <1>17, <1>18, <1>19, <1>20, <1>21,
     <1>22, <1>23, <1>24, <1>25, <1>26, <1>27, <1>28, <1>29, <1>30, <1>31,
     <1>32 DEF WorkerStep, BootStep, Phase1Step, ScanStep, VerifyStep

-----------------------------------------------------------------------------
(* The theorems.                                                           *)

ChunkSafe == Inv /\ UpInv /\ CountInv

(* The count of chunks is right in every state, whatever faults happen.    *)
LEMMA ChunkHolds == Spec => []ChunkSafe
<1>1. Init => UpInv
  BY PipelineAssumption DEF Init, UpInv, PipelineAssumption
<1>2. Init => CountInv
  BY DEF Init, CountInv, Scanners
<1>3. Inv /\ UpInv /\ CountInv /\ [Next]_vars => UpInv' /\ CountInv'
  <2> SUFFICES ASSUME Inv, UpInv, CountInv, [Next]_vars PROVE UpInv' /\ CountInv'
    OBVIOUS
  <2>1. CASE UNCHANGED vars
    <3>1. UpInv'
      BY <2>1 DEF UpInv
    <3>2. UNCHANGED countVars /\ (faults' = 0 => faults = 0)
          /\ createPc' = createPc /\ (JobExists' => JobExists)
      BY <2>1 DEF countVars, JobExists
    <3>. QED
      BY <3>1, <3>2, CountFrame
  <2>2. CASE MasterStep \/ MasterRestart \/ MasterStatementFails
    BY <2>2, UpMaster, CountMaster DEF Inv
  <2>3. CASE \E u \in Worker :
               WorkerStep(u) \/ CrashWorker(u) \/ LoseMessage(u) \/ FetchFails(u)
                  \/ ReadFailsAtWorker(u) \/ FlushFails(u) \/ InsertHitFails(u)
                  \/ ScanPanics(u) \/ VerifyPanics(u)
    BY <2>3, UpWorker, CountWorker DEF Inv
  <2>. QED
    BY <2>1, <2>2, <2>3 DEF Next, FaultStep
<1>. QED
  BY <1>1, <1>2, <1>3, InvHolds, PTL DEF ChunkSafe, Spec

(* The sizes of disjoint sets add up.                                      *)
LEMMA DisjointSizes ==
  ASSUME NEW S, NEW T, IsFiniteSet(S), IsFiniteSet(T), S \cap T = {}
  PROVE  /\ IsFiniteSet(S \cup T)
         /\ Cardinality(S \cup T) = Cardinality(S) + Cardinality(T)
<1>1. /\ IsFiniteSet(S \cup T)
      /\ Cardinality(S \cup T) = Cardinality(S) + Cardinality(T) - Cardinality(S \cap T)
  BY FS_Union
<1>2. Cardinality(S \cap T) = 0
  BY FS_EmptySet
<1>3. Cardinality(S) \in Nat /\ Cardinality(T) \in Nat
  BY FS_CardinalityType
<1>. QED
  BY <1>1, <1>2, <1>3

(* Without faults every chunk is on its way, being scanned or counted, so  *)
(* phase 1 ends when the last masscan has ended and not before.            *)
THEOREM NoChunkLostHolds == Spec => []NoChunkLost
<1>1. ChunkSafe => NoChunkLost
  <2> SUFFICES ASSUME ChunkSafe, faults = 0, createPc \in {"publish", "end"}, JobExists
               PROVE  doneWorkers + Cardinality(targets) + Cardinality(chunkMsg)
                         + Cardinality(Scanners) = totalWorkers
    BY DEF NoChunkLost, Scanners
  <2> USE DEF ChunkSafe, Inv, TypeOK
  <2>1. IsFiniteSet(targets) /\ IsFiniteSet(chunkMsg) /\ IsFiniteSet(Scanners)
    BY PipelineAssumption, FS_Subset DEF PipelineAssumption, Scanners
  <2>2. targets \cap chunkMsg = {} /\ (targets \cup chunkMsg) \cap Scanners = {}
    BY DEF CountInv, Scanners
  <2>4. /\ IsFiniteSet(targets \cup chunkMsg)
        /\ Cardinality(targets \cup chunkMsg) = Cardinality(targets) + Cardinality(chunkMsg)
    BY <2>1, <2>2, DisjointSizes
  <2>5. Cardinality(Outstanding) = Cardinality(targets \cup chunkMsg) + Cardinality(Scanners)
    BY <2>1, <2>2, <2>4, DisjointSizes DEF Outstanding
  <2>6. doneWorkers + Cardinality(Outstanding) = totalWorkers
    BY DEF CountInv
  <2>. QED
    BY <2>1, <2>4, <2>5, <2>6, FS_CardinalityType
<1>. QED
  BY <1>1, ChunkHolds, PTL

(* If statements do not fail, a job that nobody cancelled or deleted is    *)
(* done only when every address that masscan reported has been scanned,    *)
(* however workers and master crash.                                       *)
THEOREM DoneMeansScannedHolds ==
  ASSUME "db" \notin Faults PROVE Spec => []DoneMeansScanned
<1>1. Init => QueueInv
  BY DEF Init, QueueInv
<1>2. ChunkSafe /\ QueueInv /\ [Next]_vars => QueueInv'
  <2> SUFFICES ASSUME ChunkSafe, QueueInv, [Next]_vars PROVE QueueInv'
    OBVIOUS
  <2>1. CASE UNCHANGED vars
    BY <2>1 DEF QueueInv
  <2>2. CASE MasterStep \/ MasterRestart \/ MasterStatementFails
    BY <2>2, QueueMaster DEF ChunkSafe, Inv
  <2>3. CASE \E u \in Worker :
               WorkerStep(u) \/ CrashWorker(u) \/ LoseMessage(u) \/ FetchFails(u)
                  \/ ReadFailsAtWorker(u) \/ FlushFails(u) \/ InsertHitFails(u)
                  \/ ScanPanics(u) \/ VerifyPanics(u)
    BY <2>3, QueueWorker DEF ChunkSafe, Inv
  <2>. QED
    BY <2>1, <2>2, <2>3 DEF Next, FaultStep
<1>3. DoneSafe /\ QueueInv => DoneMeansScanned
  BY DEF DoneSafe, Inv, TypeOK, DoneInv, UndoneItems, QueueInv, DoneMeansScanned
<1>. QED
  BY <1>1, <1>2, <1>3, ChunkHolds, DoneHolds, PTL DEF Spec

=============================================================================
