------------------------- MODULE JobPipeline_proofs -------------------------
(***************************************************************************)
(* What holds of one job's pipeline for every set of workers and items,    *)
(* every batch size and every bound on faults.                             *)
(***************************************************************************)
EXTENDS JobPipeline, TLAPS, FiniteSetTheorems

USE DEF vars, dbVars, jobVars, itemVars, natsVars, masterVars, createVars, watchVars,
        requestVars, workerVars, procVars, phase2Vars, scanVars, history

-----------------------------------------------------------------------------
(* Types.                                                                  *)

(* The master's steps keep every variable in its range.                   *)
LEMMA TypeMaster ==
  ASSUME TypeOK,
         MasterStep \/ MasterRestart \/ MasterStatementFails
  PROVE  TypeOK'
<1> USE PipelineAssumption DEF TypeOK, PipelineAssumption
<1>1. CASE \E w \in Worker : PublishChunk(w)   BY <1>1 DEF PublishChunk
<1>2. CASE CreateJob   BY <1>2 DEF CreateJob
<1>3. CASE ResolveFails   BY <1>3 DEF ResolveFails, SetStatus, JobExists
<1>4. CASE SelectWorkers   BY <1>4 DEF SelectWorkers
<1>5. CASE StartJob
    BY <1>5, FS_Subset, FS_CardinalityType DEF StartJob, SetStatus, JobExists
<1>6. CASE SelectPhase1Jobs   BY <1>6 DEF SelectPhase1Jobs
<1>7. CASE PopulateWorkQueue   BY <1>7 DEF PopulateWorkQueue
<1>8. CASE AdvanceToPhase2   BY <1>8 DEF AdvanceToPhase2, SetPhase, JobExists
<1>9. CASE PublishPhase2   BY <1>9 DEF PublishPhase2
<1>10. CASE RecoverProcessing
    BY <1>10 DEF RecoverProcessing, Requeue, LostItems, ProcessingItems
<1>11. CASE SelectPhase2Jobs   BY <1>11 DEF SelectPhase2Jobs, Watch2Goto
<1>12. CASE CountUndone   BY <1>12 DEF CountUndone, Watch2Goto
<1>13. CASE CountUnverified   BY <1>13 DEF CountUnverified, Watch2Goto
<1>14. CASE AdvanceToPhase2b
    BY <1>14 DEF AdvanceToPhase2b, Watch2Phase, SetPhase, JobExists
<1>15. CASE FinishPhase   BY <1>15 DEF FinishPhase, Watch2Phase, SetPhase, JobExists
<1>16. CASE FinishStatus   BY <1>16 DEF FinishStatus, SetStatus, JobExists
<1>17. CASE PurgeTlsOk   BY <1>17 DEF PurgeTlsOk
<1>18. CASE MasterCleanup   BY <1>18 DEF MasterCleanup
<1>19. CASE CancelStatus   BY <1>19 DEF CancelStatus, SetStatus, JobExists
<1>20. CASE CancelRequeue   BY <1>20 DEF CancelRequeue, Requeue, ProcessingItems
<1>21. CASE DeleteResults   BY <1>21 DEF DeleteResults
<1>22. CASE DeleteQueue   BY <1>22 DEF DeleteQueue
<1>23. CASE DeleteMasscan   BY <1>23 DEF DeleteMasscan
<1>24. CASE DeleteJobRow   BY <1>24 DEF DeleteJobRow
<1>25. CASE MasterRestart   BY <1>25 DEF MasterRestart
<1>26. CASE MasterStatementFails
    BY SMTT(60), <1>26 DEF MasterStatementFails, DbFault, PopulateFails,
         CountFailsAtMaster
<1>. QED
  BY <1>1, <1>2, <1>3, <1>4, <1>5, <1>6, <1>7, <1>8, <1>9, <1>10, <1>11,
     <1>12, <1>13, <1>14, <1>15, <1>16, <1>17, <1>18, <1>19, <1>20, <1>21,
     <1>22, <1>23, <1>24, <1>25, <1>26 DEF MasterStep, CreateStep, Watch1Step,
     Watch2Step, CancelStep, DeleteStep

(* So do the workers' steps.                                              *)
LEMMA TypeWorker ==
  ASSUME TypeOK, NEW u \in Worker,
         WorkerStep(u) \/ CrashWorker(u) \/ LoseMessage(u) \/ FetchFails(u)
            \/ ReadFailsAtWorker(u) \/ FlushFails(u) \/ InsertHitFails(u)
            \/ ScanPanics(u) \/ VerifyPanics(u)
  PROVE  TypeOK'
<1> USE PipelineAssumption DEF TypeOK, PipelineAssumption
<1>1. CASE StartWorker(u)   BY <1>1 DEF StartWorker
<1>2. CASE RegisterWorker(u)   BY <1>2 DEF RegisterWorker
<1>3. CASE SubscribePhase2(u)   BY <1>3 DEF SubscribePhase2
<1>4. CASE ReceiveChunk(u)   BY <1>4 DEF ReceiveChunk
<1>5. CASE InsertMasscanResults(u)   BY <1>5 DEF InsertMasscanResults
<1>6. CASE MarkPhase1Done(u)   BY <1>6 DEF MarkPhase1Done, OneMoreDone, JobExists
<1>7. CASE ReceivePhase2(u)   BY <1>7 DEF ReceivePhase2, EnterPhase2
<1>8. CASE StartupPickup(u)   BY <1>8 DEF StartupPickup, EnterPhase2
<1>9. CASE Reconcile(u)   BY <1>9 DEF Reconcile, Goto
<1>10. CASE CheckCancelled(u)   BY <1>10 DEF CheckCancelled, Goto
<1>11. CASE FetchWorkBatch(u)
    BY <1>11 DEF FetchWorkBatch, Claim, Batches, Fetchable, PendingItems
<1>12. CASE ScanMiss(u)   BY <1>12 DEF ScanMiss
<1>13. CASE ScanHit(u)   BY <1>13 DEF ScanHit
<1>14. CASE MarkHit(u)   BY <1>14 DEF MarkHit, RowsDone
<1>15. CASE Flush(u)   BY <1>15 DEF Flush, RowsDone, Flushable
<1>16. CASE NextBatch(u)   BY <1>16 DEF NextBatch, Goto
<1>17. CASE CountUnfinished(u)   BY <1>17 DEF CountUnfinished, Goto, AfterScan
<1>18. CASE CheckUnverified(u)   BY <1>18 DEF CheckUnverified, Goto
<1>19. CASE CheckCancelled2b(u)   BY <1>19 DEF CheckCancelled2b, Goto
<1>20. CASE FetchUnverified(u)
    BY <1>20 DEF FetchUnverified, VerifyBatches, UnverifiedItems
<1>21. CASE VerifyRejects(u)   BY <1>21 DEF VerifyRejects, RejectRow
<1>22. CASE VerifyAccepts(u)   BY <1>22 DEF VerifyAccepts
<1>23. CASE MarkVerified(u)   BY <1>23 DEF MarkVerified, RowsDone
<1>24. CASE NextVerifyBatch(u)   BY <1>24 DEF NextVerifyBatch, Goto
<1>25. CASE CrashWorker(u)   BY <1>25 DEF CrashWorker
<1>26. CASE LoseMessage(u)   BY <1>26 DEF LoseMessage
<1>27. CASE FetchFails(u)   BY <1>27 DEF FetchFails, DbFault, Claim, Batches
<1>28. CASE ReadFailsAtWorker(u)   BY <1>28 DEF ReadFailsAtWorker, DbFault, AfterScan
<1>29. CASE FlushFails(u)   BY <1>29 DEF FlushFails, DbFault, Flushable
<1>30. CASE InsertHitFails(u)   BY <1>30 DEF InsertHitFails, DbFault
<1>31. CASE ScanPanics(u)   BY <1>31 DEF ScanPanics, PanicFault
<1>32. CASE VerifyPanics(u)   BY <1>32 DEF VerifyPanics, PanicFault
<1>. QED
  BY <1>1, <1>2, <1>3, <1>4, <1>5, <1>6, <1>7, <1>8, <1>9, <1>10, <1>11,
     <1>12, <1>13, <1>14, <1>15, <1>16, <1>17, <1>18, <1>19, <1>20, <1>21,
     <1>22, <1>23, <1>24, <1>25, <1>26, <1>27, <1>28, <1>29, <1>30, <1>31,
     <1>32 DEF WorkerStep, BootStep, Phase1Step, ScanStep, VerifyStep

(* The ranges of all variables, for every run of the master and workers:   *)
(* the statement and pc values the code goes through.                      *)
THEOREM TypeCorrect == Spec => []TypeOK
<1>1. Init => TypeOK
  BY PipelineAssumption DEF Init, TypeOK, PipelineAssumption
<1>2. TypeOK /\ [Next]_vars => TypeOK'
  <2> SUFFICES ASSUME TypeOK, [Next]_vars PROVE TypeOK'
    OBVIOUS
  <2>1. CASE UNCHANGED vars
    BY <2>1 DEF TypeOK
  <2>. QED
    BY <2>1, TypeMaster, TypeWorker DEF Next, FaultStep
<1>. QED
  BY <1>1, <1>2, PTL DEF Spec

-----------------------------------------------------------------------------
(* The inductive invariants.                                               *)

(* What the two watchers know of the phase they read a few statements ago. *)
PhaseInv ==
    /\ watch1 \in {"populate", "advance"} => jobPhase = "phase1"
    /\ watch2 \in {"undone", "unverified", "phase2b", "finish"}
          => jobPhase \in {"phase2", "phase2b"}
    /\ watch2 \in {"status", "purge"} => jobPhase # "phase1"

(* A worker that may touch the queue has registered; its local sets are    *)
(* used only by the loop they belong to.                                   *)
ScanInv ==
    /\ \A w \in Worker :
          /\ \/ proc[w] \in {"registered", "ready"}
             \/ pickup[w]
             \/ w \in phase2Msg
             \/ p2[w] # "idle"
             => w \in online
          /\ p2[w] # "scan" => todo[w] = {} /\ buf[w] = {}
          /\ p2[w] \notin {"scan", "verify"} => marking[w] = {}
          /\ p2[w] # "verify" => verifying[w] = {}
    /\ cancelPc = "requeue" => "cancel" \in requests
    /\ deletePc # "idle" => "delete" \in requests

(* Nobody has an answer for an item that has not been scanned.             *)
Fresh(i) ==
    /\ result[i] = "none"
    /\ \A w \in Worker : i \notin verifying[w] /\ i \notin marking[w]

(* While the user requests nothing a row is claimed once: its owner stays  *)
(* in the workers table as online, so nothing puts it back.                *)
ClaimInv ==
    requests = {} =>
        /\ \A i \in Item : queue[i] = "processing" => owner[i] \in online
        /\ \A i \in Item : queue[i] \in {"absent", "pending"} => Fresh(i)
        /\ \A w \in Worker : \A i \in Held(w) :
              owner[i] = w /\ queue[i] \in {"processing", "done"}
        /\ \A w \in Worker : \A i \in todo[w] :
              i \notin buf[w] /\ queue[i] = "processing" /\ Fresh(i)

(* Once the watcher has seen no undone row there never is one again, and   *)
(* the same for the unverified hits.                                       *)
DoneInv ==
    requests = {} =>
        /\ \/ watch2 \in {"unverified", "phase2b", "finish", "status", "purge"}
           \/ jobStatus = "done"
           => UndoneItems = {} /\ jobPhase # "phase1"
        /\ watch2 \in {"finish", "status", "purge"} \/ jobStatus = "done"
           => UnverifiedItems = {}

(* The watchers' and handlers' steps keep what the watchers know.         *)
LEMMA PhaseMaster ==
  ASSUME TypeOK, PhaseInv,
         MasterStep \/ MasterRestart \/ MasterStatementFails
  PROVE  PhaseInv'
<1> USE DEF TypeOK, PhaseInv
<1>1. CASE \E w \in Worker : PublishChunk(w)   BY <1>1 DEF PublishChunk
<1>2. CASE CreateJob   BY <1>2 DEF CreateJob
<1>3. CASE ResolveFails   BY <1>3 DEF ResolveFails, SetStatus, JobExists
<1>4. CASE SelectWorkers   BY <1>4 DEF SelectWorkers
<1>5. CASE StartJob   BY <1>5 DEF StartJob, SetStatus, JobExists
<1>6. CASE SelectPhase1Jobs   BY <1>6 DEF SelectPhase1Jobs, Phase1Complete
<1>7. CASE PopulateWorkQueue   BY <1>7 DEF PopulateWorkQueue
<1>8. CASE AdvanceToPhase2   BY <1>8 DEF AdvanceToPhase2, SetPhase, JobExists
<1>9. CASE PublishPhase2   BY <1>9 DEF PublishPhase2
<1>10. CASE RecoverProcessing
    BY <1>10 DEF RecoverProcessing, Requeue, LostItems, ProcessingItems
<1>11. CASE SelectPhase2Jobs   BY <1>11 DEF SelectPhase2Jobs, Watch2Goto
<1>12. CASE CountUndone   BY <1>12 DEF CountUndone, Watch2Goto
<1>13. CASE CountUnverified   BY <1>13 DEF CountUnverified, Watch2Goto
<1>14. CASE AdvanceToPhase2b
    BY <1>14 DEF AdvanceToPhase2b, Watch2Phase, SetPhase, JobExists
<1>15. CASE FinishPhase   BY <1>15 DEF FinishPhase, Watch2Phase, SetPhase, JobExists
<1>16. CASE FinishStatus   BY <1>16 DEF FinishStatus, SetStatus, JobExists
<1>17. CASE PurgeTlsOk   BY <1>17 DEF PurgeTlsOk
<1>18. CASE MasterCleanup   BY <1>18 DEF MasterCleanup
<1>19. CASE CancelStatus   BY <1>19 DEF CancelStatus, SetStatus, JobExists
<1>20. CASE CancelRequeue   BY <1>20 DEF CancelRequeue, Requeue, ProcessingItems
<1>21. CASE DeleteResults   BY <1>21 DEF DeleteResults
<1>22. CASE DeleteQueue   BY <1>22 DEF DeleteQueue
<1>23. CASE DeleteMasscan   BY <1>23 DEF DeleteMasscan
<1>24. CASE DeleteJobRow   BY <1>24 DEF DeleteJobRow
<1>25. CASE MasterRestart   BY <1>25 DEF MasterRestart
<1>26. CASE MasterStatementFails
    BY <1>26 DEF MasterStatementFails, DbFault, PopulateFails,
         CountFailsAtMaster
<1>. QED
  BY <1>1, <1>2, <1>3, <1>4, <1>5, <1>6, <1>7, <1>8, <1>9, <1>10, <1>11,
     <1>12, <1>13, <1>14, <1>15, <1>16, <1>17, <1>18, <1>19, <1>20, <1>21,
     <1>22, <1>23, <1>24, <1>25, <1>26 DEF MasterStep, CreateStep, Watch1Step,
     Watch2Step, CancelStep, DeleteStep

(* The worker never writes the phase.                                     *)
LEMMA PhaseWorker ==
  ASSUME TypeOK, PhaseInv, NEW u \in Worker,
         WorkerStep(u) \/ CrashWorker(u) \/ LoseMessage(u) \/ FetchFails(u)
            \/ ReadFailsAtWorker(u) \/ FlushFails(u) \/ InsertHitFails(u)
            \/ ScanPanics(u) \/ VerifyPanics(u)
  PROVE  PhaseInv'
<1> USE DEF TypeOK, PhaseInv
<1>1. CASE StartWorker(u)   BY <1>1 DEF StartWorker
<1>2. CASE RegisterWorker(u)   BY <1>2 DEF RegisterWorker
<1>3. CASE SubscribePhase2(u)   BY <1>3 DEF SubscribePhase2
<1>4. CASE ReceiveChunk(u)   BY <1>4 DEF ReceiveChunk
<1>5. CASE InsertMasscanResults(u)   BY <1>5 DEF InsertMasscanResults
<1>6. CASE MarkPhase1Done(u)   BY <1>6 DEF MarkPhase1Done, OneMoreDone, JobExists
<1>7. CASE ReceivePhase2(u)   BY <1>7 DEF ReceivePhase2, EnterPhase2
<1>8. CASE StartupPickup(u)   BY <1>8 DEF StartupPickup, EnterPhase2
<1>9. CASE Reconcile(u)   BY <1>9 DEF Reconcile, Goto
<1>10. CASE CheckCancelled(u)   BY <1>10 DEF CheckCancelled, Goto
<1>11. CASE FetchWorkBatch(u)
    BY <1>11 DEF FetchWorkBatch, Claim, Batches, Fetchable, PendingItems
<1>12. CASE ScanMiss(u)   BY <1>12 DEF ScanMiss
<1>13. CASE ScanHit(u)   BY <1>13 DEF ScanHit
<1>14. CASE MarkHit(u)   BY <1>14 DEF MarkHit, RowsDone
<1>15. CASE Flush(u)   BY <1>15 DEF Flush, RowsDone, Flushable
<1>16. CASE NextBatch(u)   BY <1>16 DEF NextBatch, Goto
<1>17. CASE CountUnfinished(u)   BY <1>17 DEF CountUnfinished, Goto, AfterScan
<1>18. CASE CheckUnverified(u)   BY <1>18 DEF CheckUnverified, Goto
<1>19. CASE CheckCancelled2b(u)   BY <1>19 DEF CheckCancelled2b, Goto
<1>20. CASE FetchUnverified(u)
    BY <1>20 DEF FetchUnverified, VerifyBatches, UnverifiedItems
<1>21. CASE VerifyRejects(u)   BY <1>21 DEF VerifyRejects, RejectRow
<1>22. CASE VerifyAccepts(u)   BY <1>22 DEF VerifyAccepts
<1>23. CASE MarkVerified(u)   BY <1>23 DEF MarkVerified, RowsDone
<1>24. CASE NextVerifyBatch(u)   BY <1>24 DEF NextVerifyBatch, Goto
<1>25. CASE CrashWorker(u)   BY <1>25 DEF CrashWorker
<1>26. CASE LoseMessage(u)   BY <1>26 DEF LoseMessage
<1>27. CASE FetchFails(u)   BY <1>27 DEF FetchFails, DbFault, Claim, Batches
<1>28. CASE ReadFailsAtWorker(u)   BY <1>28 DEF ReadFailsAtWorker, DbFault, AfterScan
<1>29. CASE FlushFails(u)   BY <1>29 DEF FlushFails, DbFault, Flushable
<1>30. CASE InsertHitFails(u)   BY <1>30 DEF InsertHitFails, DbFault
<1>31. CASE ScanPanics(u)   BY <1>31 DEF ScanPanics, PanicFault
<1>32. CASE VerifyPanics(u)   BY <1>32 DEF VerifyPanics, PanicFault
<1>. QED
  BY <1>1, <1>2, <1>3, <1>4, <1>5, <1>6, <1>7, <1>8, <1>9, <1>10, <1>11,
     <1>12, <1>13, <1>14, <1>15, <1>16, <1>17, <1>18, <1>19, <1>20, <1>21,
     <1>22, <1>23, <1>24, <1>25, <1>26, <1>27, <1>28, <1>29, <1>30, <1>31,
     <1>32 DEF WorkerStep, BootStep, Phase1Step, ScanStep, VerifyStep

(* The master only adds readers of a phase 2 message.                      *)
LEMMA ScanMaster ==
  ASSUME TypeOK, ScanInv,
         MasterStep \/ MasterRestart \/ MasterStatementFails
  PROVE  ScanInv'
<1> USE DEF TypeOK, ScanInv
<1>1. CASE \E w \in Worker : PublishChunk(w)   BY <1>1 DEF PublishChunk
<1>2. CASE CreateJob   BY <1>2 DEF CreateJob
<1>3. CASE ResolveFails   BY <1>3 DEF ResolveFails, SetStatus, JobExists
<1>4. CASE SelectWorkers   BY <1>4 DEF SelectWorkers
<1>5. CASE StartJob   BY <1>5 DEF StartJob, SetStatus, JobExists
<1>6. CASE SelectPhase1Jobs   BY <1>6 DEF SelectPhase1Jobs
<1>7. CASE PopulateWorkQueue   BY <1>7 DEF PopulateWorkQueue
<1>8. CASE AdvanceToPhase2   BY <1>8 DEF AdvanceToPhase2, SetPhase, JobExists
<1>9. CASE PublishPhase2   BY <1>9 DEF PublishPhase2
<1>10. CASE RecoverProcessing
    BY <1>10 DEF RecoverProcessing, Requeue, LostItems, ProcessingItems
<1>11. CASE SelectPhase2Jobs   BY <1>11 DEF SelectPhase2Jobs, Watch2Goto
<1>12. CASE CountUndone   BY <1>12 DEF CountUndone, Watch2Goto
<1>13. CASE CountUnverified   BY <1>13 DEF CountUnverified, Watch2Goto
<1>14. CASE AdvanceToPhase2b
    BY <1>14 DEF AdvanceToPhase2b, Watch2Phase, SetPhase, JobExists
<1>15. CASE FinishPhase   BY <1>15 DEF FinishPhase, Watch2Phase, SetPhase, JobExists
<1>16. CASE FinishStatus   BY <1>16 DEF FinishStatus, SetStatus, JobExists
<1>17. CASE PurgeTlsOk   BY <1>17 DEF PurgeTlsOk
<1>18. CASE MasterCleanup   BY <1>18 DEF MasterCleanup
<1>19. CASE CancelStatus   BY <1>19 DEF CancelStatus, SetStatus, JobExists
<1>20. CASE CancelRequeue   BY <1>20 DEF CancelRequeue, Requeue, ProcessingItems
<1>21. CASE DeleteResults   BY <1>21 DEF DeleteResults
<1>22. CASE DeleteQueue   BY <1>22 DEF DeleteQueue
<1>23. CASE DeleteMasscan   BY <1>23 DEF DeleteMasscan
<1>24. CASE DeleteJobRow   BY <1>24 DEF DeleteJobRow
<1>25. CASE MasterRestart   BY <1>25 DEF MasterRestart
<1>26. CASE MasterStatementFails
    BY <1>26 DEF MasterStatementFails, DbFault, PopulateFails,
         CountFailsAtMaster
<1>. QED
  BY <1>1, <1>2, <1>3, <1>4, <1>5, <1>6, <1>7, <1>8, <1>9, <1>10, <1>11,
     <1>12, <1>13, <1>14, <1>15, <1>16, <1>17, <1>18, <1>19, <1>20, <1>21,
     <1>22, <1>23, <1>24, <1>25, <1>26 DEF MasterStep, CreateStep, Watch1Step,
     Watch2Step, CancelStep, DeleteStep

(* A worker registers before it scans, and empties a loop's sets before    *)
(* it leaves the loop.                                                     *)
LEMMA ScanWorker ==
  ASSUME TypeOK, ScanInv, NEW u \in Worker,
         WorkerStep(u) \/ CrashWorker(u) \/ LoseMessage(u) \/ FetchFails(u)
            \/ ReadFailsAtWorker(u) \/ FlushFails(u) \/ InsertHitFails(u)
            \/ ScanPanics(u) \/ VerifyPanics(u)
  PROVE  ScanInv'
<1> USE DEF TypeOK, ScanInv
<1>1. CASE StartWorker(u)   BY <1>1 DEF StartWorker
<1>2. CASE RegisterWorker(u)   BY <1>2 DEF RegisterWorker
<1>3. CASE SubscribePhase2(u)   BY <1>3 DEF SubscribePhase2
<1>4. CASE ReceiveChunk(u)   BY <1>4 DEF ReceiveChunk
<1>5. CASE InsertMasscanResults(u)   BY <1>5 DEF InsertMasscanResults
<1>6. CASE MarkPhase1Done(u)   BY <1>6 DEF MarkPhase1Done, OneMoreDone, JobExists
<1>7. CASE ReceivePhase2(u)   BY <1>7 DEF ReceivePhase2, EnterPhase2
<1>8. CASE StartupPickup(u)   BY <1>8 DEF StartupPickup, EnterPhase2
<1>9. CASE Reconcile(u)   BY <1>9 DEF Reconcile, Goto
<1>10. CASE CheckCancelled(u)   BY <1>10 DEF CheckCancelled, Goto
<1>11. CASE FetchWorkBatch(u)
    BY <1>11 DEF FetchWorkBatch, Claim, Batches, Fetchable, PendingItems
<1>12. CASE ScanMiss(u)   BY <1>12 DEF ScanMiss
<1>13. CASE ScanHit(u)   BY <1>13 DEF ScanHit
<1>14. CASE MarkHit(u)   BY <1>14 DEF MarkHit, RowsDone
<1>15. CASE Flush(u)   BY <1>15 DEF Flush, RowsDone, Flushable
<1>16. CASE NextBatch(u)   BY <1>16 DEF NextBatch, Goto, Held
<1>17. CASE CountUnfinished(u)   BY <1>17 DEF CountUnfinished, Goto, AfterScan
<1>18. CASE CheckUnverified(u)   BY <1>18 DEF CheckUnverified, Goto
<1>19. CASE CheckCancelled2b(u)   BY <1>19 DEF CheckCancelled2b, Goto
<1>20. CASE FetchUnverified(u)
    BY <1>20 DEF FetchUnverified, VerifyBatches, UnverifiedItems
<1>21. CASE VerifyRejects(u)   BY <1>21 DEF VerifyRejects, RejectRow
<1>22. CASE VerifyAccepts(u)   BY <1>22 DEF VerifyAccepts
<1>23. CASE MarkVerified(u)   BY <1>23 DEF MarkVerified, RowsDone
<1>24. CASE NextVerifyBatch(u)   BY <1>24 DEF NextVerifyBatch, Goto
<1>25. CASE CrashWorker(u)   BY <1>25 DEF CrashWorker
<1>26. CASE LoseMessage(u)   BY <1>26 DEF LoseMessage
<1>27. CASE FetchFails(u)   BY <1>27 DEF FetchFails, DbFault, Claim, Batches
<1>28. CASE ReadFailsAtWorker(u)   BY SMTT(60), <1>28 DEF ReadFailsAtWorker, DbFault, AfterScan
<1>29. CASE FlushFails(u)   BY <1>29 DEF FlushFails, DbFault, Flushable
<1>30. CASE InsertHitFails(u)   BY <1>30 DEF InsertHitFails, DbFault
<1>31. CASE ScanPanics(u)   BY <1>31 DEF ScanPanics, PanicFault
<1>32. CASE VerifyPanics(u)   BY <1>32 DEF VerifyPanics, PanicFault
<1>. QED
  BY <1>1, <1>2, <1>3, <1>4, <1>5, <1>6, <1>7, <1>8, <1>9, <1>10, <1>11,
     <1>12, <1>13, <1>14, <1>15, <1>16, <1>17, <1>18, <1>19, <1>20, <1>21,
     <1>22, <1>23, <1>24, <1>25, <1>26, <1>27, <1>28, <1>29, <1>30, <1>31,
     <1>32 DEF WorkerStep, BootStep, Phase1Step, ScanStep, VerifyStep

(* No statement of the master takes a row back.                            *)
LEMMA ClaimMaster ==
  ASSUME TypeOK, ScanInv, ClaimInv,
         MasterStep \/ MasterRestart \/ MasterStatementFails
  PROVE  ClaimInv'
<1> USE DEF TypeOK, ScanInv, ClaimInv, Held, Fresh
<1>1. CASE \E w \in Worker : PublishChunk(w)   BY <1>1 DEF PublishChunk
<1>2. CASE CreateJob   BY <1>2 DEF CreateJob
<1>3. CASE ResolveFails   BY <1>3 DEF ResolveFails, SetStatus, JobExists
<1>4. CASE SelectWorkers   BY <1>4 DEF SelectWorkers
<1>5. CASE StartJob   BY <1>5 DEF StartJob, SetStatus, JobExists
<1>6. CASE SelectPhase1Jobs   BY <1>6 DEF SelectPhase1Jobs
<1>7. CASE PopulateWorkQueue   BY <1>7 DEF PopulateWorkQueue
<1>8. CASE AdvanceToPhase2   BY <1>8 DEF AdvanceToPhase2, SetPhase, JobExists
<1>9. CASE PublishPhase2   BY <1>9 DEF PublishPhase2
<1>10. CASE RecoverProcessing
    BY <1>10 DEF RecoverProcessing, Requeue, LostItems, ProcessingItems
<1>11. CASE SelectPhase2Jobs   BY <1>11 DEF SelectPhase2Jobs, Watch2Goto
<1>12. CASE CountUndone   BY <1>12 DEF CountUndone, Watch2Goto
<1>13. CASE CountUnverified   BY <1>13 DEF CountUnverified, Watch2Goto
<1>14. CASE AdvanceToPhase2b
    BY <1>14 DEF AdvanceToPhase2b, Watch2Phase, SetPhase, JobExists
<1>15. CASE FinishPhase   BY <1>15 DEF FinishPhase, Watch2Phase, SetPhase, JobExists
<1>16. CASE FinishStatus   BY <1>16 DEF FinishStatus, SetStatus, JobExists
<1>17. CASE PurgeTlsOk   BY <1>17 DEF PurgeTlsOk
<1>18. CASE MasterCleanup   BY <1>18 DEF MasterCleanup
<1>19. CASE CancelStatus   BY <1>19 DEF CancelStatus, SetStatus, JobExists
<1>20. CASE CancelRequeue   BY <1>20 DEF CancelRequeue, Requeue, ProcessingItems
<1>21. CASE DeleteResults   BY <1>21 DEF DeleteResults
<1>22. CASE DeleteQueue   BY <1>22 DEF DeleteQueue
<1>23. CASE DeleteMasscan   BY <1>23 DEF DeleteMasscan
<1>24. CASE DeleteJobRow   BY <1>24 DEF DeleteJobRow
<1>25. CASE MasterRestart   BY <1>25 DEF MasterRestart
<1>26. CASE MasterStatementFails
    BY SMTT(60), <1>26 DEF MasterStatementFails, DbFault, PopulateFails,
         CountFailsAtMaster
<1>. QED
  BY <1>1, <1>2, <1>3, <1>4, <1>5, <1>6, <1>7, <1>8, <1>9, <1>10, <1>11,
     <1>12, <1>13, <1>14, <1>15, <1>16, <1>17, <1>18, <1>19, <1>20, <1>21,
     <1>22, <1>23, <1>24, <1>25, <1>26 DEF MasterStep, CreateStep, Watch1Step,
     Watch2Step, CancelStep, DeleteStep

(* A worker claims only rows that nobody holds.                            *)
LEMMA ClaimWorker ==
  ASSUME TypeOK, ScanInv, ClaimInv, NEW u \in Worker,
         WorkerStep(u) \/ CrashWorker(u) \/ LoseMessage(u) \/ FetchFails(u)
            \/ ReadFailsAtWorker(u) \/ FlushFails(u) \/ InsertHitFails(u)
            \/ ScanPanics(u) \/ VerifyPanics(u)
  PROVE  ClaimInv'
<1> USE DEF TypeOK, ScanInv, ClaimInv, Held, Fresh
<1>1. CASE StartWorker(u)   BY <1>1 DEF StartWorker
<1>2. CASE RegisterWorker(u)   BY <1>2 DEF RegisterWorker
<1>3. CASE SubscribePhase2(u)   BY <1>3 DEF SubscribePhase2
<1>4. CASE ReceiveChunk(u)   BY <1>4 DEF ReceiveChunk
<1>5. CASE InsertMasscanResults(u)   BY <1>5 DEF InsertMasscanResults
<1>6. CASE MarkPhase1Done(u)   BY <1>6 DEF MarkPhase1Done, OneMoreDone, JobExists
<1>7. CASE ReceivePhase2(u)   BY <1>7 DEF ReceivePhase2, EnterPhase2
<1>8. CASE StartupPickup(u)   BY <1>8 DEF StartupPickup, EnterPhase2
<1>9. CASE Reconcile(u)   BY <1>9 DEF Reconcile, Goto
<1>10. CASE CheckCancelled(u)   BY <1>10 DEF CheckCancelled, Goto
<1>11. CASE FetchWorkBatch(u)
    BY SMTT(60), <1>11 DEF FetchWorkBatch, Claim, Batches, Fetchable, PendingItems
<1>12. CASE ScanMiss(u)   BY <1>12 DEF ScanMiss
<1>13. CASE ScanHit(u)   BY <1>13 DEF ScanHit
<1>14. CASE MarkHit(u)   BY <1>14 DEF MarkHit, RowsDone
<1>15. CASE Flush(u)   BY SMTT(60), <1>15 DEF Flush, RowsDone, Flushable
<1>16. CASE NextBatch(u)   BY <1>16 DEF NextBatch, Goto
<1>17. CASE CountUnfinished(u)   BY <1>17 DEF CountUnfinished, Goto, AfterScan
<1>18. CASE CheckUnverified(u)   BY <1>18 DEF CheckUnverified, Goto
<1>19. CASE CheckCancelled2b(u)   BY <1>19 DEF CheckCancelled2b, Goto
<1>20. CASE FetchUnverified(u)
    BY <1>20 DEF FetchUnverified, VerifyBatches, UnverifiedItems
<1>21. CASE VerifyRejects(u)   BY <1>21 DEF VerifyRejects, RejectRow
<1>22. CASE VerifyAccepts(u)   BY <1>22 DEF VerifyAccepts
<1>23. CASE MarkVerified(u)   BY <1>23 DEF MarkVerified, RowsDone
<1>24. CASE NextVerifyBatch(u)   BY <1>24 DEF NextVerifyBatch, Goto
<1>25. CASE CrashWorker(u)   BY <1>25 DEF CrashWorker
<1>26. CASE LoseMessage(u)   BY <1>26 DEF LoseMessage
<1>27. CASE FetchFails(u)
    BY <1>27 DEF FetchFails, DbFault, Claim, Batches, Fetchable, PendingItems
<1>28. CASE ReadFailsAtWorker(u)   BY <1>28 DEF ReadFailsAtWorker, DbFault, AfterScan
<1>29. CASE FlushFails(u)   BY <1>29 DEF FlushFails, DbFault, Flushable
<1>30. CASE InsertHitFails(u)   BY <1>30 DEF InsertHitFails, DbFault
<1>31. CASE ScanPanics(u)   BY <1>31 DEF ScanPanics, PanicFault
<1>32. CASE VerifyPanics(u)   BY <1>32 DEF VerifyPanics, PanicFault
<1>. QED
  BY <1>1, <1>2, <1>3, <1>4, <1>5, <1>6, <1>7, <1>8, <1>9, <1>10, <1>11,
     <1>12, <1>13, <1>14, <1>15, <1>16, <1>17, <1>18, <1>19, <1>20, <1>21,
     <1>22, <1>23, <1>24, <1>25, <1>26, <1>27, <1>28, <1>29, <1>30, <1>31,
     <1>32 DEF WorkerStep, BootStep, Phase1Step, ScanStep, VerifyStep

(* What the watcher has counted stays so.                                  *)
LEMMA DoneMaster ==
  ASSUME "db" \notin Faults, TypeOK, PhaseInv, ScanInv, ClaimInv, DoneInv,
         MasterStep \/ MasterRestart \/ MasterStatementFails
  PROVE  DoneInv'
<1> USE DEF TypeOK, PhaseInv, ScanInv, ClaimInv, DoneInv, Held, UndoneItems, UnverifiedItems
<1>1. CASE \E w \in Worker : PublishChunk(w)   BY <1>1 DEF PublishChunk
<1>2. CASE CreateJob   BY <1>2 DEF CreateJob
<1>3. CASE ResolveFails   BY <1>3 DEF ResolveFails, SetStatus, JobExists
<1>4. CASE SelectWorkers   BY <1>4 DEF SelectWorkers
<1>5. CASE StartJob   BY <1>5 DEF StartJob, SetStatus, JobExists
<1>6. CASE SelectPhase1Jobs   BY <1>6 DEF SelectPhase1Jobs
<1>7. CASE PopulateWorkQueue   BY <1>7 DEF PopulateWorkQueue
<1>8. CASE AdvanceToPhase2   BY <1>8 DEF AdvanceToPhase2, SetPhase, JobExists
<1>9. CASE PublishPhase2   BY <1>9 DEF PublishPhase2
<1>10. CASE RecoverProcessing
    BY <1>10 DEF RecoverProcessing, Requeue, LostItems, ProcessingItems
<1>11. CASE SelectPhase2Jobs   BY <1>11 DEF SelectPhase2Jobs, Watch2Goto
<1>12. CASE CountUndone   BY <1>12 DEF CountUndone, Watch2Goto
<1>13. CASE CountUnverified   BY <1>13 DEF CountUnverified, Watch2Goto
<1>14. CASE AdvanceToPhase2b
    BY <1>14 DEF AdvanceToPhase2b, Watch2Phase, SetPhase, JobExists
<1>15. CASE FinishPhase   BY <1>15 DEF FinishPhase, Watch2Phase, SetPhase, JobExists
<1>16. CASE FinishStatus   BY <1>16 DEF FinishStatus, SetStatus, JobExists
<1>17. CASE PurgeTlsOk   BY <1>17 DEF PurgeTlsOk
<1>18. CASE MasterCleanup   BY <1>18 DEF MasterCleanup
<1>19. CASE CancelStatus   BY <1>19 DEF CancelStatus, SetStatus, JobExists
<1>20. CASE CancelRequeue   BY <1>20 DEF CancelRequeue, Requeue, ProcessingItems
<1>21. CASE DeleteResults   BY <1>21 DEF DeleteResults
<1>22. CASE DeleteQueue   BY <1>22 DEF DeleteQueue
<1>23. CASE DeleteMasscan   BY <1>23 DEF DeleteMasscan
<1>24. CASE DeleteJobRow   BY <1>24 DEF DeleteJobRow
<1>25. CASE MasterRestart   BY <1>25 DEF MasterRestart
<1>26. CASE MasterStatementFails
    BY <1>26 DEF MasterStatementFails, DbFault, PopulateFails,
         CountFailsAtMaster
<1>. QED
  BY <1>1, <1>2, <1>3, <1>4, <1>5, <1>6, <1>7, <1>8, <1>9, <1>10, <1>11,
     <1>12, <1>13, <1>14, <1>15, <1>16, <1>17, <1>18, <1>19, <1>20, <1>21,
     <1>22, <1>23, <1>24, <1>25, <1>26 DEF MasterStep, CreateStep, Watch1Step,
     Watch2Step, CancelStep, DeleteStep

(* A worker can make a hit only of a row in processing.                    *)
LEMMA DoneWorker ==
  ASSUME "db" \notin Faults, TypeOK, PhaseInv, ScanInv, ClaimInv, DoneInv, NEW u \in Worker,
         WorkerStep(u) \/ CrashWorker(u) \/ LoseMessage(u) \/ FetchFails(u)
            \/ ReadFailsAtWorker(u) \/ FlushFails(u) \/ InsertHitFails(u)
            \/ ScanPanics(u) \/ VerifyPanics(u)
  PROVE  DoneInv'
<1> USE DEF TypeOK, PhaseInv, ScanInv, ClaimInv, DoneInv, Held, UndoneItems, UnverifiedItems
<1>1. CASE StartWorker(u)   BY <1>1 DEF StartWorker
<1>2. CASE RegisterWorker(u)   BY <1>2 DEF RegisterWorker
<1>3. CASE SubscribePhase2(u)   BY <1>3 DEF SubscribePhase2
<1>4. CASE ReceiveChunk(u)   BY <1>4 DEF ReceiveChunk
<1>5. CASE InsertMasscanResults(u)   BY <1>5 DEF InsertMasscanResults
<1>6. CASE MarkPhase1Done(u)   BY <1>6 DEF MarkPhase1Done, OneMoreDone, JobExists
<1>7. CASE ReceivePhase2(u)   BY <1>7 DEF ReceivePhase2, EnterPhase2
<1>8. CASE StartupPickup(u)   BY <1>8 DEF StartupPickup, EnterPhase2
<1>9. CASE Reconcile(u)   BY <1>9 DEF Reconcile, Goto
<1>10. CASE CheckCancelled(u)   BY <1>10 DEF CheckCancelled, Goto
<1>11. CASE FetchWorkBatch(u)
    BY <1>11 DEF FetchWorkBatch, Claim, Batches, Fetchable, PendingItems
<1>12. CASE ScanMiss(u)   BY <1>12 DEF ScanMiss
<1>13. CASE ScanHit(u)   BY <1>13 DEF ScanHit
<1>14. CASE MarkHit(u)   BY <1>14 DEF MarkHit, RowsDone
<1>15. CASE Flush(u)   BY <1>15 DEF Flush, RowsDone, Flushable
<1>16. CASE NextBatch(u)   BY <1>16 DEF NextBatch, Goto
<1>17. CASE CountUnfinished(u)   BY <1>17 DEF CountUnfinished, Goto, AfterScan
<1>18. CASE CheckUnverified(u)   BY <1>18 DEF CheckUnverified, Goto
<1>19. CASE CheckCancelled2b(u)   BY <1>19 DEF CheckCancelled2b, Goto
<1>20. CASE FetchUnverified(u)
    BY <1>20 DEF FetchUnverified, VerifyBatches, UnverifiedItems
<1>21. CASE VerifyRejects(u)   BY <1>21 DEF VerifyRejects, RejectRow
<1>22. CASE VerifyAccepts(u)   BY <1>22 DEF VerifyAccepts
<1>23. CASE MarkVerified(u)   BY <1>23 DEF MarkVerified, RowsDone
<1>24. CASE NextVerifyBatch(u)   BY <1>24 DEF NextVerifyBatch, Goto
<1>25. CASE CrashWorker(u)   BY <1>25 DEF CrashWorker
<1>26. CASE LoseMessage(u)   BY <1>26 DEF LoseMessage
<1>27. CASE FetchFails(u)   BY <1>27 DEF FetchFails, DbFault, Claim, Batches
<1>28. CASE ReadFailsAtWorker(u)   BY <1>28 DEF ReadFailsAtWorker, DbFault, AfterScan
<1>29. CASE FlushFails(u)   BY <1>29 DEF FlushFails, DbFault, Flushable
<1>30. CASE InsertHitFails(u)   BY <1>30 DEF InsertHitFails, DbFault
<1>31. CASE ScanPanics(u)   BY <1>31 DEF ScanPanics, PanicFault
<1>32. CASE VerifyPanics(u)   BY <1>32 DEF VerifyPanics, PanicFault
<1>. QED
  BY <1>1, <1>2, <1>3, <1>4, <1>5, <1>6, <1>7, <1>8, <1>9, <1>10, <1>11,
     <1>12, <1>13, <1>14, <1>15, <1>16, <1>17, <1>18, <1>19, <1>20, <1>21,
     <1>22, <1>23, <1>24, <1>25, <1>26, <1>27, <1>28, <1>29, <1>30, <1>31,
     <1>32 DEF WorkerStep, BootStep, Phase1Step, ScanStep, VerifyStep

(* No statement of the master makes a row processing.                      *)
LEMMA StrandMaster ==
  ASSUME TypeOK, NoStranding,
         MasterStep \/ MasterRestart \/ MasterStatementFails
  PROVE  NoStranding'
<1> USE DEF TypeOK, NoStranding, Held, ProcessingItems
<1>1. CASE \E w \in Worker : PublishChunk(w)   BY <1>1 DEF PublishChunk
<1>2. CASE CreateJob   BY <1>2 DEF CreateJob
<1>3. CASE ResolveFails   BY <1>3 DEF ResolveFails, SetStatus, JobExists
<1>4. CASE SelectWorkers   BY <1>4 DEF SelectWorkers
<1>5. CASE StartJob   BY <1>5 DEF StartJob, SetStatus, JobExists
<1>6. CASE SelectPhase1Jobs   BY <1>6 DEF SelectPhase1Jobs
<1>7. CASE PopulateWorkQueue   BY <1>7 DEF PopulateWorkQueue
<1>8. CASE AdvanceToPhase2   BY <1>8 DEF AdvanceToPhase2, SetPhase, JobExists
<1>9. CASE PublishPhase2   BY <1>9 DEF PublishPhase2
<1>10. CASE RecoverProcessing
    BY <1>10 DEF RecoverProcessing, Requeue, LostItems, ProcessingItems
<1>11. CASE SelectPhase2Jobs   BY <1>11 DEF SelectPhase2Jobs, Watch2Goto
<1>12. CASE CountUndone   BY <1>12 DEF CountUndone, Watch2Goto
<1>13. CASE CountUnverified   BY <1>13 DEF CountUnverified, Watch2Goto
<1>14. CASE AdvanceToPhase2b
    BY <1>14 DEF AdvanceToPhase2b, Watch2Phase, SetPhase, JobExists
<1>15. CASE FinishPhase   BY <1>15 DEF FinishPhase, Watch2Phase, SetPhase, JobExists
<1>16. CASE FinishStatus   BY <1>16 DEF FinishStatus, SetStatus, JobExists
<1>17. CASE PurgeTlsOk   BY <1>17 DEF PurgeTlsOk
<1>18. CASE MasterCleanup   BY <1>18 DEF MasterCleanup
<1>19. CASE CancelStatus   BY <1>19 DEF CancelStatus, SetStatus, JobExists
<1>20. CASE CancelRequeue   BY <1>20 DEF CancelRequeue, Requeue, ProcessingItems
<1>21. CASE DeleteResults   BY <1>21 DEF DeleteResults
<1>22. CASE DeleteQueue   BY <1>22 DEF DeleteQueue
<1>23. CASE DeleteMasscan   BY <1>23 DEF DeleteMasscan
<1>24. CASE DeleteJobRow   BY <1>24 DEF DeleteJobRow
<1>25. CASE MasterRestart   BY <1>25 DEF MasterRestart
<1>26. CASE MasterStatementFails
    BY <1>26 DEF MasterStatementFails, DbFault, PopulateFails,
         CountFailsAtMaster
<1>. QED
  BY <1>1, <1>2, <1>3, <1>4, <1>5, <1>6, <1>7, <1>8, <1>9, <1>10, <1>11,
     <1>12, <1>13, <1>14, <1>15, <1>16, <1>17, <1>18, <1>19, <1>20, <1>21,
     <1>22, <1>23, <1>24, <1>25, <1>26 DEF MasterStep, CreateStep, Watch1Step,
     Watch2Step, CancelStep, DeleteStep

(* A worker holds what it claims until the row is done.                    *)
LEMMA StrandWorker ==
  ASSUME TypeOK, ScanInv, NoStranding, NEW u \in Worker,
         WorkerStep(u) \/ CrashWorker(u) \/ LoseMessage(u) \/ FetchFails(u)
            \/ ReadFailsAtWorker(u) \/ FlushFails(u) \/ InsertHitFails(u)
            \/ ScanPanics(u) \/ VerifyPanics(u)
  PROVE  NoStranding'
<1> USE DEF TypeOK, ScanInv, NoStranding, Held, ProcessingItems
<1>1. CASE StartWorker(u)   BY <1>1 DEF StartWorker
<1>2. CASE RegisterWorker(u)   BY <1>2 DEF RegisterWorker
<1>3. CASE SubscribePhase2(u)   BY <1>3 DEF SubscribePhase2
<1>4. CASE ReceiveChunk(u)   BY <1>4 DEF ReceiveChunk
<1>5. CASE InsertMasscanResults(u)   BY <1>5 DEF InsertMasscanResults
<1>6. CASE MarkPhase1Done(u)   BY <1>6 DEF MarkPhase1Done, OneMoreDone, JobExists
<1>7. CASE ReceivePhase2(u)   BY <1>7 DEF ReceivePhase2, EnterPhase2
<1>8. CASE StartupPickup(u)   BY <1>8 DEF StartupPickup, EnterPhase2
<1>9. CASE Reconcile(u)   BY <1>9 DEF Reconcile, Goto
<1>10. CASE CheckCancelled(u)   BY <1>10 DEF CheckCancelled, Goto
<1>11. CASE FetchWorkBatch(u)
    BY <1>11 DEF FetchWorkBatch, Claim, Batches, Fetchable, PendingItems
<1>12. CASE ScanMiss(u)   BY <1>12 DEF ScanMiss
<1>13. CASE ScanHit(u)   BY <1>13 DEF ScanHit
<1>14. CASE MarkHit(u)   BY <1>14 DEF MarkHit, RowsDone
<1>15. CASE Flush(u)   BY <1>15 DEF Flush, RowsDone, Flushable
<1>16. CASE NextBatch(u)   BY <1>16 DEF NextBatch, Goto
<1>17. CASE CountUnfinished(u)   BY <1>17 DEF CountUnfinished, Goto, AfterScan
<1>18. CASE CheckUnverified(u)   BY <1>18 DEF CheckUnverified, Goto
<1>19. CASE CheckCancelled2b(u)   BY <1>19 DEF CheckCancelled2b, Goto
<1>20. CASE FetchUnverified(u)
    BY <1>20 DEF FetchUnverified, VerifyBatches, UnverifiedItems
<1>21. CASE VerifyRejects(u)   BY <1>21 DEF VerifyRejects, RejectRow
<1>22. CASE VerifyAccepts(u)   BY <1>22 DEF VerifyAccepts
<1>23. CASE MarkVerified(u)   BY <1>23 DEF MarkVerified, RowsDone
<1>24. CASE NextVerifyBatch(u)   BY <1>24 DEF NextVerifyBatch, Goto
<1>25. CASE CrashWorker(u)   BY <1>25 DEF CrashWorker
<1>26. CASE LoseMessage(u)   BY <1>26 DEF LoseMessage
<1>27. CASE FetchFails(u)   BY <1>27 DEF FetchFails, DbFault, Claim, Batches
<1>28. CASE ReadFailsAtWorker(u)   BY <1>28 DEF ReadFailsAtWorker, DbFault, AfterScan
<1>29. CASE FlushFails(u)   BY <1>29 DEF FlushFails, DbFault, Flushable
<1>30. CASE InsertHitFails(u)   BY <1>30 DEF InsertHitFails, DbFault
<1>31. CASE ScanPanics(u)   BY <1>31 DEF ScanPanics, PanicFault
<1>32. CASE VerifyPanics(u)   BY <1>32 DEF VerifyPanics, PanicFault
<1>. QED
  BY <1>1, <1>2, <1>3, <1>4, <1>5, <1>6, <1>7, <1>8, <1>9, <1>10, <1>11,
     <1>12, <1>13, <1>14, <1>15, <1>16, <1>17, <1>18, <1>19, <1>20, <1>21,
     <1>22, <1>23, <1>24, <1>25, <1>26, <1>27, <1>28, <1>29, <1>30, <1>31,
     <1>32 DEF WorkerStep, BootStep, Phase1Step, ScanStep, VerifyStep

-----------------------------------------------------------------------------
(* The theorems.                                                           *)

Inv == TypeOK /\ PhaseInv /\ ScanInv /\ ClaimInv

(* The invariant of every run, with any requests and any faults.           *)
LEMMA InvInductive == Inv /\ [Next]_vars => Inv'
<1> SUFFICES ASSUME Inv, [Next]_vars PROVE Inv'
  OBVIOUS
<1>1. CASE UNCHANGED vars
  BY <1>1 DEF Inv, TypeOK, PhaseInv, ScanInv, ClaimInv, Held, Fresh
<1>2. CASE MasterStep \/ MasterRestart \/ MasterStatementFails
  BY <1>2, TypeMaster, PhaseMaster, ScanMaster, ClaimMaster DEF Inv
<1>3. CASE \E u \in Worker :
             WorkerStep(u) \/ CrashWorker(u) \/ LoseMessage(u) \/ FetchFails(u)
                \/ ReadFailsAtWorker(u) \/ FlushFails(u) \/ InsertHitFails(u)
                \/ ScanPanics(u) \/ VerifyPanics(u)
  BY <1>3, TypeWorker, PhaseWorker, ScanWorker, ClaimWorker DEF Inv
<1>. QED
  BY <1>1, <1>2, <1>3 DEF Next, FaultStep

(* It holds in the first state and in every later one.                     *)
LEMMA InvHolds == Spec => []Inv
<1>1. Init => Inv
  BY PipelineAssumption
  DEF Init, Inv, TypeOK, PhaseInv, ScanInv, ClaimInv, Held, Fresh, PipelineAssumption
<1>. QED
  BY <1>1, InvInductive, PTL DEF Spec

(* As long as the user neither cancels nor deletes, no two workers scan    *)
(* the same row, whatever crashes, gets lost or fails.                     *)
THEOREM OneScannerHolds == Spec => []OneScanner
<1>1. Inv => OneScanner
  BY DEF Inv, ClaimInv, OneScanner, Held, TypeOK
<1>. QED
  BY <1>1, InvHolds, PTL

(* The phase of a job never goes back, whatever users and faults do.       *)
THEOREM PhaseMonotoneHolds == Spec => PhaseMonotone
<1>1. Inv /\ [Next]_vars => [PhaseRank(jobPhase) <= PhaseRank(jobPhase')]_vars
  <2> SUFFICES ASSUME Inv, Next PROVE PhaseRank(jobPhase) <= PhaseRank(jobPhase')
    OBVIOUS
  <2> USE DEF Inv, TypeOK, PhaseInv, PhaseRank
  <2>1. CASE AdvanceToPhase2
    BY <2>1 DEF AdvanceToPhase2, SetPhase, JobExists
  <2>2. CASE AdvanceToPhase2b
    BY <2>2 DEF AdvanceToPhase2b, Watch2Phase, SetPhase, JobExists
  <2>3. CASE FinishPhase
    BY SMTT(60), <2>3 DEF FinishPhase, Watch2Phase, SetPhase, JobExists
  <2>4. ~(AdvanceToPhase2 \/ AdvanceToPhase2b \/ FinishPhase) => UNCHANGED jobPhase
    BY DEF Next, MasterStep, FaultStep, WorkerStep, CreateStep, Watch1Step, Watch2Step,
           CancelStep, DeleteStep, BootStep, Phase1Step, ScanStep, VerifyStep,
           CreateJob, ResolveFails, SelectWorkers, StartJob, PublishChunk,
           SelectPhase1Jobs, PopulateWorkQueue, PublishPhase2, RecoverProcessing,
           SelectPhase2Jobs, CountUndone, CountUnverified, Watch2Goto, FinishStatus,
           PurgeTlsOk, MasterCleanup, CancelStatus, CancelRequeue, DeleteResults,
           DeleteQueue, DeleteMasscan, DeleteJobRow, MasterRestart,
           MasterStatementFails, StartWorker, RegisterWorker, SubscribePhase2,
           ReceiveChunk, InsertMasscanResults, MarkPhase1Done, ReceivePhase2,
           StartupPickup, Reconcile, Goto, CheckCancelled, FetchWorkBatch, ScanMiss,
           ScanHit, MarkHit, Flush, NextBatch, CountUnfinished, CheckUnverified,
           CheckCancelled2b, FetchUnverified, VerifyRejects, VerifyAccepts,
           MarkVerified, NextVerifyBatch, CrashWorker, LoseMessage, FetchFails,
           ReadFailsAtWorker, FlushFails, InsertHitFails,
           ScanPanics, VerifyPanics
  <2>. QED
    BY <2>1, <2>2, <2>3, <2>4
<1>. QED
  BY <1>1, InvHolds, PTL DEF PhaseMonotone, Spec

DoneSafe == Inv /\ DoneInv

(* With a database that answers, what the watcher counted stays true.      *)
LEMMA DoneHolds == ASSUME "db" \notin Faults PROVE Spec => []DoneSafe
<1>1. Init => DoneInv
  BY DEF Init, DoneInv, UndoneItems, UnverifiedItems
<1>2. Inv /\ DoneInv /\ [Next]_vars => DoneInv'
  <2> SUFFICES ASSUME Inv, DoneInv, [Next]_vars PROVE DoneInv'
    OBVIOUS
  <2>1. CASE UNCHANGED vars
    BY <2>1 DEF DoneInv, UndoneItems, UnverifiedItems
  <2>2. CASE MasterStep \/ MasterRestart \/ MasterStatementFails
    BY <2>2, DoneMaster DEF Inv
  <2>3. CASE \E u \in Worker :
               WorkerStep(u) \/ CrashWorker(u) \/ LoseMessage(u) \/ FetchFails(u)
                  \/ ReadFailsAtWorker(u) \/ FlushFails(u) \/ InsertHitFails(u)
                  \/ ScanPanics(u) \/ VerifyPanics(u)
    BY <2>3, DoneWorker DEF Inv
  <2>. QED
    BY <2>1, <2>2, <2>3 DEF Next, FaultStep
<1>. QED
  BY <1>1, <1>2, InvHolds, PTL DEF DoneSafe, Spec

(* If statements do not fail, a job nobody cancelled or deleted is done    *)
(* only when every hit has its verification, however workers and master    *)
(* crash and messages get lost.                                            *)
THEOREM DoneMeansVerifiedHolds ==
  ASSUME "db" \notin Faults PROVE Spec => []DoneMeansVerified
<1>1. DoneSafe => DoneMeansVerified
  BY DEF DoneSafe, DoneInv, DoneMeansVerified
<1>. QED
  BY <1>1, DoneHolds, PTL

(* ... and the master's last DELETE finds nothing unverified to delete.    *)
THEOREM HitsKeptHolds ==
  ASSUME "db" \notin Faults PROVE Spec => HitsKept
<1>1. ASSUME DoneSafe, [Next]_vars
      PROVE  [\A i \in Item : requests' = {} /\ result[i] = "tls-ok"
                              => result'[i] # "none"]_vars
  <2> SUFFICES ASSUME Next, NEW i \in Item, requests' = {}, result[i] = "tls-ok"
               PROVE  result'[i] # "none"
    BY <1>1
  <2> USE <1>1 DEF DoneSafe, Inv, TypeOK
  <2>1. CASE MasterStep
    <3>1. CASE PurgeTlsOk
      BY <3>1 DEF PurgeTlsOk, DoneInv, UnverifiedItems
    <3>2. CASE DeleteResults
      BY <3>2 DEF DeleteResults
    <3>3. ~(PurgeTlsOk \/ DeleteResults) => UNCHANGED result
      BY <2>1 DEF MasterStep, CreateStep, Watch1Step, Watch2Step, CancelStep, DeleteStep,
         CreateJob, ResolveFails, SelectWorkers, StartJob, PublishChunk,
         SelectPhase1Jobs, PopulateWorkQueue, AdvanceToPhase2, PublishPhase2,
         RecoverProcessing, SelectPhase2Jobs, CountUndone, CountUnverified, Watch2Goto,
         AdvanceToPhase2b, FinishPhase, Watch2Phase, FinishStatus, MasterCleanup,
         CancelStatus, CancelRequeue, DeleteQueue, DeleteMasscan, DeleteJobRow
    <3>. QED
      BY <3>1, <3>2, <3>3
  <2>2. CASE FaultStep
    BY <2>2 DEF FaultStep, MasterRestart, MasterStatementFails, CrashWorker, LoseMessage,
                FetchFails, ReadFailsAtWorker, FlushFails, InsertHitFails,
                ScanPanics, VerifyPanics
  <2>3. ASSUME NEW w \in Worker, WorkerStep(w) PROVE result'[i] # "none"
    <3>1. CASE ScanHit(w)
      BY <3>1 DEF ScanHit
    <3>2. CASE VerifyRejects(w)
      BY <3>2 DEF VerifyRejects, RejectRow
    <3>3. CASE VerifyAccepts(w)
      BY <3>3 DEF VerifyAccepts
    <3>4. ~(ScanHit(w) \/ VerifyRejects(w) \/ VerifyAccepts(w)) => UNCHANGED result
      BY <2>3 DEF WorkerStep, BootStep, Phase1Step, ScanStep, VerifyStep, StartWorker,
         RegisterWorker, SubscribePhase2, ReceiveChunk, InsertMasscanResults,
         MarkPhase1Done, ReceivePhase2, StartupPickup, Reconcile, Goto, CheckCancelled,
         FetchWorkBatch, ScanMiss, MarkHit, Flush, NextBatch, CountUnfinished,
         CheckUnverified, CheckCancelled2b, FetchUnverified, MarkVerified,
         NextVerifyBatch
    <3>. QED
      BY <3>1, <3>2, <3>3, <3>4
  <2>. QED
    BY <2>1, <2>2, <2>3 DEF Next
<1>. QED
  BY <1>1, DoneHolds, PTL DEF HitsKept, Spec

(* A verified row stays verified, whichever statements fail.               *)
THEOREM VerifiedStableHolds == Spec => VerifiedStable
<1>1. ASSUME Inv, [Next]_vars
      PROVE  [\A i \in Item : requests' = {} /\ result[i] = "verified"
                              => result'[i] = "verified"]_vars
  <2> SUFFICES ASSUME Next, NEW i \in Item, requests' = {}, result[i] = "verified"
               PROVE  result'[i] = "verified"
    BY <1>1
  <2> USE <1>1 DEF Inv, TypeOK
  <2>1. CASE MasterStep
    <3>1. CASE PurgeTlsOk
      BY <3>1 DEF PurgeTlsOk
    <3>2. CASE DeleteResults
      BY <3>2 DEF DeleteResults
    <3>3. ~(PurgeTlsOk \/ DeleteResults) => UNCHANGED result
      BY <2>1 DEF MasterStep, CreateStep, Watch1Step, Watch2Step, CancelStep, DeleteStep,
         CreateJob, ResolveFails, SelectWorkers, StartJob, PublishChunk,
         SelectPhase1Jobs, PopulateWorkQueue, AdvanceToPhase2, PublishPhase2,
         RecoverProcessing, SelectPhase2Jobs, CountUndone, CountUnverified, Watch2Goto,
         AdvanceToPhase2b, FinishPhase, Watch2Phase, FinishStatus, MasterCleanup,
         CancelStatus, CancelRequeue, DeleteQueue, DeleteMasscan, DeleteJobRow
    <3>. QED
      BY <3>1, <3>2, <3>3
  <2>2. CASE FaultStep
    BY <2>2 DEF FaultStep, MasterRestart, MasterStatementFails, CrashWorker, LoseMessage,
                FetchFails, ReadFailsAtWorker, FlushFails, InsertHitFails,
                ScanPanics, VerifyPanics
  <2>3. ASSUME NEW w \in Worker, WorkerStep(w) PROVE result'[i] = "verified"
    <3>1. CASE ScanHit(w)
      <4>1. requests = {}
        BY <3>1 DEF ScanHit
      <4>2. PICK j \in todo[w] : result' = [result EXCEPT ![j] = "tls-ok"]
        BY <3>1 DEF ScanHit
      <4>3. j # i
        BY <3>1, <4>1 DEF ScanHit, ClaimInv, Fresh
      <4>. QED
        BY <4>2, <4>3
    <3>2. CASE VerifyRejects(w)
      BY <3>2 DEF VerifyRejects, RejectRow
    <3>3. CASE VerifyAccepts(w)
      BY <3>3 DEF VerifyAccepts
    <3>4. ~(ScanHit(w) \/ VerifyRejects(w) \/ VerifyAccepts(w)) => UNCHANGED result
      BY <2>3 DEF WorkerStep, BootStep, Phase1Step, ScanStep, VerifyStep, StartWorker,
         RegisterWorker, SubscribePhase2, ReceiveChunk, InsertMasscanResults,
         MarkPhase1Done, ReceivePhase2, StartupPickup, Reconcile, Goto, CheckCancelled,
         FetchWorkBatch, ScanMiss, MarkHit, Flush, NextBatch, CountUnfinished,
         CheckUnverified, CheckCancelled2b, FetchUnverified, MarkVerified,
         NextVerifyBatch
    <3>. QED
      BY <3>1, <3>2, <3>3, <3>4
  <2>. QED
    BY <2>1, <2>2, <2>3 DEF Next
<1>. QED
  BY <1>1, InvHolds, PTL DEF VerifiedStable, Spec

(* Without faults a row in processing is being scanned by its owner, even  *)
(* across cancellations and deletions.                                     *)
THEOREM NoStrandingHolds == Spec => []NoStranding
<1>1. Init => NoStranding
  BY DEF Init, NoStranding, ProcessingItems
<1>2. Inv /\ NoStranding /\ [Next]_vars => NoStranding'
  <2> SUFFICES ASSUME Inv, NoStranding, [Next]_vars PROVE NoStranding'
    OBVIOUS
  <2>1. CASE UNCHANGED vars
    BY <2>1 DEF NoStranding, ProcessingItems, Held
  <2>2. CASE MasterStep \/ MasterRestart \/ MasterStatementFails
    BY <2>2, StrandMaster DEF Inv
  <2>3. CASE \E u \in Worker :
               WorkerStep(u) \/ CrashWorker(u) \/ LoseMessage(u) \/ FetchFails(u)
                  \/ ReadFailsAtWorker(u) \/ FlushFails(u) \/ InsertHitFails(u)
                  \/ ScanPanics(u) \/ VerifyPanics(u)
    BY <2>3, StrandWorker DEF Inv
  <2>. QED
    BY <2>1, <2>2, <2>3 DEF Next, FaultStep
<1>. QED
  BY <1>1, <1>2, InvHolds, PTL DEF Spec

=============================================================================
