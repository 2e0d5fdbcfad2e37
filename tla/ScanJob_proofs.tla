--------------------------- MODULE ScanJob_proofs ---------------------------
(***************************************************************************)
(* The job pipeline implements the promise of ScanJob, for every set of    *)
(* workers and items and any crashes, restarts and lost messages, as long  *)
(* as no SQL statement fails.                                              *)
(***************************************************************************)
EXTENDS JobPipeline_proofs

USE DEF vars, dbVars, jobVars, itemVars, natsVars, masterVars, createVars, watchVars,
        requestVars, workerVars, procVars, phase2Vars, scanVars, history

-----------------------------------------------------------------------------
(* While the user requests nothing: what the status is at each place of    *)
(* the master's goroutines, that rows of the queue belong to a job that    *)
(* was started, and that a row under verification is there until the job   *)
(* is done.                                                                *)
StatusInv ==
    requests = {} =>
        /\ createPc = "none" => jobStatus = "absent"
        /\ createPc \in {"resolve", "start"} => jobStatus = "pending"
        /\ watch2 \in {"undone", "unverified", "phase2b", "finish", "status"}
              => jobStatus = "running"
        /\ watch2 = "purge" => jobStatus = "done"
        /\ watch1 = "populate" => jobStatus \in {"running", "done"}
        /\ \A i \in Item : queue[i] # "absent" => jobStatus \in {"running", "done"}
        /\ \A w \in Worker : \A i \in verifying[w] :
              result[i] # "none" \/ jobStatus = "done"

(* The master changes the status only where the goroutines expect it.      *)
LEMMA StatusMaster ==
  ASSUME TypeOK, ScanInv, StatusInv,
         MasterStep \/ MasterRestart \/ MasterStatementFails
  PROVE  StatusInv'
<1> USE DEF TypeOK, ScanInv, StatusInv
<1>1. CASE \E w \in Worker : PublishChunk(w)   BY <1>1 DEF PublishChunk
<1>2. CASE CreateJob   BY <1>2 DEF CreateJob
<1>3. CASE ResolveFails   BY <1>3 DEF ResolveFails, SetStatus, JobExists
<1>4. CASE SelectWorkers   BY <1>4 DEF SelectWorkers
<1>5. CASE StartJob   BY <1>5 DEF StartJob, SetStatus, JobExists
<1>6. CASE SelectPhase1Jobs   BY <1>6 DEF SelectPhase1Jobs, Phase1Complete
<1>7. CASE PopulateWorkQueue   BY <1>7 DEF PopulateWorkQueue
<1>8. CASE AdvanceToPhase2   BY <1>8 DEF AdvanceToPhase2, SetPhase, JobExists
<1>9. CASE PublishPhase2   BY <1>9 DEF PublishPhase2
<1>10. CASE RecoverProcessing
    BY <1>10 DEF RecoverProcessing, Requeue, LostItems, ProcessingItems
<1>11. CASE SelectPhase2Jobs   BY <1>11 DEF SelectPhase2Jobs, Watch2Goto
<1>12. CASE CountUndone   BY <1>12 DEF CountUndone, Watch2Goto
<1>13. CASE CountUnverified   BY <1>13 DEF CountUnverified, Watch2Goto
<1>14. CASE AdvanceToPhase2b
    BY <1>14 DEF AdvanceToPhase2b, Watch2Phase, SetPhase, JobExists
<1>15. CASE FinishPhase
    BY <1>15 DEF FinishPhase, Watch2Phase, SetPhase, JobExists
<1>16. CASE FinishStatus   BY <1>16 DEF FinishStatus, SetStatus, JobExists
<1>17. CASE PurgeTlsOk   BY <1>17 DEF PurgeTlsOk
<1>18. CASE MasterCleanup   BY <1>18 DEF MasterCleanup
<1>19. CASE CancelStatus   BY <1>19 DEF CancelStatus, SetStatus, JobExists
<1>20. CASE CancelRequeue   BY <1>20 DEF CancelRequeue, Requeue, ProcessingItems
<1>21. CASE DeleteResults   BY <1>21 DEF DeleteResults
<1>22. CASE DeleteQueue   BY <1>22 DEF DeleteQueue
<1>23. CASE DeleteMasscan   BY <1>23 DEF DeleteMasscan
<1>24. CASE DeleteJobRow   BY <1>24 DEF DeleteJobRow
<1>25. CASE MasterRestart   BY <1>25 DEF MasterRestart
<1>26. CASE MasterStatementFails
    BY <1>26 DEF MasterStatementFails, DbFault, PopulateFails,
         CountFailsAtMaster
<1>. QED
  BY <1>1, <1>2, <1>3, <1>4, <1>5, <1>6, <1>7, <1>8, <1>9, <1>10, <1>11,
     <1>12, <1>13, <1>14, <1>15, <1>16, <1>17, <1>18, <1>19, <1>20, <1>21,
     <1>22, <1>23, <1>24, <1>25, <1>26 DEF MasterStep, CreateStep, Watch1Step,
     Watch2Step, CancelStep, DeleteStep

(* No worker changes the status; a row disappears only when the job is done.*)
LEMMA StatusWorker ==
  ASSUME TypeOK, ScanInv, StatusInv, NEW u \in Worker,
         WorkerStep(u) \/ CrashWorker(u) \/ LoseMessage(u) \/ FetchFails(u)
            \/ ReadFailsAtWorker(u) \/ FlushFails(u) \/ InsertHitFails(u)
            \/ ScanPanics(u) \/ VerifyPanics(u)
  PROVE  StatusInv'
<1> USE DEF TypeOK, ScanInv, StatusInv
<1>1. CASE StartWorker(u)   BY <1>1 DEF StartWorker
<1>2. CASE RegisterWorker(u)   BY <1>2 DEF RegisterWorker
<1>3. CASE SubscribePhase2(u)   BY <1>3 DEF SubscribePhase2
<1>4. CASE ReceiveChunk(u)   BY <1>4 DEF ReceiveChunk
<1>5. CASE InsertMasscanResults(u)   BY <1>5 DEF InsertMasscanResults
<1>6. CASE MarkPhase1Done(u)
    BY <1>6 DEF MarkPhase1Done, OneMoreDone, JobExists
<1>7. CASE ReceivePhase2(u)   BY <1>7 DEF ReceivePhase2, EnterPhase2
<1>8. CASE StartupPickup(u)   BY <1>8 DEF StartupPickup, EnterPhase2
<1>9. CASE Reconcile(u)   BY <1>9 DEF Reconcile, Goto
<1>10. CASE CheckCancelled(u)   BY <1>10 DEF CheckCancelled, Goto
<1>11. CASE FetchWorkBatch(u)
    BY <1>11 DEF FetchWorkBatch, Claim, Batches, Fetchable, PendingItems
<1>12. CASE ScanMiss(u)   BY <1>12 DEF ScanMiss
<1>13. CASE ScanHit(u)   BY <1>13 DEF ScanHit
<1>14. CASE MarkHit(u)   BY <1>14 DEF MarkHit, RowsDone
<1>15. CASE Flush(u)   BY <1>15 DEF Flush, RowsDone, Flushable
<1>16. CASE NextBatch(u)   BY <1>16 DEF NextBatch, Goto
<1>17. CASE CountUnfinished(u)   BY <1>17 DEF CountUnfinished, Goto, AfterScan
<1>18. CASE CheckUnverified(u)   BY <1>18 DEF CheckUnverified, Goto
<1>19. CASE CheckCancelled2b(u)   BY <1>19 DEF CheckCancelled2b, Goto
<1>20. CASE FetchUnverified(u)
    BY <1>20 DEF FetchUnverified, VerifyBatches, UnverifiedItems
<1>21. CASE VerifyRejects(u)   BY <1>21 DEF VerifyRejects, RejectRow
<1>22. CASE VerifyAccepts(u)   BY <1>22 DEF VerifyAccepts
<1>23. CASE MarkVerified(u)   BY <1>23 DEF MarkVerified, RowsDone
<1>24. CASE NextVerifyBatch(u)   BY <1>24 DEF NextVerifyBatch, Goto
<1>25. CASE CrashWorker(u)   BY <1>25 DEF CrashWorker
<1>26. CASE LoseMessage(u)   BY <1>26 DEF LoseMessage
<1>27. CASE FetchFails(u)
    BY <1>27 DEF FetchFails, DbFault, Claim, Batches, Fetchable, PendingItems
<1>28. CASE ReadFailsAtWorker(u)
    BY <1>28 DEF ReadFailsAtWorker, DbFault, AfterScan
<1>29. CASE FlushFails(u)   BY <1>29 DEF FlushFails, DbFault, Flushable
<1>30. CASE InsertHitFails(u)   BY SMTT(60), <1>30 DEF InsertHitFails, DbFault
<1>31. CASE ScanPanics(u)   BY <1>31 DEF ScanPanics, PanicFault
<1>32. CASE VerifyPanics(u)   BY <1>32 DEF VerifyPanics, PanicFault
<1>. QED
  BY <1>1, <1>2, <1>3, <1>4, <1>5, <1>6, <1>7, <1>8, <1>9, <1>10, <1>11,
     <1>12, <1>13, <1>14, <1>15, <1>16, <1>17, <1>18, <1>19, <1>20, <1>21,
     <1>22, <1>23, <1>24, <1>25, <1>26, <1>27, <1>28, <1>29, <1>30, <1>31,
     <1>32 DEF WorkerStep, BootStep, Phase1Step, ScanStep, VerifyStep

(* A request is never forgotten.                                           *)
LEMMA RequestsGrow == ASSUME [Next]_vars PROVE requests \subseteq requests'
BY DEF Next, MasterStep, FaultStep, WorkerStep, CreateStep, Watch1Step, Watch2Step,
       CancelStep, DeleteStep, BootStep, Phase1Step, ScanStep, VerifyStep,
       CreateJob, ResolveFails, SelectWorkers, StartJob, PublishChunk,
       SelectPhase1Jobs, PopulateWorkQueue, AdvanceToPhase2, PublishPhase2,
       RecoverProcessing, SelectPhase2Jobs, CountUndone, CountUnverified, Watch2Goto,
       AdvanceToPhase2b, FinishPhase, Watch2Phase, FinishStatus, PurgeTlsOk,
       MasterCleanup, CancelStatus, CancelRequeue, DeleteResults, DeleteQueue,
       DeleteMasscan, DeleteJobRow, MasterRestart, MasterStatementFails, DbFault,
       StartWorker, RegisterWorker, SubscribePhase2, ReceiveChunk,
       InsertMasscanResults, MarkPhase1Done, ReceivePhase2, StartupPickup, Reconcile,
       Goto, CheckCancelled, FetchWorkBatch, ScanMiss, ScanHit, MarkHit, Flush,
       NextBatch, CountUnfinished, CheckUnverified, CheckCancelled2b,
       FetchUnverified, VerifyRejects, VerifyAccepts, MarkVerified, NextVerifyBatch,
       CrashWorker, LoseMessage, FetchFails, ReadFailsAtWorker, FlushFails,
       InsertHitFails, PanicFault, ScanPanics, VerifyPanics

JobSafe == DoneSafe /\ StatusInv

(* The invariant under which a step of the pipeline is a step of the job.  *)
LEMMA JobSafeHolds == ASSUME "db" \notin Faults PROVE Spec => []JobSafe
<1>1. Init => StatusInv
  BY DEF Init, StatusInv
<1>2. Inv /\ StatusInv /\ [Next]_vars => StatusInv'
  <2> SUFFICES ASSUME Inv, StatusInv, [Next]_vars PROVE StatusInv'
    OBVIOUS
  <2>1. CASE UNCHANGED vars
    BY <2>1 DEF StatusInv
  <2>2. CASE MasterStep \/ MasterRestart \/ MasterStatementFails
    BY <2>2, StatusMaster DEF Inv
  <2>3. CASE \E u \in Worker :
               WorkerStep(u) \/ CrashWorker(u) \/ LoseMessage(u) \/ FetchFails(u)
                  \/ ReadFailsAtWorker(u) \/ FlushFails(u) \/ InsertHitFails(u)
                  \/ ScanPanics(u) \/ VerifyPanics(u)
    BY <2>3, StatusWorker DEF Inv
  <2>. QED
    BY <2>1, <2>2, <2>3 DEF Next, FaultStep
<1>. QED
  BY <1>1, <1>2, InvHolds, DoneHolds, PTL DEF JobSafe, Spec

(* A step that moves only the status is one of the job's status steps.     *)
LEMMA StatusStep ==
  ASSUME NEW from, NEW to, jobStatus = from, jobStatus' = to,
         UNCHANGED <<result, requests>>
  PROVE  Job!Become(from, to)
BY DEF Job!Become

(* The master's steps, as the user sees them.                              *)
LEMMA MasterSimulates ==
  ASSUME JobSafe, requests' = {}, requests = {},
         MasterStep \/ MasterRestart \/ MasterStatementFails
  PROVE  Job!JobNext \/ UNCHANGED <<jobStatus, result, requests>>
<1> USE DEF JobSafe, DoneSafe, Inv, TypeOK, StatusInv
<1>1. CASE CreateJob
  <2>1. jobStatus = "absent" /\ jobStatus' = "pending" /\ UNCHANGED <<result, requests>>
    BY <1>1 DEF CreateJob
  <2>. QED
    BY <2>1, StatusStep DEF Job!JobNext, Job!Create
<1>2. CASE ResolveFails
  <2>1. jobStatus = "pending" /\ jobStatus' = "failed" /\ UNCHANGED <<result, requests>>
    BY <1>2 DEF ResolveFails, SetStatus, JobExists
  <2>. QED
    BY <2>1, StatusStep DEF Job!JobNext, Job!Fail
<1>3. CASE StartJob
  <2>1. jobStatus = "pending" /\ jobStatus' = "running" /\ UNCHANGED <<result, requests>>
    BY <1>3 DEF StartJob, SetStatus, JobExists
  <2>. QED
    BY <2>1, StatusStep DEF Job!JobNext, Job!Start
<1>4. CASE FinishStatus
  <2>1. jobStatus = "running" /\ jobStatus' = "done" /\ UNCHANGED <<result, requests>>
    BY <1>4 DEF FinishStatus, SetStatus, JobExists
  <2>2. \A i \in Item : result[i] # "tls-ok"
    BY <1>4 DEF FinishStatus, DoneInv, UnverifiedItems
  <2>. QED
    BY <2>1, <2>2, StatusStep DEF Job!JobNext, Job!Finish
<1>5. CASE PurgeTlsOk
  <2>1. jobStatus = "done" /\ \A i \in Item : result[i] # "tls-ok"
    BY <1>5 DEF PurgeTlsOk, DoneInv, UnverifiedItems
  <2>2. result' = [i \in Item |-> IF result[i] = "rejected" THEN "none" ELSE result[i]]
    BY <1>5, <2>1 DEF PurgeTlsOk
  <2>3. UNCHANGED <<jobStatus, requests>>
    BY <1>5 DEF PurgeTlsOk
  <2>. QED
    BY <2>1, <2>2, <2>3 DEF Job!JobNext, Job!Purge
<1>6. CASE MasterRestart
  <2>1. UNCHANGED <<result, requests>>
    BY <1>6 DEF MasterRestart
  <2>2. CASE jobStatus = "pending"
    BY <1>6, <2>1, <2>2, StatusStep DEF MasterRestart, Job!JobNext, Job!Drop
  <2>3. CASE jobStatus # "pending"
    BY <1>6, <2>1, <2>3 DEF MasterRestart
  <2>. QED
    BY <2>2, <2>3
<1>7. ~(CreateJob \/ ResolveFails \/ StartJob \/ FinishStatus \/ PurgeTlsOk
         \/ MasterRestart)
      => UNCHANGED <<jobStatus, result, requests>>
  BY DEF ScanInv, MasterStep, CreateStep, Watch1Step, Watch2Step, CancelStep, DeleteStep,
     SelectWorkers, PublishChunk, SelectPhase1Jobs, PopulateWorkQueue,
     AdvanceToPhase2, PublishPhase2, RecoverProcessing, SelectPhase2Jobs, CountUndone,
     CountUnverified, Watch2Goto, AdvanceToPhase2b, FinishPhase, Watch2Phase,
     MasterCleanup, CancelStatus, CancelRequeue, DeleteResults, DeleteQueue,
     DeleteMasscan, DeleteJobRow, MasterStatementFails
<1>. QED
  BY <1>1, <1>2, <1>3, <1>4, <1>5, <1>6, <1>7

(* A worker's steps: it judges one item or nothing.                        *)
LEMMA WorkerSimulates ==
  ASSUME JobSafe, requests' = {}, requests = {}, NEW u \in Worker,
         WorkerStep(u) \/ CrashWorker(u) \/ LoseMessage(u) \/ FetchFails(u)
            \/ ReadFailsAtWorker(u) \/ FlushFails(u) \/ InsertHitFails(u)
            \/ ScanPanics(u) \/ VerifyPanics(u)
  PROVE  Job!JobNext \/ UNCHANGED <<jobStatus, result, requests>>
<1> USE DEF JobSafe, DoneSafe, Inv, TypeOK, StatusInv
<1>1. CASE ScanHit(u)
  <2>1. PICK i \in todo[u] : result' = [result EXCEPT ![i] = "tls-ok"]
    BY <1>1 DEF ScanHit
  <2>2. i \in Item /\ queue[i] = "processing" /\ result[i] = "none"
    BY <1>1 DEF ScanHit, ClaimInv, Fresh
  <2>3. jobStatus = "running"
    BY <2>2 DEF DoneInv, UndoneItems
  <2>4. UNCHANGED <<jobStatus, requests>>
    BY <1>1 DEF ScanHit
  <2>. QED
    BY <2>1, <2>2, <2>3, <2>4 DEF Job!JobNext, Job!Hit, Job!Judge
<1>2. CASE VerifyRejects(u)
  <2>1. PICK i \in verifying[u] : RejectRow(i)
    BY <1>2 DEF VerifyRejects
  <2>2. UNCHANGED <<jobStatus, requests>> /\ i \in Item
    BY <1>2 DEF VerifyRejects
  <2>3. CASE result[i] = "tls-ok"
    BY <2>1, <2>2, <2>3 DEF RejectRow, Job!JobNext, Job!Reject, Job!Judge
  <2>4. CASE result[i] # "tls-ok"
    BY <2>1, <2>2, <2>4 DEF RejectRow
  <2>. QED
    BY <2>3, <2>4
<1>3. CASE VerifyAccepts(u)
  <2>1. PICK i \in verifying[u] : result' = [result EXCEPT ![i] = "verified"]
    BY <1>3 DEF VerifyAccepts
  <2>2. UNCHANGED <<jobStatus, requests>> /\ i \in Item
    BY <1>3 DEF VerifyAccepts
  <2>. QED
    BY <2>1, <2>2 DEF Job!JobNext, Job!Accept, Job!Judge
<1>4. ~(ScanHit(u) \/ VerifyRejects(u) \/ VerifyAccepts(u))
      => UNCHANGED <<jobStatus, result, requests>>
  BY DEF WorkerStep, BootStep, Phase1Step, ScanStep, VerifyStep, StartWorker,
     RegisterWorker, SubscribePhase2, ReceiveChunk, InsertMasscanResults,
     MarkPhase1Done, ReceivePhase2, StartupPickup, Reconcile, Goto, CheckCancelled,
     FetchWorkBatch, ScanMiss, MarkHit, Flush, NextBatch, CountUnfinished,
     CheckUnverified, CheckCancelled2b, FetchUnverified, MarkVerified,
     NextVerifyBatch, CrashWorker, LoseMessage, FetchFails, ReadFailsAtWorker,
     FlushFails, InsertHitFails, ScanPanics, VerifyPanics
<1>. QED
  BY <1>1, <1>2, <1>3, <1>4

(* What the user of an untouched job sees is a behaviour of ScanJob: crash *)
(* of workers, restart of the master and lost messages included.           *)
THEOREM ImplementsScanJobHolds ==
  ASSUME "db" \notin Faults PROVE Spec => ImplementsScanJob
<1>1. Init => Job!JobInit
  BY DEF Init, Job!JobInit
<1>2. JobSafe /\ JobSafe' /\ [Next]_vars => [Job!JobNext]_(Job!jobVars)
  <2> SUFFICES ASSUME JobSafe, JobSafe', [Next]_vars
               PROVE  Job!JobNext \/ UNCHANGED <<jobStatus, result, requests>>
    BY DEF Job!jobVars
  <2>1. CASE UNCHANGED vars
    BY <2>1
  <2>2. CASE requests' # {}
    <3>1. jobStatus' \in Job!Status /\ result' \in [Item -> Job!Verdict]
      BY DEF JobSafe, DoneSafe, Inv, TypeOK, Job!Status, Job!Verdict
    <3>2. (requests' # {}) = TRUE
      BY <2>2
    <3>. QED
      BY <3>1, <3>2 DEF Job!JobNext, Job!Interfere
  <2>3. CASE requests' = {} /\ ~UNCHANGED vars
    <3>1. requests = {}
      BY <2>3, RequestsGrow
    <3>2. CASE MasterStep \/ MasterRestart \/ MasterStatementFails
      BY <2>3, <3>1, <3>2, MasterSimulates
    <3>3. CASE \E u \in Worker :
                 WorkerStep(u) \/ CrashWorker(u) \/ LoseMessage(u) \/ FetchFails(u)
                    \/ ReadFailsAtWorker(u) \/ FlushFails(u) \/ InsertHitFails(u)
                    \/ ScanPanics(u) \/ VerifyPanics(u)
      BY <2>3, <3>1, <3>3, WorkerSimulates
    <3>. QED
      BY <2>3, <3>2, <3>3 DEF Next, FaultStep
  <2>. QED
    BY <2>1, <2>2, <2>3
<1>. QED
  BY <1>1, <1>2, JobSafeHolds, PTL DEF ImplementsScanJob, Spec, Job!JobSpec

=============================================================================
