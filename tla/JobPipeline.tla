---------------------------- MODULE JobPipeline ----------------------------
(***************************************************************************)
(* The life of one MultiScan v2 job: the Master's HTTP handlers and        *)
(* watchers, the Workers' phase 1 / 2a / 2b goroutines, the PostgreSQL     *)
(* rows that belong to the job and the NATS messages that start its        *)
(* phases (v2/cmd/master/main.go, v2/cmd/worker/main.go, v2/internal/pg).  *)
(*                                                                         *)
(* Every SQL statement of the code filters by job_id, so the rows of two   *)
(* jobs never meet: one job is the whole state a statement can touch.      *)
(* PostgreSQL runs every db.Exec in a transaction of its own, so one       *)
(* action is one statement (with the local code around it) and handlers    *)
(* of several statements have a program counter.                           *)
(*                                                                         *)
(* An Item is an (ip, port) pair that would answer masscan.                *)
(***************************************************************************)
EXTENDS Naturals, FiniteSets

CONSTANTS
    Worker,       \* worker ids
    Item,         \* the open (ip, port) pairs of the job's networks
    NoWorker,     \* NULL in work_queue.worker
    Running,      \* workers started long before the job is created
    FlushAt,      \* flushAt of processPhase2 (250 in the code)
    BatchLimit,   \* LIMIT of FetchWorkBatch (*scanConc)
    VerifyLimit,  \* LIMIT of the phase 2b query (*verifyConc * 2)
    Ops,          \* user requests a run explores: subset of {"cancel", "delete"}
    Faults,       \* faults a run explores:
                  \* subset of {"worker", "master", "nats", "db", "panic"}
    MaxFaults     \* bound: number of faults in a behaviour

ASSUME PipelineAssumption ==
    /\ IsFiniteSet(Worker)
    /\ NoWorker \notin Worker
    /\ Running \subseteq Worker
    /\ FlushAt \in Nat \ {0}
    /\ BatchLimit \in Nat \ {0}
    /\ VerifyLimit \in Nat \ {0}
    /\ MaxFaults \in Nat

VARIABLES
    (* PostgreSQL: the job's row and the rows of its items *)
    jobStatus,    \* jobs.status, or "absent" when there is no row
    jobPhase,     \* jobs.phase
    doneWorkers,  \* jobs.done_workers
    totalWorkers, \* jobs.total_workers
    found,        \* masscan_results
    queue,        \* work_queue.status by item, or "absent"
    owner,        \* work_queue.worker by item
    result,       \* results by item: "none", "tls-ok" (colo=''),
                  \* "rejected" (tls-ok with colo 'fail' or 'error'), "verified"
    online,       \* workers with status='online'
    (* NATS: messages accepted for a subscriber and not yet handled *)
    chunkMsg,     \* subscribers with a masscan.<job>.<worker> message
    phase2Msg,    \* subscribers with a phase2.<job> message
    (* Master *)
    createPc,     \* handleCreateJob and its goroutine
    targets,      \* workers whose chunk is not published yet
    chunk,        \* items inside the CIDR chunk of each worker
    watch1,       \* watchPhase1To2
    watch2,       \* watchPhase2ToDone
    cancelPc,     \* CancelJob
    deletePc,     \* DeleteJob
    (* Workers *)
    proc,         \* progress of main()
    left,         \* items the running masscan has not reported yet
    scanning,     \* the masscan goroutine runs
    pickup,       \* the start-up pick-up query is still to run
    p2,           \* processPhase2 / runPhase2b; "idle" = not in phase2Jobs
    hits,         \* len(cfHits) > 0
    todo,         \* items of the batch whose TLS check is not finished
    marking,      \* hits stored in results, work_queue not updated yet
    buf,          \* scanned items not yet flushed by MarkWorkScannedBatch
    verifying,    \* items handed to verify goroutines
    (* history *)
    requests,     \* kinds of user requests received so far
    faults        \* number of faults so far

jobVars     == <<jobStatus, jobPhase, doneWorkers, totalWorkers>>
itemVars    == <<found, queue, owner, result>>
dbVars      == <<jobVars, itemVars, online>>
natsVars    == <<chunkMsg, phase2Msg>>
createVars  == <<createPc, targets, chunk>>
watchVars   == <<watch1, watch2>>
requestVars == <<cancelPc, deletePc>>
masterVars  == <<createVars, watchVars, requestVars>>
procVars    == <<proc, left, scanning, pickup>>
scanVars    == <<hits, todo, marking, buf>>
phase2Vars  == <<p2, scanVars, verifying>>
workerVars  == <<procVars, phase2Vars>>
history     == <<requests, faults>>
vars        == <<dbVars, natsVars, masterVars, workerVars, history>>

-----------------------------------------------------------------------------
(* What the SQL statements read.                                           *)

JobExists == jobStatus # "absent"

(* UPDATE jobs SET status = s WHERE id = ...                               *)
SetStatus(s) == jobStatus' = IF JobExists THEN s ELSE jobStatus
SetPhase(p)  == jobPhase'  = IF JobExists THEN p ELSE jobPhase

(* Mutant: the worker column is reset, the status is not.                  *)
RequeueOwnerOnly(rows) ==
    /\ owner' = [i \in Item |-> IF i \in rows THEN NoWorker ELSE owner[i]]
    /\ UNCHANGED queue
(* UPDATE work_queue SET status='pending', worker=NULL                     *)
Requeue(rows) ==
    /\ queue' = [i \in Item |-> IF i \in rows THEN "pending" ELSE queue[i]]
    /\ owner' = [i \in Item |-> IF i \in rows THEN NoWorker ELSE owner[i]]

(* UPDATE work_queue SET status='processing', worker=w                     *)
Claim(w, rows) ==
    /\ queue' = [i \in Item |-> IF i \in rows THEN "processing" ELSE queue[i]]
    /\ owner' = [i \in Item |-> IF i \in rows THEN w ELSE owner[i]]

(* UPDATE work_queue SET status='done': no row is made that was not there. *)
RowsDone(rows) ==
    queue' = [i \in Item |-> IF i \in rows /\ queue[i] # "absent"
                             THEN "done" ELSE queue[i]]

PendingItems    == {i \in Item : queue[i] = "pending"}
ProcessingItems == {i \in Item : queue[i] = "processing"}
UnverifiedItems == {i \in Item : result[i] = "tls-ok"}

(* Mutant: every item of the job that is not done, row or no row.          *)
UnfinishedOfJob == {i \in Item : queue[i] # "done"}
(* status NOT IN ('done'), as the workers count it                         *)
UnfinishedItems == {i \in Item : queue[i] \in {"pending", "processing"}}

(* Mutant: the watcher counts only pending rows.                           *)
UndonePendingOnly == PendingItems
(* status != 'done', as the master's watcher counts it                     *)
UndoneItems == {i \in Item : queue[i] \in {"pending", "processing"}}

(* Items a worker has fetched and has not handed back to the table.        *)
Held(w) == IF p2[w] = "scan" THEN todo[w] \cup marking[w] \cup buf[w] ELSE {}

-----------------------------------------------------------------------------
Init ==
    /\ jobStatus = "absent"
    /\ jobPhase = "phase1"
    /\ doneWorkers = 0
    /\ totalWorkers = 0
    /\ found = {}
    /\ queue = [i \in Item |-> "absent"]
    /\ owner = [i \in Item |-> NoWorker]
    /\ result = [i \in Item |-> "none"]
    /\ online = Running
    /\ chunkMsg = {}
    /\ phase2Msg = {}
    /\ createPc = "none"
    /\ targets = {}
    /\ chunk = [w \in Worker |-> {}]
    /\ watch1 = "select"
    /\ watch2 = "recover"
    /\ cancelPc = "idle"
    /\ deletePc = "idle"
    /\ proc = [w \in Worker |-> IF w \in Running THEN "ready" ELSE "down"]
    /\ left = [w \in Worker |-> {}]
    /\ scanning = [w \in Worker |-> FALSE]
    /\ pickup = [w \in Worker |-> FALSE]
    /\ p2 = [w \in Worker |-> "idle"]
    /\ hits = [w \in Worker |-> FALSE]
    /\ todo = [w \in Worker |-> {}]
    /\ marking = [w \in Worker |-> {}]
    /\ buf = [w \in Worker |-> {}]
    /\ verifying = [w \in Worker |-> {}]
    /\ requests = {}
    /\ faults = 0

-----------------------------------------------------------------------------
(* Master: main() serves requests once the start-up clean-up is over.      *)

MasterUp == watch2 # "cleanup"

(* The process dies and is started again: its goroutines and the handlers  *)
(* under way are gone, and main() cancels the jobs still pending ...       *)
MasterRestart ==
    /\ "master" \in Faults
    /\ faults < MaxFaults
    /\ faults' = faults + 1
    /\ jobStatus' = IF jobStatus = "pending" THEN "cancelled" ELSE jobStatus
    /\ createPc' = IF createPc = "none" THEN "none" ELSE "end"
    /\ targets' = {}
    /\ watch1' = "down"
    /\ watch2' = "cleanup"
    /\ cancelPc' = "idle"
    /\ deletePc' = "idle"
    /\ UNCHANGED <<jobPhase, doneWorkers, totalWorkers, itemVars, online, natsVars,
                   chunk, workerVars, requests>>

(* ... and deletes the masscan results of the jobs that do not run.        *)
MasterCleanup ==
    /\ watch2 = "cleanup"
    /\ found' = IF JobExists /\ jobStatus # "running" THEN {} ELSE found
    /\ watch1' = "select"
    /\ watch2' = "recover"
    /\ UNCHANGED <<jobVars, queue, owner, result, online, natsVars, createVars,
                   requestVars, workerVars, history>>

-----------------------------------------------------------------------------
(* Master: handleCreateJob and the goroutine it starts.                    *)

(* The handler inserts the row (status 'pending', phase 'phase1' by        *)
(* default) and answers; the rest runs in the goroutine.                   *)
CreateJob ==
    /\ createPc = "none"
    /\ MasterUp
    /\ createPc' = "resolve"
    /\ jobStatus' = "pending"
    /\ UNCHANGED <<jobPhase, doneWorkers, totalWorkers, itemVars, online, natsVars,
                   targets, chunk, watchVars, requestVars, workerVars, history>>

(* Every ASN failed to resolve.                                            *)
ResolveFails ==
    /\ createPc = "resolve"
    /\ createPc' = "end"
    /\ SetStatus("failed")
    /\ UNCHANGED <<jobPhase, doneWorkers, totalWorkers, itemVars, online, natsVars,
                   targets, chunk, watchVars, requestVars, workerVars, history>>

(* SELECT ... FROM workers WHERE status='online'; with no row the          *)
(* goroutine returns and leaves the job pending.                           *)
SelectWorkers ==
    /\ createPc = "resolve"
    /\ targets' = online
    /\ createPc' = IF online = {} THEN "end" ELSE "start"
    /\ UNCHANGED <<dbVars, natsVars, chunk, watchVars, requestVars, workerVars,
                   history>>

(* The UPDATE that makes the job run, whatever its status has become, and  *)
(* the split of the CIDRs: every item lies in the chunk of one target.     *)
StartJob ==
    /\ createPc = "start"
    /\ createPc' = "publish"
    /\ SetStatus("running")
    /\ totalWorkers' = IF JobExists THEN Cardinality(targets) ELSE totalWorkers
    /\ \E split \in [Item -> targets] :
          chunk' = [w \in Worker |-> {i \in Item : split[i] = w}]
    /\ UNCHANGED <<jobPhase, doneWorkers, itemVars, online, natsVars, targets,
                   watchVars, requestVars, workerVars, history>>

(* nc.Publish: core NATS hands the message to a connected subscriber or to *)
(* nobody.                                                                 *)
PublishChunk(w) ==
    /\ createPc = "publish"
    /\ w \in targets
    /\ targets' = targets \ {w}
    /\ createPc' = IF targets' = {} THEN "end" ELSE "publish"
    /\ chunkMsg' = IF proc[w] = "down" THEN chunkMsg ELSE chunkMsg \cup {w}
    /\ UNCHANGED <<dbVars, phase2Msg, chunk, watchVars, requestVars, workerVars,
                   history>>

-----------------------------------------------------------------------------
(* Master: watchPhase1To2.                                                 *)

(* Mutant: the query forgets AND phase='phase1'.                           *)
Phase1CompleteAnyPhase ==
    /\ jobStatus = "running"
    /\ doneWorkers > 0
    /\ doneWorkers >= totalWorkers
(* Mutant: one worker is enough.                                           *)
Phase1CompleteFirst ==
    /\ jobStatus = "running"
    /\ jobPhase = "phase1"
    /\ doneWorkers > 0
(* The row is selected and all its workers have reported.                  *)
Phase1Complete ==
    /\ jobStatus = "running"
    /\ jobPhase = "phase1"
    /\ doneWorkers > 0
    /\ doneWorkers >= totalWorkers

SelectPhase1Jobs ==
    /\ watch1 = "select"
    /\ Phase1Complete
    /\ watch1' = "populate"
    /\ UNCHANGED <<dbVars, natsVars, createVars, watch2, requestVars, workerVars,
                   history>>

(* INSERT INTO work_queue SELECT ... ON CONFLICT DO NOTHING.               *)
PopulateWorkQueue ==
    /\ watch1 = "populate"
    /\ watch1' = "advance"
    /\ queue' = [i \in Item |-> IF i \in found /\ queue[i] = "absent"
                                THEN "pending" ELSE queue[i]]
    /\ UNCHANGED <<jobVars, found, owner, result, online, natsVars, createVars,
                   watch2, requestVars, workerVars, history>>

AdvanceToPhase2 ==
    /\ watch1 = "advance"
    /\ watch1' = "publish"
    /\ SetPhase("phase2")
    /\ UNCHANGED <<jobStatus, doneWorkers, totalWorkers, itemVars, online, natsVars,
                   createVars, watch2, requestVars, workerVars, history>>

PublishPhase2 ==
    /\ watch1 = "publish"
    /\ watch1' = "select"
    /\ phase2Msg' = phase2Msg \cup {w \in Worker : proc[w] = "ready"}
    /\ UNCHANGED <<dbVars, chunkMsg, createVars, watch2, requestVars, workerVars,
                   history>>

-----------------------------------------------------------------------------
(* Master: watchPhase2ToDone.                                              *)

(* Mutant: every row in processing is taken for lost.                      *)
LostItemsAll == ProcessingItems
(* worker NOT IN (SELECT id FROM workers WHERE status='online')            *)
LostItems == {i \in ProcessingItems : owner[i] \notin online}

(* The "crash recovery" statement.                                         *)
RecoverProcessing ==
    /\ watch2 = "recover"
    /\ watch2' = "select"
    /\ Requeue(LostItems)
    /\ UNCHANGED <<jobVars, found, result, online, natsVars, createVars, watch1,
                   requestVars, workerVars, history>>

(* A step of the watcher that only reads the tables.                       *)
Watch2Goto(from, to) ==
    /\ watch2 = from
    /\ watch2' = to
    /\ UNCHANGED <<dbVars, natsVars, createVars, watch1, requestVars, workerVars,
                   history>>

SelectPhase2Jobs ==
    Watch2Goto("select", IF jobStatus = "running" /\ jobPhase \in {"phase2", "phase2b"}
                         THEN "undone" ELSE "recover")

(* With rows undone the remaining counts decide nothing and the loop       *)
(* continues.                                                              *)
CountUndone ==
    Watch2Goto("undone", IF UndoneItems = {} THEN "unverified" ELSE "recover")

CountUnverified ==
    Watch2Goto("unverified", IF UnverifiedItems # {} THEN "phase2b" ELSE "finish")

(* A step of the watcher that writes the job's phase.                      *)
Watch2Phase(from, to, phase) ==
    /\ watch2 = from
    /\ watch2' = to
    /\ SetPhase(phase)
    /\ UNCHANGED <<jobStatus, doneWorkers, totalWorkers, itemVars, online, natsVars,
                   createVars, watch1, requestVars, workerVars, history>>

AdvanceToPhase2b == Watch2Phase("phase2b", "recover", "phase2b")

(* UpdateJobPhase(jid, "done"): two statements.                            *)
FinishPhase == Watch2Phase("finish", "status", "done")

FinishStatus ==
    /\ watch2 = "status"
    /\ watch2' = "purge"
    /\ SetStatus("done")
    /\ UNCHANGED <<jobPhase, doneWorkers, totalWorkers, itemVars, online, natsVars,
                   createVars, watch1, requestVars, workerVars, history>>

(* DELETE FROM results WHERE status='tls-ok'                               *)
PurgeTlsOk ==
    /\ watch2 = "purge"
    /\ watch2' = "recover"
    /\ result' = [i \in Item |-> IF result[i] \in {"tls-ok", "rejected"}
                                 THEN "none" ELSE result[i]]
    /\ UNCHANGED <<jobVars, found, queue, owner, online, natsVars, createVars,
                   watch1, requestVars, workerVars, history>>

-----------------------------------------------------------------------------
(* Master: handleCancelJob and handleDeleteJob, one statement at a time.   *)
(* A user may send them at any moment after the job id is known, again and *)
(* again.                                                                  *)

CancelStatus ==
    /\ "cancel" \in Ops
    /\ MasterUp
    /\ createPc # "none"
    /\ cancelPc = "idle"
    /\ cancelPc' = "requeue"
    /\ SetStatus("cancelled")
    /\ requests' = requests \cup {"cancel"}
    /\ UNCHANGED <<jobPhase, doneWorkers, totalWorkers, itemVars, online, natsVars,
                   createVars, watchVars, deletePc, workerVars, faults>>

CancelRequeue ==
    /\ cancelPc = "requeue"
    /\ cancelPc' = "idle"
    /\ Requeue(ProcessingItems)
    /\ UNCHANGED <<jobVars, found, result, online, natsVars, createVars, watchVars,
                   deletePc, workerVars, history>>

DeleteResults ==
    /\ "delete" \in Ops
    /\ MasterUp
    /\ createPc # "none"
    /\ deletePc = "idle"
    /\ deletePc' = "queue"
    /\ result' = [i \in Item |-> "none"]
    /\ requests' = requests \cup {"delete"}
    /\ UNCHANGED <<jobVars, found, queue, owner, online, natsVars, createVars,
                   watchVars, cancelPc, workerVars, faults>>

DeleteQueue ==
    /\ deletePc = "queue"
    /\ deletePc' = "masscan"
    /\ queue' = [i \in Item |-> "absent"]
    /\ owner' = [i \in Item |-> NoWorker]
    /\ UNCHANGED <<jobVars, found, result, online, natsVars, createVars, watchVars,
                   cancelPc, workerVars, history>>

DeleteMasscan ==
    /\ deletePc = "masscan"
    /\ deletePc' = "job"
    /\ found' = {}
    /\ UNCHANGED <<jobVars, queue, owner, result, online, natsVars, createVars,
                   watchVars, cancelPc, workerVars, history>>

DeleteJobRow ==
    /\ deletePc = "job"
    /\ deletePc' = "idle"
    /\ jobStatus' = "absent"
    /\ UNCHANGED <<jobPhase, doneWorkers, totalWorkers, itemVars, online, natsVars,
                   createVars, watchVars, cancelPc, workerVars, history>>

-----------------------------------------------------------------------------
(* Worker: the process.                                                    *)

(* main() subscribes to masscan.*.<id> before anything else and probes the *)
(* hardware with the subscription open.                                    *)
StartWorker(w) ==
    /\ proc[w] = "down"
    /\ proc' = [proc EXCEPT ![w] = "probing"]
    /\ UNCHANGED <<dbVars, natsVars, masterVars, left, scanning, pickup, phase2Vars,
                   history>>

RegisterWorker(w) ==
    /\ proc[w] = "probing"
    /\ proc' = [proc EXCEPT ![w] = "registered"]
    /\ online' = online \cup {w}
    /\ UNCHANGED <<jobVars, itemVars, natsVars, masterVars, left, scanning, pickup,
                   phase2Vars, history>>

(* Mutant: the start-up query is forgotten.                                *)
SubscribeOnly(w) ==
    /\ proc[w] = "registered"
    /\ proc' = [proc EXCEPT ![w] = "ready"]
    /\ UNCHANGED <<dbVars, natsVars, masterVars, left, scanning, pickup, phase2Vars,
                   history>>

(* The phase2.* subscription, then the goroutines that pick up and         *)
(* reconcile.                                                              *)
SubscribePhase2(w) ==
    /\ proc[w] = "registered"
    /\ proc' = [proc EXCEPT ![w] = "ready"]
    /\ pickup' = [pickup EXCEPT ![w] = TRUE]
    /\ UNCHANGED <<dbVars, natsVars, masterVars, left, scanning, phase2Vars,
                   history>>

(* All goroutines die with their memory and subscriptions.  The row in     *)
(* workers stays online: nothing calls DeregisterWorker.                   *)
CrashWorker(w) ==
    /\ "worker" \in Faults
    /\ faults < MaxFaults
    /\ faults' = faults + 1
    /\ proc[w] # "down"
    /\ proc' = [proc EXCEPT ![w] = "down"]
    /\ left' = [left EXCEPT ![w] = {}]
    /\ scanning' = [scanning EXCEPT ![w] = FALSE]
    /\ pickup' = [pickup EXCEPT ![w] = FALSE]
    /\ p2' = [p2 EXCEPT ![w] = "idle"]
    /\ hits' = [hits EXCEPT ![w] = FALSE]
    /\ todo' = [todo EXCEPT ![w] = {}]
    /\ marking' = [marking EXCEPT ![w] = {}]
    /\ buf' = [buf EXCEPT ![w] = {}]
    /\ verifying' = [verifying EXCEPT ![w] = {}]
    /\ chunkMsg' = chunkMsg \ {w}
    /\ phase2Msg' = phase2Msg \ {w}
    /\ UNCHANGED <<dbVars, masterVars, requests>>

(* Core NATS gives no acknowledgement: a message to a slow or reconnecting *)
(* subscriber is dropped.                                                  *)
LoseMessage(w) ==
    /\ "nats" \in Faults
    /\ faults < MaxFaults
    /\ faults' = faults + 1
    /\ \/ w \in chunkMsg /\ chunkMsg' = chunkMsg \ {w} /\ UNCHANGED phase2Msg
       \/ w \in phase2Msg /\ phase2Msg' = phase2Msg \ {w} /\ UNCHANGED chunkMsg
    /\ UNCHANGED <<dbVars, masterVars, workerVars, requests>>

-----------------------------------------------------------------------------
(* Worker: phase 1, one masscan goroutine per message.                     *)

ReceiveChunk(w) ==
    /\ w \in chunkMsg
    /\ chunkMsg' = chunkMsg \ {w}
    /\ scanning' = [scanning EXCEPT ![w] = TRUE]
    /\ left' = [left EXCEPT ![w] = chunk[w]]
    /\ UNCHANGED <<dbVars, phase2Msg, masterVars, proc, pickup, phase2Vars,
                   history>>

(* A batch of the stream is stored, whatever has become of the job.        *)
InsertMasscanResults(w) ==
    /\ scanning[w]
    /\ \E batch \in (SUBSET left[w]) \ {{}} :
          /\ found' = found \cup batch
          /\ left' = [left EXCEPT ![w] = @ \ batch]
    /\ UNCHANGED <<jobVars, queue, owner, result, online, natsVars, masterVars,
                   proc, scanning, pickup, phase2Vars, history>>

(* Mutants: the column counts down; the panic handler reports once more.   *)
OneLessDone == IF JobExists THEN doneWorkers - 1 ELSE doneWorkers
TwoMoreDone == IF JobExists THEN doneWorkers + 2 ELSE doneWorkers
(* UPDATE jobs SET done_workers = done_workers + 1                         *)
OneMoreDone == IF JobExists THEN doneWorkers + 1 ELSE doneWorkers

(* masscan ended or could not start.  What it did not report by now - a    *)
(* lost probe, a batch whose INSERT failed and was only logged - is lost.  *)
MarkPhase1Done(w) ==
    /\ scanning[w]
    /\ scanning' = [scanning EXCEPT ![w] = FALSE]
    /\ left' = [left EXCEPT ![w] = {}]
    /\ doneWorkers' = OneMoreDone
    /\ UNCHANGED <<jobStatus, jobPhase, totalWorkers, itemVars, online, natsVars,
                   masterVars, proc, pickup, phase2Vars, history>>

-----------------------------------------------------------------------------
(* Worker: the three triggers of processPhase2.  phase2Jobs.LoadOrStore    *)
(* lets the first one in; the entry is never removed, so a worker that has *)
(* left a job never enters it again (p2 = "exit") while its process lives. *)

EnterPhase2(w) == p2' = [p2 EXCEPT ![w] = IF @ = "idle" THEN "loop" ELSE @]

(* A step of processPhase2 or runPhase2b that only reads the tables.       *)
Goto(w, from, to) ==
    /\ p2[w] = from
    /\ p2' = [p2 EXCEPT ![w] = to]
    /\ UNCHANGED <<dbVars, natsVars, masterVars, procVars, scanVars, verifying,
                   history>>

ReceivePhase2(w) ==
    /\ w \in phase2Msg
    /\ phase2Msg' = phase2Msg \ {w}
    /\ EnterPhase2(w)
    /\ UNCHANGED <<dbVars, chunkMsg, masterVars, procVars, scanVars, verifying,
                   history>>

(* Once per process: any job with a pending row.                           *)
StartupPickup(w) ==
    /\ pickup[w]
    /\ pickup' = [pickup EXCEPT ![w] = FALSE]
    /\ IF PendingItems # {} THEN EnterPhase2(w) ELSE UNCHANGED p2
    /\ UNCHANGED <<dbVars, natsVars, masterVars, proc, left, scanning, scanVars,
                   verifying, history>>

(* The WHERE clause of the reconciliation query.                           *)
ReconcileNeeded ==
    /\ jobStatus = "running"
    /\ jobPhase \in {"phase2", "phase2b"}
    /\ UnverifiedItems # {}

Reconcile(w) ==
    /\ proc[w] = "ready"
    /\ ReconcileNeeded
    /\ Goto(w, "idle", "loop")

-----------------------------------------------------------------------------
(* Worker: phase 2a, processPhase2.                                        *)

(* Mutant: a misspelt status.                                              *)
NeverCancelled == jobStatus = "canceled"
IsJobCancelled == jobStatus = "cancelled"

CheckCancelled(w) == Goto(w, "loop", IF IsJobCancelled THEN "exit" ELSE "fetch")

(* Mutant: the sub-select forgets AND status='pending'.                    *)
FetchableAny == UndoneItems
(* status='pending'                                                        *)
Fetchable == PendingItems

(* UPDATE work_queue SET status='processing', worker=... RETURNING: up to  *)
(* BatchLimit fetchable rows, whichever they are; FOR UPDATE SKIP LOCKED   *)
(* makes concurrent fetches disjoint.                                      *)
Batches ==
    {batch \in SUBSET Fetchable :
        IF Cardinality(Fetchable) <= BatchLimit
        THEN batch = Fetchable
        ELSE Cardinality(batch) = BatchLimit}

FetchWorkBatch(w) ==
    /\ p2[w] = "fetch"
    /\ \E batch \in Batches :
          /\ Claim(w, batch)
          /\ todo' = [todo EXCEPT ![w] = batch]
          /\ p2' = [p2 EXCEPT ![w] = IF batch = {} THEN "count" ELSE "scan"]
    /\ UNCHANGED <<jobVars, found, result, online, natsVars, masterVars, procVars,
                   hits, marking, buf, verifying, history>>

(* CheckProxy found no proxy (or refused, or timed out).                   *)
ScanMiss(w) ==
    /\ p2[w] = "scan"
    /\ \E i \in todo[w] :
          /\ todo' = [todo EXCEPT ![w] = @ \ {i}]
          /\ buf' = [buf EXCEPT ![w] = @ \cup {i}]
    /\ UNCHANGED <<dbVars, natsVars, masterVars, procVars, p2, hits, marking,
                   verifying, history>>

(* CheckProxy found one: the first statement of InsertResult, an upsert    *)
(* that sets colo='' whatever the row held.                                *)
ScanHit(w) ==
    /\ p2[w] = "scan"
    /\ \E i \in todo[w] :
          /\ todo' = [todo EXCEPT ![w] = @ \ {i}]
          /\ marking' = [marking EXCEPT ![w] = @ \cup {i}]
          /\ result' = [result EXCEPT ![i] = "tls-ok"]
    /\ hits' = [hits EXCEPT ![w] = TRUE]
    /\ UNCHANGED <<jobVars, found, queue, owner, online, natsVars, masterVars,
                   procVars, p2, buf, verifying, history>>

(* The second statement of InsertResult, and buf = append(buf, item).      *)
MarkHit(w) ==
    /\ p2[w] = "scan"
    /\ \E i \in marking[w] :
          /\ RowsDone({i})
          /\ marking' = [marking EXCEPT ![w] = @ \ {i}]
          /\ buf' = [buf EXCEPT ![w] = @ \cup {i}]
    /\ UNCHANGED <<jobVars, found, owner, result, online, natsVars, masterVars,
                   procVars, p2, hits, todo, verifying, history>>

(* MarkWorkScannedBatch: a full group while the batch runs, and what is    *)
(* left of it after wg.Wait().                                             *)
Flushable(w) ==
    {group \in SUBSET buf[w] :
        \/ Cardinality(group) = FlushAt
        \/ /\ todo[w] \cup marking[w] = {}
           /\ group = buf[w]
           /\ group # {}
           /\ Cardinality(group) < FlushAt}

Flush(w) ==
    /\ p2[w] = "scan"
    /\ \E group \in Flushable(w) :
          /\ RowsDone(group)
          /\ buf' = [buf EXCEPT ![w] = @ \ group]
    /\ UNCHANGED <<jobVars, found, owner, result, online, natsVars, masterVars,
                   procVars, p2, hits, todo, marking, verifying, history>>

(* Mutant: the last flush() is not waited for.                             *)
NextBatchNoFlush(w) ==
    todo[w] \cup marking[w] = {} /\ Goto(w, "scan", "loop")
(* wg.Wait() returned and everything is flushed.                           *)
NextBatch(w) == Held(w) = {} /\ Goto(w, "scan", "loop")

(* Where a worker goes when no row is unfinished: straight to phase 2b if  *)
(* it has hits of its own.                                                 *)
AfterScan(w) == IF hits[w] THEN "verifyLoop" ELSE "checkDB"

CountUnfinished(w) ==
    Goto(w, "count", IF UnfinishedItems # {} THEN "loop" ELSE AfterScan(w))

CheckUnverified(w) ==
    Goto(w, "checkDB", IF UnverifiedItems = {} THEN "exit" ELSE "verifyLoop")

-----------------------------------------------------------------------------
(* Worker: phase 2b, runPhase2b.  Every worker verifies every unverified   *)
(* row it sees: nothing claims a row.                                      *)

CheckCancelled2b(w) ==
    Goto(w, "verifyLoop", IF IsJobCancelled THEN "exit" ELSE "verifyFetch")

(* The rows of SELECT ... WHERE status='tls-ok' AND colo='' LIMIT ...      *)
VerifyBatches ==
    {batch \in SUBSET UnverifiedItems :
        IF Cardinality(UnverifiedItems) <= VerifyLimit
        THEN batch = UnverifiedItems
        ELSE Cardinality(batch) = VerifyLimit}

FetchUnverified(w) ==
    /\ p2[w] = "verifyFetch"
    /\ \E batch \in VerifyBatches :
          /\ verifying' = [verifying EXCEPT ![w] = batch]
          /\ p2' = [p2 EXCEPT ![w] = IF batch = {} THEN "exit" ELSE "verify"]
    /\ UNCHANGED <<dbVars, natsVars, masterVars, procVars, scanVars, history>>

(* Mutant: the UPDATE forgets AND status='tls-ok'.                         *)
RejectAlways(i) ==
    result' = [result EXCEPT ![i] = IF @ = "none" THEN "none" ELSE "rejected"]
(* UPDATE results SET colo='fail' (or 'error') WHERE ... status='tls-ok'   *)
RejectRow(i) ==
    result' = [result EXCEPT ![i] = IF @ \in {"tls-ok", "rejected"} THEN "rejected" ELSE @]

VerifyRejects(w) ==
    /\ p2[w] = "verify"
    /\ \E i \in verifying[w] :
          /\ verifying' = [verifying EXCEPT ![w] = @ \ {i}]
          /\ RejectRow(i)
    /\ UNCHANGED <<jobVars, found, queue, owner, online, natsVars, masterVars,
                   procVars, p2, scanVars, history>>

(* InsertResult again: the upsert makes a row even if there is none.       *)
VerifyAccepts(w) ==
    /\ p2[w] = "verify"
    /\ \E i \in verifying[w] :
          /\ verifying' = [verifying EXCEPT ![w] = @ \ {i}]
          /\ marking' = [marking EXCEPT ![w] = @ \cup {i}]
          /\ result' = [result EXCEPT ![i] = "verified"]
    /\ UNCHANGED <<jobVars, found, queue, owner, online, natsVars, masterVars,
                   procVars, p2, hits, todo, buf, history>>

MarkVerified(w) ==
    /\ p2[w] = "verify"
    /\ \E i \in marking[w] :
          /\ RowsDone({i})
          /\ marking' = [marking EXCEPT ![w] = @ \ {i}]
    /\ UNCHANGED <<jobVars, found, owner, result, online, natsVars, masterVars,
                   procVars, p2, hits, todo, buf, verifying, history>>

NextVerifyBatch(w) ==
    verifying[w] = {} /\ marking[w] = {} /\ Goto(w, "verify", "verifyLoop")

-----------------------------------------------------------------------------
(* A statement fails.  Neither program stops: db.Exec errors are dropped   *)
(* and a QueryRow that fails leaves its count at zero.                     *)

DbFault ==
    /\ "db" \in Faults
    /\ faults < MaxFaults
    /\ faults' = faults + 1

PopulateFails ==
    /\ watch1 = "populate"
    /\ watch1' = "advance"
    /\ UNCHANGED watch2

CountFailsAtMaster ==
    /\ watch2 \in {"undone", "unverified"}
    /\ watch2' = IF watch2 = "undone" THEN "unverified" ELSE "finish"
    /\ UNCHANGED watch1

MasterStatementFails ==
    /\ DbFault
    /\ PopulateFails \/ CountFailsAtMaster
    /\ UNCHANGED <<dbVars, natsVars, createVars, requestVars, workerVars, requests>>

(* The statement fails before it claims a row, or the rows are marked and  *)
(* their list is lost on the way (rows.Scan).                              *)
FetchFails(w) ==
    /\ DbFault
    /\ p2[w] = "fetch"
    /\ \E batch \in Batches \cup {{}} : Claim(w, batch)
    /\ p2' = [p2 EXCEPT ![w] = "count"]
    /\ UNCHANGED <<jobVars, found, result, online, natsVars, masterVars, procVars,
                   scanVars, verifying, requests>>

(* A count stays zero; the status IsJobCancelled scans stays empty.        *)
ReadFailsAtWorker(w) ==
    /\ DbFault
    /\ \/ p2[w] = "count" /\ p2' = [p2 EXCEPT ![w] = AfterScan(w)]
       \/ p2[w] = "checkDB" /\ p2' = [p2 EXCEPT ![w] = "exit"]
       \/ p2[w] = "loop" /\ p2' = [p2 EXCEPT ![w] = "fetch"]
       \/ p2[w] = "verifyLoop" /\ p2' = [p2 EXCEPT ![w] = "verifyFetch"]
    /\ UNCHANGED <<dbVars, natsVars, masterVars, procVars, scanVars, verifying,
                   requests>>

(* The transaction fails after buf was cleared: its rows stay processing.  *)
FlushFails(w) ==
    /\ DbFault
    /\ p2[w] = "scan"
    /\ \E group \in Flushable(w) : buf' = [buf EXCEPT ![w] = @ \ group]
    /\ UNCHANGED <<dbVars, natsVars, masterVars, procVars, p2, hits, todo, marking,
                   verifying, requests>>

(* The hit is remembered by the worker and missing from the table.         *)
InsertHitFails(w) ==
    /\ DbFault
    /\ p2[w] = "scan"
    /\ \E i \in todo[w] :
          /\ todo' = [todo EXCEPT ![w] = @ \ {i}]
          /\ marking' = [marking EXCEPT ![w] = @ \cup {i}]
    /\ hits' = [hits EXCEPT ![w] = TRUE]
    /\ UNCHANGED <<dbVars, natsVars, masterVars, procVars, p2, buf, verifying,
                   requests>>

-----------------------------------------------------------------------------
(* CheckProxy or Verify panics.  Its goroutine recovers and ends early.    *)

PanicFault ==
    /\ "panic" \in Faults
    /\ faults < MaxFaults
    /\ faults' = faults + 1

(* The item never enters buf, and its row stays in processing.             *)
ScanPanics(w) ==
    /\ PanicFault
    /\ p2[w] = "scan"
    /\ \E i \in todo[w] : todo' = [todo EXCEPT ![w] = @ \ {i}]
    /\ UNCHANGED <<dbVars, natsVars, masterVars, procVars, p2, hits, marking, buf,
                   verifying, requests>>

(* The row stays tls-ok, and a later batch has it again.                   *)
VerifyPanics(w) ==
    /\ PanicFault
    /\ p2[w] = "verify"
    /\ \E i \in verifying[w] : verifying' = [verifying EXCEPT ![w] = @ \ {i}]
    /\ UNCHANGED <<dbVars, natsVars, masterVars, procVars, p2, scanVars, requests>>

-----------------------------------------------------------------------------
CreateStep == ResolveFails \/ SelectWorkers \/ StartJob \/ \E w \in Worker : PublishChunk(w)
Watch1Step == SelectPhase1Jobs \/ PopulateWorkQueue \/ AdvanceToPhase2 \/ PublishPhase2
Watch2Step == RecoverProcessing \/ SelectPhase2Jobs \/ CountUndone \/ CountUnverified
              \/ AdvanceToPhase2b \/ FinishPhase \/ FinishStatus \/ PurgeTlsOk
CancelStep == CancelStatus \/ CancelRequeue
DeleteStep == DeleteResults \/ DeleteQueue \/ DeleteMasscan \/ DeleteJobRow

BootStep(w)    == StartWorker(w) \/ RegisterWorker(w) \/ SubscribePhase2(w)
Phase1Step(w)  == ReceiveChunk(w) \/ InsertMasscanResults(w) \/ MarkPhase1Done(w)
ScanStep(w)    == CheckCancelled(w) \/ FetchWorkBatch(w) \/ ScanMiss(w) \/ ScanHit(w)
                  \/ MarkHit(w) \/ Flush(w) \/ NextBatch(w) \/ CountUnfinished(w)
                  \/ CheckUnverified(w)
VerifyStep(w)  == CheckCancelled2b(w) \/ FetchUnverified(w) \/ VerifyRejects(w)
                  \/ VerifyAccepts(w) \/ MarkVerified(w) \/ NextVerifyBatch(w)

FaultStep ==
    \/ MasterRestart
    \/ MasterStatementFails
    \/ \E w \in Worker : CrashWorker(w) \/ LoseMessage(w) \/ FetchFails(w)
                         \/ ReadFailsAtWorker(w) \/ FlushFails(w) \/ InsertHitFails(w)
                         \/ ScanPanics(w) \/ VerifyPanics(w)

MasterStep == CreateJob \/ CreateStep \/ Watch1Step \/ Watch2Step \/ MasterCleanup
              \/ CancelStep \/ DeleteStep
WorkerStep(w) == BootStep(w) \/ Phase1Step(w) \/ ReceivePhase2(w) \/ StartupPickup(w)
                 \/ Reconcile(w) \/ ScanStep(w) \/ VerifyStep(w)

Next == MasterStep \/ (\E w \in Worker : WorkerStep(w)) \/ FaultStep

Spec == Init /\ [][Next]_vars

(* Goroutines are scheduled and the loops of the watchers and workers      *)
(* never end; a crashed worker is started again by its supervisor.  Users  *)
(* owe nobody a request, and no fault has to happen.                       *)
Fairness ==
    /\ WF_vars(CreateStep)
    /\ WF_vars(Watch1Step)
    /\ WF_vars(Watch2Step)
    /\ WF_vars(MasterCleanup)
    /\ WF_vars(CancelRequeue)
    /\ \A w \in Worker :
          /\ WF_vars(BootStep(w))
          /\ WF_vars(Phase1Step(w))
          /\ WF_vars(ReceivePhase2(w))
          /\ WF_vars(StartupPickup(w))
          /\ WF_vars(Reconcile(w))
          /\ WF_vars(ScanStep(w) \/ VerifyStep(w))

FairSpec == Spec /\ Fairness

-----------------------------------------------------------------------------
(* Properties.                                                             *)

(* Every variable stays in its range.                                      *)
TypeOK ==
    /\ jobStatus \in {"absent", "pending", "running", "done", "failed", "cancelled"}
    /\ jobPhase \in {"phase1", "phase2", "phase2b", "done"}
    /\ doneWorkers \in Nat
    /\ totalWorkers \in Nat
    /\ found \in SUBSET Item
    /\ queue \in [Item -> {"absent", "pending", "processing", "done"}]
    /\ owner \in [Item -> Worker \cup {NoWorker}]
    /\ result \in [Item -> {"none", "tls-ok", "rejected", "verified"}]
    /\ online \in SUBSET Worker
    /\ chunkMsg \in SUBSET Worker
    /\ phase2Msg \in SUBSET Worker
    /\ createPc \in {"none", "resolve", "start", "publish", "end"}
    /\ targets \in SUBSET Worker
    /\ chunk \in [Worker -> SUBSET Item]
    /\ watch1 \in {"down", "select", "populate", "advance", "publish"}
    /\ watch2 \in {"cleanup", "recover", "select", "undone", "unverified", "phase2b",
                   "finish", "status", "purge"}
    /\ cancelPc \in {"idle", "requeue"}
    /\ deletePc \in {"idle", "queue", "masscan", "job"}
    /\ proc \in [Worker -> {"down", "probing", "registered", "ready"}]
    /\ left \in [Worker -> SUBSET Item]
    /\ scanning \in [Worker -> BOOLEAN]
    /\ pickup \in [Worker -> BOOLEAN]
    /\ p2 \in [Worker -> {"idle", "loop", "fetch", "scan", "count", "checkDB",
                          "verifyLoop", "verifyFetch", "verify", "exit"}]
    /\ hits \in [Worker -> BOOLEAN]
    /\ todo \in [Worker -> SUBSET Item]
    /\ marking \in [Worker -> SUBSET Item]
    /\ buf \in [Worker -> SUBSET Item]
    /\ verifying \in [Worker -> SUBSET Item]
    /\ requests \in SUBSET {"cancel", "delete"}
    /\ faults \in Nat

(* A job that nobody cancelled or deleted is reported done only when every *)
(* TLS hit has been answered by a verification, whichever workers crashed  *)
(* on the way ("All done: no undone work_queue, no unverified tls-ok",     *)
(* v2/cmd/master/main.go:282).                                             *)
DoneMeansVerified ==
    jobStatus = "done" /\ requests = {} => UnverifiedItems = {}

(* ... and only when every open port masscan reported has been scanned:    *)
(* the work queue was complete before the phase changed and no row was     *)
(* skipped.                                                                *)
DoneMeansScanned ==
    jobStatus = "done" /\ requests = {} => \A i \in found : queue[i] = "done"

(* A hit stored as tls-ok is never deleted before it was verified or       *)
(* rejected: the master's final DELETE runs a while after its counts.      *)
HitsKept ==
    [][\A i \in Item : requests' = {} /\ result[i] = "tls-ok" => result'[i] # "none"]_vars

(* A verified row is never taken back, although every worker verifies      *)
(* every row it saw, and a slow answer may come long after another         *)
(* worker's, or after the job is done.                                     *)
VerifiedStable ==
    [][\A i \in Item : requests' = {} /\ result[i] = "verified"
                       => result'[i] = "verified"]_vars

(* Unless the user cancels or deletes the job, no two workers scan the     *)
(* same row (UPDATE ... FOR UPDATE SKIP LOCKED), and a restarted master    *)
(* takes no row from a worker that still holds it.                         *)
OneScanner ==
    requests = {} => \A v, w \in Worker : v # w => Held(v) \cap Held(w) = {}

(* Without faults no row stays in processing with nobody scanning it, also *)
(* across CancelJob's re-queueing and DeleteJob.                           *)
NoStranding ==
    faults = 0 => \A i \in ProcessingItems : owner[i] \in Worker /\ i \in Held(owner[i])

(* Without faults every chunk counted in total_workers is on its way,      *)
(* being scanned or counted in done_workers: phase 1 can end, and does not *)
(* end while a masscan still runs.                                         *)
NoChunkLost ==
    faults = 0 /\ createPc \in {"publish", "end"} /\ JobExists =>
        doneWorkers + Cardinality(targets) + Cardinality(chunkMsg)
            + Cardinality({w \in Worker : scanning[w]}) = totalWorkers

PhaseRank(p) ==
    IF p = "phase1" THEN 1 ELSE IF p = "phase2" THEN 2 ELSE IF p = "phase2b" THEN 3 ELSE 4
(* The phase never goes back although two watchers write it, each from a   *)
(* row it selected earlier.                                                *)
PhaseMonotone == [][PhaseRank(jobPhase) <= PhaseRank(jobPhase')]_vars

(* A running job completes.                                                *)
JobCompletes == (jobStatus = "running") ~> (jobStatus # "running")

(* A row in processing that no worker holds, or a chunk that no worker     *)
(* will report: what a crash, a panic or a lost message can leave behind   *)
(* and nothing repairs.                                                    *)
Stranded ==
    \/ \E i \in ProcessingItems : \A w \in Worker : i \notin Held(w)
    \/ /\ jobPhase = "phase1"
       /\ createPc = "end"
       /\ doneWorkers < totalWorkers
       /\ chunkMsg = {}
       /\ \A w \in Worker : ~scanning[w]

(* Rows wait and no worker has entered the job: the phase 2 message was    *)
(* lost, or the master died before it sent one.                            *)
Unheard ==
    PendingItems # {} /\ \A w \in Worker : p2[w] = "idle"

(* From some PopulateWorkQueue on every worker's process just lives on: no *)
(* start-up query of a worker could come across the rows.                  *)
NoStartSincePopulated ==
    <>(watch1 = "populate" /\ [](\A w \in Worker : proc[w] = "ready"))

(* The master died between the two statements of UpdateJobPhase(done): no  *)
(* watcher selects such a job.                                             *)
HalfDone == faults > 0 /\ jobPhase = "done" /\ jobStatus = "running"

(* A job completes although workers crash, the master restarts, messages   *)
(* are lost and goroutines panic.  A worker that starts late, or again,    *)
(* picks the job up by itself; a hit that nobody verifies is found by the  *)
(* reconciliation; a panicking verification is repeated.  There are three  *)
(* exceptions: something is stranded for good; nobody heard of phase 2 and *)
(* no worker starts after the queue was filled; the job is half done.      *)
CompletesUnlessStranded ==
    \/ <>[]Stranded
    \/ NoStartSincePopulated /\ <>[]Unheard
    \/ <>[]HalfDone
    \/ JobCompletes

(* If the job stays cancelled every worker leaves its loops.               *)
CancelStops ==
    (<>[](jobStatus = "cancelled")) => <>[](\A w \in Worker : p2[w] \in {"idle", "exit"})

(* "Reset processing items from offline workers (crash recovery)",         *)
(* v2/cmd/master/main.go:245: a row whose worker is gone is taken up again.*)
CrashRecovered ==
    \A i \in Item :
        (queue[i] = "processing" /\ \A w \in Worker : i \notin Held(w))
            ~> (queue[i] # "processing")

(* Once a job is deleted the workers run out of rows and leave it, even if *)
(* the deletion raced with PopulateWorkQueue or with a batch under way.    *)
(* Only a failed statement can keep them there: rows that PopulateWorkQueue*)
(* wrote after DeleteQueue may then stay in processing.                    *)
DeleteQuiesces ==
    (jobStatus = "absent" /\ createPc = "end")
        ~> (faults > 0 \/ \A w \in Worker : p2[w] \in {"idle", "exit"})

(* The dialog of v2/cmd/master/web/index.html promises that deleting a job *)
(* deletes all its data: when the handler is done and every worker has     *)
(* left the job, no row of it is left.                                     *)
DeletedLeavesNothing ==
    /\ jobStatus = "absent"
    /\ createPc = "end"
    /\ deletePc = "idle"
    /\ \A w \in Worker : p2[w] \in {"idle", "exit"} /\ ~scanning[w] /\ w \notin chunkMsg
    => \A i \in Item : i \notin found /\ queue[i] = "absent" /\ result[i] = "none"

(* The pipeline as the user sees it.                                       *)
Job == INSTANCE ScanJob
       WITH status <- jobStatus, verdict <- result, touched <- requests # {}

(* A job that the user leaves alone goes from pending to running to done,  *)
(* every open port is judged in order (no hit, hit, rejected or verified), *)
(* nothing judged is scanned again and only rejected hits are removed,     *)
(* although workers crash, the master restarts, and slow verifications     *)
(* arrive after the final DELETE.                                          *)
ImplementsScanJob == Job!JobSpec

=============================================================================
