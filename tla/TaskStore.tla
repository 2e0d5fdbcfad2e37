------------------------------ MODULE TaskStore ------------------------------
(***************************************************************************)
(* The in-memory task store of the shared library's master                 *)
(* (internal/master/task_store.go): the status and the owner of every      *)
(* scan task and the queue of pending task IDs.                            *)
(*                                                                         *)
(* Every method runs under one mutex, so every method is one action.  A    *)
(* method that returns nil early leaves the store alone: its action is     *)
(* then UNCHANGED, because its caller goes on all the same.  StoreSpec     *)
(* lets callers interleave the methods in any order, under one condition:  *)
(* a result is reported only for a task that was handed out before.        *)
(* Module Dispatch drives the same actions from the scheduler and the      *)
(* WebSocket handlers, and its run checks that it implements StoreSpec.    *)
(***************************************************************************)
EXTENDS Naturals, Sequences, FiniteSets, Functions

CONSTANTS
    Task,       \* task IDs; the code numbers them without end
    Worker,     \* worker UUIDs
    NoWorker    \* the empty string in Task.AssignedTo

ASSUME StoreAssumption ==
    /\ IsFiniteSet(Task)
    /\ NoWorker \notin Worker

VARIABLES
    status,         \* Task.Status; "none" before the task is created
    assignedTo,     \* Task.AssignedTo
    pendingQ,       \* TaskStore.pendingQ
    handedOut,      \* tasks with Task.AssignedCount > 0
    taken           \* pending tasks a caller removed with PopPending

storeVars == <<status, assignedTo, pendingQ, handedOut, taken>>

Active == {"assigned", "running"}
Final  == {"completed", "failed", "cancelled"}
Status == {"none", "pending"} \cup Active \cup Final

Known(t) == status[t] # "none"
Finished(t) == status[t] \in Final

Queued(t) == \E i \in DOMAIN pendingQ : pendingQ[i] = t

(***************************************************************************)
(* The loop that AssignTask and CancelTask share: it drops the first entry *)
(* of the queue that names the task, if there is one.                      *)
(***************************************************************************)
FirstIndex(q, t) ==
    CHOOSE i \in DOMAIN q :
        q[i] = t /\ \A j \in DOMAIN q : q[j] = t => i <= j

Without(q, t) ==
    IF \E i \in DOMAIN q : q[i] = t
    THEN [j \in 1 .. (Len(q) - 1) |->
             IF j < FirstIndex(q, t) THEN q[j] ELSE q[j + 1]]
    ELSE q

-----------------------------------------------------------------------------
StoreInit ==
    /\ status = [t \in Task |-> "none"]
    /\ assignedTo = [t \in Task |-> NoWorker]
    /\ pendingQ = <<>>
    /\ handedOut = {}
    /\ taken = {}

\* The shard constructors take the mutex once per shard, so each of their
\* shards is a CreateTask of its own.
CreateTask(t) ==
    /\ ~Known(t)
    /\ status' = [status EXCEPT ![t] = "pending"]
    /\ pendingQ' = Append(pendingQ, t)
    /\ UNCHANGED <<assignedTo, handedOut, taken>>

(* Mutant: the entry of the queue is kept.                                 *)
AssignKeepsEntry(t, w) ==
    IF status[t] = "pending"
    THEN /\ status' = [status EXCEPT ![t] = "assigned"]
         /\ assignedTo' = [assignedTo EXCEPT ![t] = w]
         /\ handedOut' = handedOut \cup {t}
         /\ taken' = taken \ {t}
         /\ UNCHANGED pendingQ
    ELSE UNCHANGED storeVars

AssignTask(t, w) ==
    IF status[t] = "pending"
    THEN /\ status' = [status EXCEPT ![t] = "assigned"]
         /\ assignedTo' = [assignedTo EXCEPT ![t] = w]
         /\ handedOut' = handedOut \cup {t}
         /\ pendingQ' = Without(pendingQ, t)
         /\ taken' = taken \ {t}
    ELSE UNCHANGED storeVars

StartTask(t) ==
    /\ status' = [status EXCEPT ![t] = IF @ = "assigned" THEN "running" ELSE @]
    /\ UNCHANGED <<assignedTo, pendingQ, handedOut, taken>>

\* Neither CompleteTask nor FailTask looks at the status it overwrites, and
\* neither touches the queue.
Finish(t, outcome) ==
    /\ status' = [status EXCEPT ![t] = IF Known(t) THEN outcome ELSE @]
    /\ UNCHANGED <<assignedTo, pendingQ, handedOut, taken>>

(* Mutant: a status of its own.                                            *)
FailMisspelt(t) == Finish(t, "error")

CompleteTask(t) == Finish(t, "completed")
FailTask(t) == Finish(t, "failed")

(* Mutant: the entry of the queue is kept.                                 *)
CancelKeepsEntry(t) ==
    IF status[t] \in {"pending"} \cup Active
    THEN /\ status' = [status EXCEPT ![t] = "cancelled"]
         /\ UNCHANGED <<assignedTo, pendingQ, handedOut, taken>>
    ELSE UNCHANGED storeVars

CancelTask(t) ==
    IF status[t] \in {"pending"} \cup Active
    THEN /\ status' = [status EXCEPT ![t] = "cancelled"]
         /\ pendingQ' = IF status[t] = "pending" THEN Without(pendingQ, t)
                                                 ELSE pendingQ
         /\ UNCHANGED <<assignedTo, handedOut, taken>>
    ELSE UNCHANGED storeVars

ReassignTask(t) ==
    IF status[t] \in Active
    THEN /\ status' = [status EXCEPT ![t] = "pending"]
         /\ assignedTo' = [assignedTo EXCEPT ![t] = NoWorker]
         /\ pendingQ' = Append(pendingQ, t)
         /\ UNCHANGED <<handedOut, taken>>
    ELSE UNCHANGED storeVars

(* Mutant: the status of the worker's tasks is not looked at.              *)
OwnedTasks(w) == {t \in Task : assignedTo[t] = w}

WorkerTasks(w) == {t \in Task : assignedTo[t] = w /\ status[t] \in Active}

\* A running task started less than three minutes ago keeps its worker; which
\* running tasks those are is the clock's choice.  The loop ranges over a Go
\* map, so the other tasks enter the queue in any order.
InGrace(w) == SUBSET {t \in WorkerTasks(w) : status[t] = "running"}

ReassignWorkerTasks(w) ==
    \E young \in InGrace(w) :
        LET back == WorkerTasks(w) \ young IN
        \E order \in Bijection(1 .. Cardinality(back), back) :
            /\ status' = [t \in Task |->
                             IF t \in back THEN "pending" ELSE status[t]]
            /\ assignedTo' = [t \in Task |->
                                 IF t \in back THEN NoWorker ELSE assignedTo[t]]
            /\ pendingQ' = pendingQ \o order
            /\ UNCHANGED <<handedOut, taken>>

PopPending ==
    /\ pendingQ # <<>>
    /\ pendingQ' = Tail(pendingQ)
    /\ taken' = taken \cup {Head(pendingQ)}
    /\ UNCHANGED <<status, assignedTo, handedOut>>

-----------------------------------------------------------------------------
\* A worker reports the result of a task the store handed out earlier; by then
\* the task may have any status.
ReportResult(t) ==
    /\ t \in handedOut
    /\ CompleteTask(t) \/ FailTask(t)

StoreNext ==
    \/ \E t \in Task : \/ CreateTask(t)
                       \/ StartTask(t)
                       \/ ReportResult(t)
                       \/ CancelTask(t)
                       \/ ReassignTask(t)
    \/ \E t \in Task, w \in Worker : AssignTask(t, w)
    \/ \E w \in Worker : ReassignWorkerTasks(w)
    \/ PopPending

StoreSpec == StoreInit /\ [][StoreNext]_storeVars

-----------------------------------------------------------------------------
(* The store's type.                                                       *)
StoreTypeOK ==
    /\ status \in [Task -> Status]
    /\ assignedTo \in [Task -> Worker \cup {NoWorker}]
    /\ pendingQ \in Seq(Task)
    /\ handedOut \in SUBSET Task
    /\ taken \in SUBSET Task

(* A task that was handed out and whose result came in.                    *)
Answered(t) == t \in handedOut /\ status[t] \in {"completed", "failed"}

(* A pending task keeps its place in the line that GetPending serves: it   *)
(* is in the queue, or a caller popped it and still has it, and before it  *)
(* there are only tasks that wait as well or that were answered late.  It  *)
(* is never stuck behind a task that was cancelled or that a worker has.   *)
(* Behind a late answer it is stuck: CompleteTask and FailTask leave the   *)
(* entry of a re-queued task in the queue, GetPending looks at the first   *)
(* entry only, and nothing in the repository removes that one.             *)
PendingInLine ==
    \A t \in Task : status[t] = "pending" =>
        \/ t \in taken
        \/ \E i \in DOMAIN pendingQ :
              /\ pendingQ[i] = t
              /\ \A j \in 1 .. (i - 1) :
                    status[pendingQ[j]] = "pending" \/ Answered(pendingQ[j])

(* No task is queued twice, whatever the order of reassignments, late      *)
(* results and cancellations: a second entry would hand the task to a      *)
(* second worker.                                                          *)
QueuedOnce ==
    \A i, j \in DOMAIN pendingQ : pendingQ[i] = pendingQ[j] => i = j

(* A task that some worker holds is not offered to another one: no entry   *)
(* of the queue names a task that is assigned or running.                  *)
HeldNotQueued ==
    \A t \in Task : status[t] \in Active => ~Queued(t) /\ assignedTo[t] \in Worker

(* Finished work is not started again: a completed, failed or cancelled    *)
(* task never goes back to pending, assigned or running, although late     *)
(* results may still exchange one final status for another.                *)
FinishedStaysFinished ==
    [][\A t \in Task : Finished(t) => Finished(t)']_storeVars
=============================================================================
