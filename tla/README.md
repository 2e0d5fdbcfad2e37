# MultiScan: specifications, model checking and proofs

MultiScan is a distributed port and TLS scanner. A Master splits the networks of
a job among Workers, the Workers run masscan, then a TLS check of every open port
(phase 2a), then a verification of every hit (phase 2b). The repository holds two
generations of it:

* **v2** (`v2/cmd/master`, `v2/cmd/worker`, `v2/internal/pg`): the shared state is
  in PostgreSQL and NATS messages start the phases.
* **v1** (`internal/master`, `internal/worker`): the Master keeps tasks in memory
  and talks to the Workers over WebSockets. There is no `main` for it at this
  commit, so some of its operations (`CreateTask`, `CancelTask`, `StartTask`,
  `PopPending`, `EventQueue.Push`, `Ack`) have no caller in the repository.

Not a property of the models, but noticed while reading: `v2/cmd/master/main.go`
uses `os.Getenv` and does not import `os`.

## 1. Inventory

| Component (source) | State | Operations | Talks to |
|---|---|---|---|
| v2 master handlers (`v2/cmd/master/main.go:86-211, 344-355`) | rows in `jobs` | create (row, then a goroutine that resolves, splits, publishes), cancel, delete | PostgreSQL; NATS `masscan.<job>.<worker>` |
| v2 master watchers (`main.go:213-291`) | none beyond a loop iteration | phase 1 to 2, recovery of rows, phase 2 to 2b to done | PostgreSQL; NATS `phase2.<job>` |
| v2 masscan stream (`internal/masscan/masscan.go`) | seen addresses, file offset, batch under way | start masscan, follow its output file, send batches, final read | masscan's file; the worker's goroutine by a channel of 10 |
| v2 worker (`v2/cmd/worker/main.go`) | `phase2Jobs`, the batch under way, hits, flush buffer | masscan stream, `processPhase2`, `runPhase2b`, start-up pick-up, reconciliation | PostgreSQL, NATS |
| v2 store (`v2/internal/pg/pg.go`) | tables `jobs`, `masscan_results`, `work_queue`, `results`, `workers` | one method per statement or two | - |
| v2 read-only endpoints, SSE, page | subscribers of the SSE stream | status, results, CSV, list, stats | PostgreSQL |
| v1 task store (`internal/master/task_store.go`) | tasks, pending queue | create, assign, start, complete, fail, cancel, reassign, pop | called under one mutex |
| v1 scheduler (`task_scheduler.go`) | none | `Tick` every 5 s and on every pull; reassignment on disconnect | task store, worker store, connections |
| v1 worker store (`worker_store.go`) | online flags, running counts, connections | register, disconnect, count, offline detector | - |
| v1 handler (`handler.go`) | the UUID of its connection | register, progress, result, pull, disconnect | all of the above |
| v1 client (`internal/worker/client.go`) | runners by task, the socket | read loop, report loop, stop | handler by WebSocket |
| v1 CIDR distribution (`shard.go`) | none across calls | greedy packing with int64 totals, round-robin fallback | its shards become tasks of the store |
| v1 runner (`runner.go`, `verifier.go`) | targets, feeder, dispatcher, scan goroutines, results | run to a result, stop | masscan, scanner, verifier; client by two channels |
| event queue, dashboard hub | queue; subscribers | push/pop/ack; broadcast | - |
| scanner, verifier, resolver | none across calls | network probes | outside world |

The hard behaviours, each with its line in `PROJECT.json` under `hazards`:

* v2 has no leader and no lease. Every hand-over is a row that one program writes
  and another one polls. Statements of several goroutines and processes interleave,
  a batch lives in a worker's memory between two statements, statement errors are
  dropped, NATS delivers at most once.
* v1 has one mutex per store and no lock across stores. Scheduling passes run
  concurrently on aging copies, connections break with messages under way, and a
  worker comes back in a new session while the old one is being torn down.

What makes each component correct:

* pipeline: nothing is scanned by two workers; done means scanned and verified; no
  hit or verified row is lost; phases never go back; a job ends; cancel stops it;
* task store: a pending task keeps its place in the line, is queued once, and a task that
  is recorded with a worker is not queued; finished tasks stay finished;
* dispatch: the count of a worker's tasks covers what the worker has, a task is at one
  place, a task shown as completed was completed by a runner, no task is left with a
  worker that is gone, a waiting task finishes;
* CIDR splitting and distribution: every network is in exactly one part, the parts
  are as even as the algorithm promises;
* masscan stream: what masscan wrote reaches the table once, and the end is noticed;
* runner: completed means every job scanned and every hit judged; a runner reports how
  it ended and its goroutines end with it.

## 2. Modules

```
TaskStore          v1 task store            <- TaskStore_proofs, MCTaskStore
  Dispatch         EXTENDS TaskStore: scheduler + worker store + handler + client
                                            <- Dispatch_proofs, MCDispatch
ScanJob            abstract: what a v2 job promises its user
  JobPipeline      INSTANCE ScanJob WITH ... : v2 master + workers + PostgreSQL + NATS
                                            <- JobPipeline_proofs, ChunkCount_proofs,
                                               ScanJob_proofs, MCJobPipeline
CidrSplit          how the v2 master cuts the list of CIDRs  <- CidrSplit_proofs
MasscanStream      RunStreaming and the goroutine that stores what it delivers
  Phase1           EXTENDS both: from the list to the rows   <- Phase1_proofs, MCPhase1
ShardCIDRs         v1 DistributeCIDRs
TaskRunner         v1 TaskRunner.run with VerifyBatch
  ShardedScan      EXTENDS both: from the list to the runner of a shard
                                            <- ShardedScan_proofs, MCShardedScan
```

### JobPipeline

One job. All statements filter by `job_id`, so rows of two jobs never meet; the two
exceptions are the start-up statement and the recovery statement of the master,
which treat each row by itself. An `Item` is an (ip, port) pair that would answer
masscan.

| Variables | Code |
|---|---|
| `jobStatus`, `jobPhase`, `doneWorkers`, `totalWorkers` | the row in `jobs` |
| `found`; `queue`, `owner`; `result` | the rows in `masscan_results`; `work_queue`; `results`. `result` abstracts (status, colo): `tls-ok` is colo='' and `rejected` is tls-ok with colo `fail` or `error` |
| `online` | `workers.status='online'` |
| `chunkMsg`, `phase2Msg` | messages that NATS accepted for a subscriber |
| `createPc`, `targets`, `chunk` | the goroutine of `handleCreateJob` |
| `watch1`, `watch2` | where the two watchers are |
| `cancelPc`, `deletePc` | the statements of `CancelJob` and `DeleteJob` still to run |
| `proc`, `left`, `scanning`, `pickup` | a worker's `main`, its masscan goroutine, its start-up query |
| `p2`, `hits`, `todo`, `marking`, `buf`, `verifying` | `processPhase2` and `runPhase2b`; `p2` stays `exit` because `phase2Jobs` entries are never removed |

Grain: PostgreSQL runs each `db.Exec` in a transaction of its own, so an action is
one statement and the local code around it. `UPDATE ... FOR UPDATE SKIP LOCKED` is
one atomic claim. `MarkWorkScannedBatch` is one transaction. The schema is not in
the repository; defaults (`jobs` starts in `pending`, `phase1`; `work_queue` rows in
`pending`) and unique keys are what the statements need to work. The only state of
the split that matters here is which item lies in whose chunk, so `StartJob` picks
any function from items to targets. `MarkPhase1Done` drops whatever the stream had
not stored yet: lost probes, failed inserts and a masscan that did not start look
alike to the tables.

Failures: `CrashWorker` (with `StartWorker` as the restart), `MasterRestart` (with the
start-up clean-up), `LoseMessage`, panics, and failed statements. A panic in `CheckProxy`
or `Verify` is recovered in its goroutine: `ScanPanics` drops the item, whose row stays in
`processing`, and `VerifyPanics` leaves the row for a later batch; a panic of the masscan
goroutine reports the chunk, as `MarkPhase1Done` does. Of the failed statements the models have
the ones whose failure changes what the program does next: the counts of the
watchers and workers (a failed `QueryRow` leaves 0), `IsJobCancelled` (leaves the
empty status), `PopulateWorkQueue`, `FetchWorkBatch` before or after it took effect,
the flush, the insertion of a hit. One cancel handler and one delete handler run at a time,
each as often as the request comes; net/http would run any number of them at once, with the
same statements.

### ScanJob

Three variables: the status that the page shows, the verdict on every item, and whether
the user has interfered. JobPipeline implements it with `status <- jobStatus`, `verdict
<- result`, `touched <- requests # {}`. `Accept` and `Purge` are less strict than one might
expect, because the code is: a verification that comes in after the final `DELETE` accepts
an item that no longer has a row, and overrides a rejection.

### CidrSplit, MasscanStream and Phase1

`CidrSplit` has the two loops of `handleCreateJob` (sum of the rates, cutting), with the
fallback for unknown rates, the remainder for the last worker, the raise to one CIDR and
the cap at the end of the list. `MasscanStream` has three processes. masscan appends lines
to a buffer and flushes any prefix of it to its file, which may end inside a line; what a
reader would make of the piece is one of four values. The reader is `RunStreaming`'s
goroutine with a program counter at each point where the file or the exit may change
under it: the two checks for the exit, opening, each line, the end of a pass, each send.
The worker's goroutine receives, inserts (an insert may fail) and marks the chunk.
The insert of a batch is one step that succeeds or
fails. Only the batch of the final read can be larger than 500 and take several statements,
of which the first may succeed when a later one fails; what is then lost counts as lost with
its batch.
`done` is the reader's local flag, `cut` and `unsaved` are history variables for the two
ways in which the code loses an address. `Phase1` gives the chunk of any worker to the
stream. `JobPipeline` has the same goroutine as `InsertMasscanResults` and
`MarkPhase1Done`, where what is stored is any part of what was found.

### ShardCIDRs, TaskRunner and ShardedScan

`ShardCIDRs` is `DistributeCIDRs` one loop iteration at a time. CIDRs are places in the
list with their host bits, -1 for one that does not parse; `Largest` takes the entries in
any order that `sort.Slice` may produce; `Wrap` is int64 addition. In `TaskRunner` one
function, `stage`, says where each (address, port) is between the feeder and its verdict,
so the channels and the goroutines of the scan are sets of jobs. `Source` chooses between
CIDRs, addresses and ASNs, the last also for an empty shard. `StartScan` goes on after a stop,
because the `break` at `runner.go:175` leaves the `select` only. The dispatcher takes a
job and its slot in one step: nothing tells apart a job in the channel from a job that the
dispatcher holds while it waits for `sem`. The final `select` may report or not when a stop has
come. VerifyBatch gives no result for a target that is not confirmed, so the status
`failed-verify` of `runner.go:365` is never set. `ShardedScan` hands any one shard to a
runner; a shard's way through queue and scheduler is in TaskStore and Dispatch.

### TaskStore

Every method that changes a status, an owner or the queue is an action, because every
method runs under the store's mutex. `handedOut` stands for `AssignedCount > 0` and
`taken` is a history variable for `PopPending`, which hands an entry to its caller.
`StoreSpec` lets callers do anything, except that a result is reported only for a
task handed out before. The choice which running tasks are in their three minutes of
grace is the clock's, and the order in which the tasks of one worker are queued again
is that of a Go map: both are nondeterministic.

### Dispatch

Extends `TaskStore` with the three other parts of the v1 master and the client.
`tick[th]` is a scheduling pass in thread `th` (the scheduler's loop, or a handler
that serves a pull): list idle workers, take the head of the queue, assign, find the
connection, write, count; each is a lock section of its own. `handler[s]` is the
goroutine of a connection, `client`, `runners` and `report` the other end. A session
is one client with its socket. `muted` is `SafeConn.closed`. Replies of the master are
in the model only where a registering client could read them; a running client skips
them. `AcceptTask` is the check of the capacity and the insertion of the runner, two lock
sections in the code: only the read loop inserts, so nothing else can use the room between
them. A client stops when its connection closes; that the program calls `Client.Stop` while
the connection is open is left out, as is what its runners might still report then.
Left out besides: heartbeats (their absence is `MarkOffline`), progress, the dashboard,
and the client's own handling of a cancellation, which no message reaches.

`ImplementsStore` says that the composed system calls the store only as `StoreSpec`
allows. The theorems about the store then hold of the composed system. They speak of the
queue and of the recorded status; which client really runs a task they do not say, and
after a break two may.

## 3. Runs

Run names, configurations and properties are in `PROJECT.json`.

| Run | Instance | Shows |
|---|---|---|
| pipeline | 2 running workers, 2 items, one worker crash (the worker may come back at any later step) or one master restart anywhere | all safety properties of the pipeline, refinement of `ScanJob` (0.8 M states) |
| requests | 1 worker, 1 item, cancel and delete at any time, one failed statement or lost message | no stranded rows, `CancelStops`, `DeleteQuiesces` (0.1 M) |
| live | 1 worker, 2 items, two faults of four kinds (worker crash, master restart, lost message, panic) at any step | the job ends, with three named exceptions (49 k) |
| taskstore | 3 tasks, 2 workers, every call in every order, late results included | the five store properties (2 k) |
| dispatch_safe | 2 tasks, 2 workers, 2 sessions | concurrent passes: `CountCovers`, one holder per task (0.7 M) |
| dispatch_faults | 2 tasks, 1 worker, 2 sessions, one broken connection | `CompletedMeansRun`, no orphan, refinement of `StoreSpec` (0.8 M) |
| dispatch_late | 2 tasks, 1 worker, late heartbeats, hanging runners, cancel | `CompletedMeansRun`, `FinishesUnlessLeaked` (66 k) |
| phase1 | lists of up to 8 CIDRs, 3 workers with rates 0 to 3; 2 hosts, 2 ports, batches of 2, a channel of 1, one failed insert | the chunks partition the list and are near their weight; what the file had is stored once; the chunk is reported (0.4 M) |
| sharded | up to 4 CIDRs of 1, 2 or MaxInt hosts or unparsable, 0 to 3 shards; up to 3 hosts, 2 scans at once, a stop anywhere | the dealing, and the life of a runner (0.13 M) |
| recovery, leftovers, dispatch_reject | smallest that shows it | disagreements between code and text, see section 5 |

**Why these bounds.** Two workers are enough for every race over a row or a queue
entry, since statements look at one row and at one other owner at a time; two items
are enough for a batch that is partly flushed, for a row left in another state than
its neighbour, and for a `LIMIT` that leaves a row behind: the pipeline run has
`VerifyLimit` 1 for that, `BatchLimit` 2 so that one batch holds two rows, and `FlushAt` 2
so that a group can be full. Its workers run from the start; a worker that starts late is
one that crashed before its first step and comes back. Two tasks with `MaxTasks` 1 give a queue
with a second entry and a worker at its limit; two sessions give a reconnect. One
fault is enough for each single failure; `dispatch_late` uses two, a late heartbeat and
a hanging runner, and `live` two of any kinds: a message lost and the crash of who should have
made up for it, a crash during the repair of a crash. `live` has one worker, because there all
that a second one could repair is left to the mechanisms that the run is about: the
start-up query and the reconciliation. Without either of them TLC finds a job that does not
end; with a second running worker that hears the message it would not. In `phase1` a chunk of two hosts with two ports gives lines that repeat an address
in one pass, in two passes and in the final read, full and partial batches, and a channel
that blocks; eight CIDRs for three workers give every rounding of the weights, also more
workers than CIDRs. In `sharded` two scans at once need three hosts to fill the results
channel while a third scan waits; `MaxInt` 16 is
as much as `ShardAssumption` asks for; in the code it holds of any list of fewer than 2^31
networks. `MaxFaults` is the only bound on a counter: all other
state is finite by construction (`doneWorkers` grows once per chunk, queues of
messages are bounded by what the peers write before reading).

The requests run has one worker. The cross-worker part of what it asks, `NoStranding`
and `OneScanner` under any requests and any faults, is proved (section 4), and so is
what several items could add to it: the run asks whether one row is left behind, and
whether a worker leaves the job.

**Symmetry.** Items, workers, tasks and sessions are interchangeable and no action
singles one out; the safety runs use symmetry sets, the runs with liveness do not. The
hosts of `phase1` are interchangeable too. As that run has liveness, it breaks the symmetry
by an action constraint, `FoundInOrder`: masscan finds hosts for the first time in the
order of their numbers. Every behaviour is one of these with its hosts renamed.

**Fairness.** Weak fairness for goroutines that the code keeps in a loop or has
started: the watchers, the worker's loops, handlers, client loops, the scheduler's
ticker. A scan ends in time (`CheckProxy`, `Verify` and masscan have timeouts or end),
so `RunnerStep` and the masscan goroutine are fair, and so are the steps of the stream's
reader (its loops sleep and look again), masscan's end, and in `TaskRunner` each of the four kinds
of goroutine; a stop is not fair. A worker process that is down is
started again: the worker takes a fixed `-id`, caches its hardware probe and picks up
missed jobs when it starts, which makes sense only for a service that is restarted. The
crash itself, requests, faults and, in Dispatch, the start of clients are never fair.
Fairness for `DeleteStep` is not needed: once the job's row is gone, or if it never
goes, `DeleteQuiesces` says nothing more about it.

**Deadlock** is checked in every run but `phase1` and `sharded`, whose behaviours end when the
chunk is reported or the runner has returned; what must happen before is a liveness
property there. The v1 and v2 systems as wholes never stop.

## 4. Proofs

Eight modules, checked by tlapm; no assumption besides the named ones on the constants
(`PipelineAssumption`, `StoreAssumption`, ...), which TLC evaluates in the runs, and the
absence of one kind of fault where a theorem says so. Each of these kinds does break the
property, and the source is where the model has it from:

* `"db" \notin Faults`: a count query that fails reads as 0 (`main.go:265`), and a watcher
  that reads 0 goes on to the next phase.
* `"late" \notin Faults`: a worker marked offline while its connection lives loses the
  connection from the store; its handler then panics and reassigns nothing.
* `"break" \notin Faults`: the Master cannot know what was lost with a connection. It gives
  the tasks to others while the cut-off client may go on with them.

*JobPipeline_proofs*, for any sets of workers and items, any number of faults and
requests, any batch sizes:

| Theorem | Needs |
|---|---|
| `TypeCorrect` | - |
| `PhaseMonotoneHolds` | `PhaseInv` |
| `OneScannerHolds` | `ScanInv`, `ClaimInv` |
| `VerifiedStableHolds` | `ClaimInv` |
| `NoStrandingHolds` | `ScanInv` |
| `DoneMeansVerifiedHolds`, `HitsKeptHolds` (no failed statements) | `DoneInv` |

The inductive invariant is built in layers, because each property alone forgets what
a process read some statements ago:

* `PhaseInv` ties the position of each watcher to the phases the job may have by then.
  It is what makes the two unconditional `UPDATE jobs SET phase` safe: the first
  watcher can write `phase2` only while nobody can have written a later phase.
* `ScanInv` says what each position of `processPhase2` implies for its local sets.
* `ClaimInv`: without requests, a row held by a worker is `processing` with that worker
  as its owner or already `done`, and the owner is online. So `LostItems` takes no row
  from a worker that holds it. That `CrashWorker` leaves `online` alone is what keeps
  this inductive.
* `DoneInv` relates the watcher's position to the tables: once it has counted no undone
  rows in a phase after 1, no row becomes undone again; then no new `tls-ok` row can
  appear, because only a holder of an undone row writes one; then the second count
  stays 0 up to the final DELETE. A failed count breaks exactly this chain, hence the
  assumption `"db" \notin Faults`.

Each layer has one lemma for the master's actions and one for the workers', one case
per action, and the theorems combine them.

*TaskStore_proofs*: `StoreInv` is the conjunction of the type, `PendingSomewhere` (a
pending task is in the queue or with the caller that popped it), `EntriesWaitOrAnswered`
(the queue names tasks that wait, and re-queued ones that were answered late),
`QueuedOnce`, `HeldNotQueued` and `UnseenNowhere` (a task not yet created is in no
queue and was never handed out, so that `CreateTask` keeps `QueuedOnce`). The second and
third give `PendingInLineHolds`. The queue
operations of the code are covered by four lemmas about sequences without duplicates
(`WithoutDrops`, `AppendAdds`, `ConcatAdds`, `TailDrops`).

*ChunkCount_proofs*: the counting argument of phase 1. Every chunk is in exactly one of
four places (still to be published, on its way, with a masscan goroutine, counted), so the
sum of the cardinalities stays `total_workers` (`NoChunkLostHolds`). `DoneMeansScannedHolds`
adds what the tables say at each position of the two watchers: once phase 2 has begun, an
item that was found has a row, and the last count sees the rows that are not done; it
assumes that the count queries do not fail.

*ScanJob_proofs*: `ImplementsScanJobHolds`, the step simulation. Each action of the
pipeline is one action of `ScanJob` or a stutter. Three need an invariant: `FinishStatus`
and `PurgeTlsOk` (no `tls-ok` is left: `DoneInv`), and `ScanHit` (a hit had no verdict and the
job runs: `ClaimInv`, `DoneInv`).

*Dispatch_proofs*: `DispatchInv` is the type and what the program counters of passes,
handlers and clients say about the messages under way. From it follow the type,
`ImplementsStoreHolds` (each step is a call that `StoreSpec` allows) and `CompletedMeansRunHolds`, for any
numbers of tasks, workers and sessions and all faults.

For `NoOrphanHolds` (`"late" \notin Faults`) `OrphanInv` follows a task that is assigned: its
worker is registered with a handler that will still come to its end, or that handler is
about to reassign, or the pass that assigned the task has still to look for the connection
or to take the assignment back. `OneHolderHolds` (`"break" \notin Faults`) names all places at which an assigned task may
be (a pass, a message, a runner): `HolderInv` says that it is at one at most, and at none
while it may be assigned. As no connection breaks, the only ways from one place to the next
are the code's own, and each takes the task away where it was.

*CidrSplit_proofs*: `SplitInv` says where the loop stands: one chunk for each worker served,
chained end to end, the last one ending at `offset`. `ChunkEnd` is the arithmetic: the end
is between `offset` and the length of the list, and is that length for the last worker.
For `NearShareHolds`, `WeightInv` keeps a witness, the function of the partial sums of the
rates, because a recursive sum could not be reasoned about: after k workers `offset` is
at most k away from the exact share of the first k. Each worker
adds to that less than one CIDR by the rounding or at most one by the raise, and the cap
cuts only at the end of the list. A chunk is the difference of two such offsets.

*Phase1_proofs*, for any list, rates, hosts, ports, batch and channel sizes. Five
invariants, each proved from the ones before it:

* `StreamTypes`: the reader is never ahead of the file, nor the file of masscan.
* `Control`: what each position of the reader says of masscan and of the channel. Once the
  reader knows of the exit the file no longer changes, and the closing batch is the last.
* `Delivered`: an address the reader has seen is in its batch, in the channel, stored, or
  lost with a failed insert.
* `Once`: it is in one of these only, and once; batches and rows do not overlap.
* `Followed`: each line before the reader's offset was seen, or was read in two pieces.

When the chunk is marked, batch and channel are empty and the offset is the end of the file
(`Control`), so `Followed` and `Delivered` give `FoundIsStoredHolds`. `OneRowPerAddressHolds`
is `Once`, and `Phase1SplitHolds` carries the two properties of the list into the composition.

*ShardedScan_proofs*: `DealInv` adds to `OwnSubset` and `Balanced` that placed entries are
at least as large as unplaced ones (`Sorted`); a placement raises the smallest total by
at most the size of the smallest network of that shard. `WrapInv` is for `WrapNeedsBigHolds`:
the total of a shard without a network that counts as `MaxInt` is at most the number of its
networks times the largest other size. So only the total of a shard with a big network can
overflow, and that total is the smallest one only when every shard has a big network.
`ShardAssumption` is what this needs of the numbers: all networks of the list, each of the
largest other size, do not overflow (fewer than 2^31 networks in the code).
`RunInv` orders the ends of the runner's goroutines: feeder before pool before collecting
before verification.

*Only model-checked*: all liveness (`CompletesUnlessStranded`, `CancelStops`,
`DeleteQuiesces`, `FinishesUnlessLeaked`, `ChunkIsReported`, `RunnerReports`,
`GoroutinesEnd`), because fairness and ENABLED are beyond the prover. Every safety and action
property that a passing run checks has a theorem, except `CountCovers`.

## 5. Disagreements between the code and its text

Each of the first three has a run that TLC refutes with the code's own steps.

1. `main.go:245` "crash recovery": nothing ever marks a crashed worker offline, so its
   rows stay in `processing` and the job does not end (`recovery`).
2. `index.html:191` offers to delete a job "and all its data": a masscan or batch under
   way inserts rows afterwards (`leftovers`). The page shows the link only for jobs that
   are not running, but cancelling does not stop a masscan.
3. `client.go:366`: a worker at capacity answers "failed" "so master reassigns"; the
   master fails the task for good (`dispatch_reject`).

Seen in the models' behaviours, without a run of their own:

* A failed count reports a job done (`main.go:265` against `:282`).
* The handler of a late worker writes through the connection that the offline detector
  removed, and panics; its tasks are then not reassigned (`handler.go:205`,
  `task_scheduler.go:107`). `Dispatch` has it with "late" in `Faults`, and `NoOrphan` is
  checked and proved without it.
* `GetPending`, which "returns the next pending task" (`task_store.go:347`), returns the
  first entry of the queue. When a task that was queued again is answered late by its first
  worker, its entry stays there, `AssignTask` refuses it, nobody calls `PopPending`, and
  every task behind it waits for ever. `PendingInLine` names this as the only thing that
  can come between a pending task and a worker.
* The busy mark of `task_scheduler.go:92` is set on a copy and two passes may assign two
  tasks; `CancelTask` (`task_store.go:268`) notifies nobody, and `handleCancelJob` publishes a
  subject that nobody subscribes to.
* `RunStreaming` reads a line in two pieces when masscan's buffer ends inside it, and
  loses the address; all addresses of a batch are stored with the port of the first one
  (`worker/main.go:243`); of a host with two open ports one is kept.
* A shard without CIDRs is scanned as the whole ASN, although `task_store.go:87` says "no IP
  generation"; `shardIndex` and `shardTotal` are stored and never read, although
  `task_store.go:119` says that they determine the range.
* A masscan that fails on all CIDRs ends the runner without a result (`runner.go:311`);
  a stopped runner goes on scanning (`runner.go:175`) and may leave its dispatcher waiting
  for ever (`runner.go:158`).
* The totals of `DistributeCIDRs` overflow as soon as every shard has a network of 32 host
  bits or more (an IPv6 network of /96 or larger); all that is left goes to one shard.

## 6. Not modelled

* The read-only endpoints, SSE and the page of v2, and the dashboard hub of v1: they
  change no state of a job or a task.
* The event queue of v1: no code pushes an event, so it is empty in every state.
* `masscan.Run`, `CheckProxy`, `Verify` and the resolver beyond their outcomes: single calls
  into the outside world without state of their own.
* Heartbeats, progress, activity columns, hardware probing, encodings, the stand-alone test
  programs.
* The client's own cancellation: no message of the master reaches it. A stop of a runner at
  any time is in `TaskRunner`.
* The limits 20 and 10 of the worker's queries over several jobs: JobPipeline follows one job.

## 7. Running

```
tlc -config JobPipeline_safe.cfg MCJobPipeline
tlc -config TaskStore_api.cfg MCTaskStore
tlc -config Dispatch_safe.cfg MCDispatch
tlc -config Phase1_stream.cfg MCPhase1
tlc -config ShardedScan.cfg MCShardedScan
tlapm JobPipeline_proofs.tla
tlapm TaskStore_proofs.tla
tlapm Dispatch_proofs.tla
tlapm Phase1_proofs.tla
```

Operators whose comment begins with "Mutant" are not used by any specification. Each
is a plausible slip in the definition that follows it, and replacing that definition
by it makes the property that `PROJECT.json` pairs it with fail.
