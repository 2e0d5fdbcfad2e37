----------------------------- MODULE TaskRunner -----------------------------
(***************************************************************************)
(* TaskRunner.run of the v1 worker (internal/worker/runner.go): where the  *)
(* addresses of a task come from, the goroutine that feeds the jobs, the   *)
(* dispatcher with its scan goroutines, the loop that collects their       *)
(* results, and the verification of the hits (internal/verifier).  Stop    *)
(* may come between any two of their steps.                                *)
(*                                                                         *)
(* stage says for every job where it is: "new", in the jobs channel        *)
(* ("queued"), being scanned ("active"), in the results channel (a "found" *)
(* or "plain" result), dropped by its goroutine ("dropped"), or collected  *)
(* as a "miss" or as a "hit", which verification makes "verified" or       *)
(* leaves as it is ("kept").  Progress reports go into a channel with a    *)
(* default branch, so they never hold a goroutine, and are left out.       *)
(***************************************************************************)
EXTENDS Integers, FiniteSets

CONSTANTS
    Port,           \* TaskRunner.Ports
    Concurrency,    \* cfg.Concurrency of the scanner
    TestIps,        \* getDefaultTestIPs
    MaxLive         \* bound on the addresses that masscan finds

ASSUME RunnerAssumption ==
    /\ Concurrency \in Nat \ {0}
    /\ MaxLive \in Nat

VARIABLES
    task,           \* what the runner was given: CIDRs, their ASN's, has it ASNs?
    pc,             \* where run() is
    feeder,         \* the goroutine of runner.go:152
    pool,           \* the dispatcher of runner.go:168 and its results channel
    stage,
    stopped,        \* stopCh is closed
    status          \* of the TaskResult in resultCh, "none" while it is empty

runnerVars == <<task, pc, feeder, pool, stage, stopped, status>>

In(s) == {j \in DOMAIN stage : stage[j] \in s}

Move(j, s) == stage' = [stage EXCEPT ![j] = s]

RunnerInit ==
    /\ task = [cidrs |-> {}, all |-> {}, asns |-> FALSE]
    /\ pc = "off"
    /\ feeder = "off"
    /\ pool = "off"
    /\ stage = [j \in {} |-> "new"]
    /\ stopped = FALSE
    /\ status = "none"

\* handleMasterMessage: a new runner, started.
StartRunner(cidrs, all, asns) ==
    /\ pc = "off"
    /\ task' = [cidrs |-> cidrs, all |-> all, asns |-> asns]
    /\ pc' = "targets"
    /\ UNCHANGED <<feeder, pool, stage, stopped, status>>

\* An empty list of CIDRs reads as none: the runner turns to the ASNs.
Source ==
    IF task.cidrs # {} THEN "cidrs" ELSE IF task.asns THEN "asns" ELSE "ips"

\* Whether an address answers is masscan's to say: a host per CIDR.
Live ==
    CASE Source = "cidrs" -> SUBSET task.cidrs
      [] Source = "ips"   -> {TestIps}
      [] Source = "asns"  -> SUBSET task.all

\* The jobs channel has room for every job, so the feeder never waits.
GetTargets(live) ==
    /\ pc = "targets"
    /\ live \in Live /\ Cardinality(live) <= MaxLive
    /\ stage' = [j \in live \X Port |-> "new"]
    /\ pc' = "scan"
    /\ feeder' = "feeding"
    /\ pool' = "open"
    /\ UNCHANGED <<task, stopped, status>>

\* masscan is not installed, or the ASNs cannot be resolved or are empty.
FailTargets ==
    /\ pc = "targets"
    /\ Source # "ips"
    /\ status' = "failed"
    /\ pc' = "returned"
    /\ UNCHANGED <<task, feeder, pool, stage, stopped>>

\* masscan failed on the CIDRs and found nothing: run() just returns.
GiveUp ==
    /\ pc = "targets"
    /\ Source = "cidrs"
    /\ pc' = "returned"
    /\ UNCHANGED <<task, feeder, pool, stage, stopped, status>>

\* A select takes either branch that is ready: a stop may go unseen.
Feed(j) ==
    /\ feeder = "feeding"
    /\ stage[j] = "new"
    /\ Move(j, "queued")
    /\ UNCHANGED <<task, pc, feeder, pool, stopped, status>>

\* On a stop the feeder returns and leaves the channel open.
LeaveFeeding ==
    /\ feeder = "feeding"
    /\ stopped
    /\ In({"new"}) # {}
    /\ feeder' = "gone"
    /\ UNCHANGED <<task, pc, pool, stage, stopped, status>>

\* Mutant: close(jobs) is missing.
NeverFed == FALSE

AllFed == In({"new"}) = {}

CloseJobs ==
    /\ feeder = "feeding"
    /\ AllFed
    /\ feeder' = "closed"
    /\ UNCHANGED <<task, pc, pool, stage, stopped, status>>

\* Mutant: sem has room for one scan too many.
RoomyFreeSlot == Cardinality(In({"active"})) <= Concurrency

\* sem <- struct{}{}
FreeSlot == Cardinality(In({"active"})) < Concurrency

\* The break on a stop (runner.go:175) leaves the select and not the loop:
\* the job is scanned all the same.
StartScan(j) ==
    /\ pool = "open"
    /\ stage[j] = "queued"
    /\ FreeSlot
    /\ Move(j, "active")
    /\ UNCHANGED <<task, pc, feeder, pool, stopped, status>>

\* CheckProxy is over and its result is sent.
Deliver(j, r) ==
    /\ stage[j] = "active"
    /\ Cardinality(In({"found", "plain"})) < Concurrency
    /\ Move(j, r)
    /\ UNCHANGED <<task, pc, feeder, pool, stopped, status>>

\* Mutant: the goroutine can only send.
NeverDropped == FALSE

MayDrop == stopped

DropResult(j) ==
    /\ stage[j] = "active"
    /\ MayDrop
    /\ Move(j, "dropped")
    /\ UNCHANGED <<task, pc, feeder, pool, stopped, status>>

\* Mutant: the dispatcher does not wait for its goroutines.
NoneQueued == In({"queued"}) = {}

\* The loop over the jobs is over, and wg.Wait() too.
AllScanned == In({"queued", "active"}) = {}

CloseResults ==
    /\ pool = "open"
    /\ feeder = "closed"
    /\ AllScanned
    /\ pool' = "closed"
    /\ UNCHANGED <<task, pc, feeder, stage, stopped, status>>

Collect(j) ==
    /\ pc = "scan"
    /\ stage[j] \in {"found", "plain"}
    /\ Move(j, IF stage[j] = "found" THEN "hit" ELSE "miss")
    /\ UNCHANGED <<task, pc, feeder, pool, stopped, status>>

EndCollecting ==
    /\ pc = "scan"
    /\ pool = "closed"
    /\ In({"found", "plain"}) = {}
    /\ pc' = "verify"
    /\ UNCHANGED <<task, feeder, pool, stage, stopped, status>>

ReportCancelled ==
    /\ pc = "scan"
    /\ stopped
    /\ status' = "cancelled"
    /\ pc' = "returned"
    /\ UNCHANGED <<task, feeder, pool, stage, stopped>>

\* VerifyBatch gives no result for a target that the service does not
\* confirm, so verifyHits leaves its entry as it is.
Verify(j, s) ==
    /\ pc = "verify"
    /\ stage[j] = "hit"
    /\ Move(j, s)
    /\ UNCHANGED <<task, pc, feeder, pool, stopped, status>>

EndVerify ==
    /\ pc = "verify"
    /\ In({"hit"}) = {}
    /\ pc' = "report"
    /\ UNCHANGED <<task, feeder, pool, stage, stopped, status>>

ReportCompleted ==
    /\ pc = "report"
    /\ status' = "completed"
    /\ pc' = "returned"
    /\ UNCHANGED <<task, feeder, pool, stage, stopped>>

\* The other branch of the last select: nothing is reported.
LeaveUnreported ==
    /\ pc = "report"
    /\ stopped
    /\ pc' = "returned"
    /\ UNCHANGED <<task, feeder, pool, stage, stopped, status>>

\* A cancel of the master, or the client stops.
Stop ==
    /\ pc \notin {"off", "returned"}
    /\ ~stopped
    /\ stopped' = TRUE
    /\ UNCHANGED <<task, pc, feeder, pool, stage, status>>

RunStep ==
    \/ \E live \in Live : GetTargets(live)
    \/ FailTargets \/ GiveUp
    \/ \E j \in DOMAIN stage : Collect(j)
    \/ EndCollecting \/ ReportCancelled
    \/ \E j \in DOMAIN stage, s \in {"verified", "kept"} : Verify(j, s)
    \/ EndVerify \/ ReportCompleted \/ LeaveUnreported

FeederStep == (\E j \in DOMAIN stage : Feed(j)) \/ LeaveFeeding \/ CloseJobs

PoolStep == (\E j \in DOMAIN stage : StartScan(j)) \/ CloseResults

ScanStep ==
    \E j \in DOMAIN stage : DropResult(j) \/ \E r \in {"found", "plain"} : Deliver(j, r)

RunnerNext == RunStep \/ FeederStep \/ PoolStep \/ ScanStep \/ Stop
=============================================================================
