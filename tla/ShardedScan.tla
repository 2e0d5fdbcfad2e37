----------------------------- MODULE ShardedScan -----------------------------
(***************************************************************************)
(* A sharded scan of the v1 system: the CIDRs are dealt to shards          *)
(* (ShardCIDRs), CreateCIDRShards makes a task of every shard, and each    *)
(* task is run by a worker (TaskRunner).  How tasks are queued, assigned   *)
(* and reassigned is the matter of modules TaskStore and Dispatch.  The    *)
(* runners of a scan share nothing, so one of them, any one, is followed.  *)
(* A CIDR has one host that may answer: more hosts are as good as more     *)
(* CIDRs.                                                                  *)
(***************************************************************************)
EXTENDS ShardCIDRs, TaskRunner, Sequences

vars == <<shardVars, runnerVars>>

Init == ShardInit /\ RunnerInit

Shard == ShardNext /\ UNCHANGED runnerVars

\* The task of shard i, with or without ASNs, reaches its runner.  What the
\* other shards do is no longer of interest.
Assign(i, asns) ==
    /\ dealt
    /\ StartRunner(shards[i], Cidrs, asns)
    /\ hostBits' = <<>> /\ shardCount' = 0 /\ entries' = {} /\ shards' = <<>>
    /\ totals' = <<>> /\ wrapped' = FALSE /\ dealt' = FALSE

Scan == RunnerNext /\ UNCHANGED shardVars

Next ==
    \/ pc = "off" /\ Shard
    \/ \E i \in DOMAIN shards, asns \in BOOLEAN : Assign(i, asns)
    \/ Scan

\* Goroutines are scheduled; masscan, scans and verifications time out.
Fairness ==
    /\ WF_vars(RunStep /\ UNCHANGED shardVars)
    /\ WF_vars(FeederStep /\ UNCHANGED shardVars)
    /\ WF_vars(PoolStep /\ UNCHANGED shardVars)
    /\ WF_vars(ScanStep /\ UNCHANGED shardVars)

Spec == Init /\ [][Next]_vars /\ Fairness
-----------------------------------------------------------------------------
(* The type of the state of a sharded scan.                                *)
TypeOK ==
    /\ hostBits \in Seq(-1 .. BigBits)
    /\ shardCount \in 0 .. MaxShards
    /\ entries \subseteq Parsed
    /\ \A i \in DOMAIN shards : shards[i] \subseteq Cidrs
    /\ \A i \in DOMAIN totals : totals[i] \in -(MaxInt + 1) .. MaxInt
    /\ wrapped \in BOOLEAN /\ dealt \in BOOLEAN
    /\ task \in [cidrs : SUBSET Nat, all : SUBSET Nat, asns : BOOLEAN]
    /\ pc \in {"off", "targets", "scan", "verify", "report", "returned"}
    /\ feeder \in {"off", "feeding", "gone", "closed"}
    /\ pool \in {"off", "open", "closed"}
    /\ \A j \in DOMAIN stage :
          stage[j] \in {"new", "queued", "active", "found", "plain", "dropped",
                        "miss", "hit", "verified", "kept"}
    /\ Cardinality(In({"active"})) <= Concurrency
    /\ stopped \in BOOLEAN
    /\ status \in {"none", "failed", "cancelled", "completed"}

(* A task that is reported as completed had every one of its jobs scanned  *)
(* and collected, and every hit judged: only after a stop that the last    *)
(* selects did not see may results be missing (runner.go:181, 239).        *)
CompletedMeansCollected ==
    status = "completed" =>
        \A j \in DOMAIN stage :
            \/ stage[j] \in {"miss", "verified", "kept"}
            \/ stage[j] = "dropped" /\ stopped

(* A runner comes to its end and reports how it ended, unless it was       *)
(* stopped or masscan failed on its CIDRs without a result (runner.go:311: *)
(* then the master keeps the task as running).                             *)
RunnerReports ==
    pc = "targets" ~>
        /\ pc = "returned"
        /\ \/ status # "none"
           \/ stopped
           \/ task.cidrs # {} /\ DOMAIN stage = {}

(* The goroutines of a runner end with it, also when nobody collects their *)
(* results any more; only a dispatcher whose feeder left on a stop waits   *)
(* for jobs for ever (runner.go:154).                                      *)
GoroutinesEnd ==
    pc = "returned" ~>
        /\ In({"queued", "active"}) = {}
        /\ feeder # "feeding"
        /\ feeder = "gone" \/ pool # "open"
=============================================================================
