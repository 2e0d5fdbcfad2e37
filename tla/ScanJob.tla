------------------------------ MODULE ScanJob ------------------------------
(***************************************************************************)
(* What a MultiScan v2 job promises to the user who created it and leaves  *)
(* it alone: the status that the page shows and the verdict on every open  *)
(* port, without workers, queues or messages.  JobPipeline implements it.  *)
(***************************************************************************)
CONSTANT Item           \* the open (ip, port) pairs of the job's networks

VARIABLES
    status,     \* jobs.status, or "absent"
    verdict,    \* results by item
    touched     \* the user has cancelled or deleted the job

jobVars == <<status, verdict, touched>>

Status  == {"absent", "pending", "running", "done", "failed", "cancelled"}
Verdict == {"none", "tls-ok", "rejected", "verified"}

JobInit ==
    /\ status = "absent"
    /\ verdict = [i \in Item |-> "none"]
    /\ touched = FALSE

Become(from, to) ==
    /\ status = from
    /\ status' = to
    /\ UNCHANGED <<verdict, touched>>

Create == Become("absent", "pending")
Fail   == Become("pending", "failed")
Start  == Become("pending", "running")

(* A restarted master drops the jobs that were not started yet.            *)
Drop == Become("pending", "cancelled")

(* A job is done only when every hit has its verdict.                      *)
Finish ==
    /\ \A i \in Item : verdict[i] # "tls-ok"
    /\ Become("running", "done")

Judge(i, v) ==
    /\ verdict' = [verdict EXCEPT ![i] = v]
    /\ UNCHANGED <<status, touched>>

(* An item is a hit once, while the job runs: nothing is scanned again     *)
(* after it was judged.                                                    *)
Hit(i) ==
    /\ status = "running"
    /\ verdict[i] = "none"
    /\ Judge(i, "tls-ok")

Reject(i) ==
    /\ verdict[i] = "tls-ok"
    /\ Judge(i, "rejected")

(* Acceptance overrides a rejection.  Only after the job is done can an    *)
(* item be accepted without a row: a slow verification of a row that the   *)
(* final DELETE removed brings it back.                                    *)
Accept(i) ==
    /\ verdict[i] # "none" \/ status = "done"
    /\ Judge(i, "verified")

(* The final DELETE: rejected hits go, accepted ones stay.                 *)
Purge ==
    /\ status = "done"
    /\ \A i \in Item : verdict[i] # "tls-ok"
    /\ verdict' = [i \in Item |-> IF verdict[i] = "rejected" THEN "none" ELSE verdict[i]]
    /\ UNCHANGED <<status, touched>>

(* Nothing is promised to a user who interferes.                           *)
Interfere ==
    /\ touched' = TRUE
    /\ status' \in Status
    /\ verdict' \in [Item -> Verdict]

JobNext ==
    \/ Create \/ Fail \/ Start \/ Drop \/ Finish \/ Purge \/ Interfere
    \/ \E i \in Item : Hit(i) \/ Reject(i) \/ Accept(i)

JobSpec == JobInit /\ [][JobNext]_jobVars
=============================================================================
