------------------------------ MODULE CidrSplit ------------------------------
(***************************************************************************)
(* How handleCreateJob of the v2 master (v2/cmd/master/main.go) cuts the   *)
(* list of CIDRs of a job into one chunk for every online worker, weighted *)
(* by the workers' masscan rates.  The CIDRs are the indexes of allCIDRs,  *)
(* the workers those of workerIDs; a chunk is the interval of indexes      *)
(* [from, to) that is published to its worker.                             *)
(***************************************************************************)
EXTENDS Naturals, Sequences

CONSTANTS
    MaxCidrs,       \* bound on len(allCIDRs)
    MaxWorkers,     \* bound on len(workerIDs)
    MaxRate         \* bound on workers.masscan_rate

ASSUME SplitAssumption ==
    /\ MaxCidrs \in Nat
    /\ MaxWorkers \in Nat \ {0}
    /\ MaxRate \in Nat

VARIABLES
    cidrs,          \* len(allCIDRs)
    rates,          \* workerRates
    totalRate,
    turn,           \* the index of the running loop
    offset,
    chunks,         \* the chunks published so far, in the order of the workers
    phase           \* "add": the sum loop, "cut": the publish loop, "sent"

splitVars == <<cidrs, rates, totalRate, turn, offset, chunks, phase>>

SplitInit ==
    /\ cidrs \in 0 .. MaxCidrs
    /\ rates \in UNION {[1 .. n -> 0 .. MaxRate] : n \in 1 .. MaxWorkers}
    /\ totalRate = 0
    /\ turn = 1
    /\ offset = 0
    /\ chunks = <<>>
    /\ phase = "add"

\* totalRate += r
AddRate ==
    /\ phase = "add"
    /\ turn <= Len(rates)
    /\ totalRate' = totalRate + rates[turn]
    /\ turn' = turn + 1
    /\ UNCHANGED <<cidrs, rates, offset, chunks, phase>>

\* Without a known rate all workers weigh the same.
BeginCut ==
    /\ phase = "add"
    /\ turn > Len(rates)
    /\ IF totalRate = 0
       THEN /\ totalRate' = Len(rates)
            /\ rates' = [i \in 1 .. Len(rates) |-> 1]
       ELSE UNCHANGED <<totalRate, rates>>
    /\ turn' = 1
    /\ phase' = "cut"
    /\ UNCHANGED <<cidrs, offset, chunks>>

Share(i) == (cidrs * rates[i]) \div totalRate

\* Mutant: nobody gets the remainder.
ShareOnly(i) == IF Share(i) < 1 THEN 1 ELSE Share(i)

\* Mutant: the remainder goes to the first worker.
FirstTakesAll(i) == IF i = 1 THEN cidrs - offset ELSE ShareOnly(i)

ChunkSize(i) ==
    LET chunk == IF i = Len(rates) THEN cidrs - offset ELSE Share(i) IN
    IF chunk < 1 THEN 1 ELSE chunk

\* Mutant: the end of the list is not looked at.
PublishUncapped ==
    /\ phase = "cut"
    /\ turn <= Len(rates)
    /\ chunks' = Append(chunks, [from |-> offset, to |-> offset + ChunkSize(turn)])
    /\ offset' = offset + ChunkSize(turn)
    /\ turn' = turn + 1
    /\ phase' = IF turn = Len(rates) THEN "sent" ELSE "cut"
    /\ UNCHANGED <<cidrs, rates, totalRate>>

Publish ==
    /\ phase = "cut"
    /\ turn <= Len(rates)
    /\ LET end == offset + ChunkSize(turn)
           to == IF end > cidrs THEN cidrs ELSE end
       IN /\ chunks' = Append(chunks, [from |-> offset, to |-> to])
          /\ offset' = to
    /\ turn' = turn + 1
    /\ phase' = IF turn = Len(rates) THEN "sent" ELSE "cut"
    /\ UNCHANGED <<cidrs, rates, totalRate>>

SplitNext == AddRate \/ BeginCut \/ Publish

SplitSpec == SplitInit /\ [][SplitNext]_splitVars
-----------------------------------------------------------------------------
(* The chunks are cut from the list one after the other, and the last one  *)
(* ends where the list ends: every CIDR is scanned by exactly one worker,  *)
(* whatever the weights round to.                                          *)
ChunksPartition ==
    /\ \A i \in DOMAIN chunks :
          /\ chunks[i].from = IF i = 1 THEN 0 ELSE chunks[i - 1].to
          /\ chunks[i].from <= chunks[i].to
          /\ chunks[i].to <= cidrs
    /\ phase = "sent" =>
          Len(chunks) = Len(rates) /\ chunks[Len(chunks)].to = cidrs

(* Rounding, the raise to one CIDR and the remainder move a worker's chunk *)
(* by less than one CIDR per worker from its exact share                   *)
(* (main.go:166, "Split CIDRs weighted by masscan_rate").                  *)
NearShare ==
    phase = "sent" =>
        \A i \in DOMAIN chunks :
            LET size == chunks[i].to - chunks[i].from
                slack == Len(rates) * totalRate
            IN /\ size * totalRate < cidrs * rates[i] + slack
               /\ cidrs * rates[i] < size * totalRate + slack
=============================================================================
