------------------------- MODULE ShardedScan_proofs -------------------------
(***************************************************************************)
(* Theorems of ShardedScan, for any number of CIDRs and shards, any mix of *)
(* network sizes, any ports and any concurrency: how the CIDRs are dealt   *)
(* (DealInv), when their totals overflow (WrapInv), and what a completed   *)
(* task means (RunInv).  DealInv and RunInv share no variable, so each is  *)
(* shown to survive the other's steps at once.                             *)
(***************************************************************************)
EXTENDS ShardedScan, FiniteSetTheorems, TLAPS

DealTypes ==
    /\ hostBits \in Seq(-1 .. BigBits)
    /\ shardCount \in Nat
    /\ entries \subseteq Parsed
    /\ dealt \in BOOLEAN
    /\ DOMAIN shards = IF dealt /\ shardCount <= 1 THEN {1} ELSE 1 .. shardCount
    /\ totals \in [1 .. shardCount -> Int]

\* Until the end the shards hold the entries that were placed.
Placed ==
    ~dealt => \A c \in Cidrs : (\E i \in DOMAIN shards : c \in shards[i])
                                  <=> c \in Parsed \ entries

\* What was placed is at least as large as what is still to be placed.
Sorted ==
    shardCount > 1 =>
        \A c \in Parsed \ entries : \A d \in entries : Hosts(d) <= Hosts(c)

DealInv == DealTypes /\ OwnSubset /\ Placed /\ Sorted /\ Balanced

\* A network that does not count as MaxInt has at most so many addresses.
Unit == 2 ^ BigBits

LEMMA UnitFacts ==
    /\ Unit \in Nat /\ Unit < MaxInt /\ MaxCidrs * Unit <= MaxInt
    /\ \A b \in 0 .. BigBits : 2 ^ b \in 1 .. Unit
<1>1. 0 \in 0 .. BigBits
  BY ShardAssumption
<1>2. 2 ^ 0 \in 1 .. Unit
  BY <1>1, ShardAssumption DEF Unit
<1>3. Unit \in Nat
  <2> DEFINE size == 2 ^ BigBits
  <2>1. BigBits \in 0 .. BigBits
    BY ShardAssumption
  <2>2. size \in 1 .. size
    BY <2>1, ShardAssumption
  <2> HIDE DEF size
  <2>3. size < MaxInt /\ MaxInt \in Nat
    BY ShardAssumption DEF size
  <2> QED
    BY <2>2, <2>3 DEF Unit, size
<1> QED
  BY <1>3, ShardAssumption DEF Unit

LEMMA HostsNat ==
    ASSUME DealTypes, NEW c \in Parsed
    PROVE  /\ Hosts(c) \in Nat /\ Hosts(c) <= MaxInt
           /\ hostBits[c] < BigBits => Hosts(c) <= Unit
           /\ hostBits[c] >= BigBits => Hosts(c) = MaxInt
           /\ hostBits[c] \in Int
<1>1. hostBits[c] \in 0 .. BigBits
  BY ShardAssumption DEF DealTypes, Parsed, Cidrs
<1> DEFINE size == 2 ^ hostBits[c]
<1>2. size \in 1 .. Unit /\ Unit \in Nat /\ Unit < MaxInt /\ MaxInt \in Nat
  BY <1>1, UnitFacts, ShardAssumption
<1> HIDE DEF size
<1>3. /\ hostBits[c] < BigBits => Hosts(c) = size
      /\ hostBits[c] >= BigBits => Hosts(c) = MaxInt
  BY <1>1, ShardAssumption DEF Hosts, size
<1> QED
  BY <1>1, <1>2, <1>3, ShardAssumption

LEMMA DealInit == ShardInit => DealInv
<1> SUFFICES ASSUME ShardInit PROVE DealInv
  OBVIOUS
<1>1. PICK n \in 0 .. MaxCidrs : hostBits \in [1 .. n -> -1 .. BigBits]
  BY DEF ShardInit
<1>2. n \in Nat /\ hostBits \in Seq(-1 .. BigBits)
  BY <1>1, ShardAssumption
<1>3. shardCount \in Nat
  BY ShardAssumption DEF ShardInit
<1>4. DealTypes
  <2>1. entries \subseteq Parsed /\ dealt = FALSE
    BY DEF ShardInit
  <2>2. totals \in [1 .. shardCount -> Int]
    BY DEF ShardInit
  <2>3. DOMAIN shards = 1 .. shardCount
    BY DEF ShardInit
  <2> QED
    BY <1>2, <1>3, <2>1, <2>2, <2>3 DEF DealTypes
<1>5. Parsed \ entries = {}
  BY DEF ShardInit
<1>6. ~dealt /\ \A i \in DOMAIN shards : shards[i] = {}
  BY DEF ShardInit
<1>7. Placed /\ Sorted
  BY <1>5, <1>6 DEF Placed, Sorted
<1>8. OwnSubset
  BY <1>6 DEF OwnSubset
<1>9. Balanced
  <2>1. DOMAIN totals = DOMAIN shards
    BY DEF ShardInit
  <2> QED
    BY <1>6, <2>1 DEF Balanced
<1> QED
  BY <1>4, <1>7, <1>8, <1>9 DEF DealInv

LEMMA OneShardStep == DealInv /\ OneShard => DealInv'
<1> SUFFICES ASSUME DealInv, OneShard PROVE DealInv'
  OBVIOUS
<1>1. /\ Cidrs' = Cidrs /\ Parsed' = Parsed
      /\ \A c : Hosts(c)' = Hosts(c)
  BY DEF OneShard, Cidrs, Parsed, Hosts
<1>2. DealTypes'
  BY <1>1 DEF OneShard, DealInv, DealTypes
<1>3. OwnSubset' /\ Placed' /\ Sorted'
  BY <1>1 DEF OneShard, DealInv, DealTypes, OwnSubset, Placed, Sorted
<1>4. Balanced'
  <2> SUFFICES ASSUME NEW i \in DOMAIN totals, NEW j \in DOMAIN totals,
                      NEW c \in Parsed
               PROVE  totals[i] - totals[j] <= Hosts(c)
    BY <1>1 DEF OneShard, Balanced
  <2>1. i = j /\ totals[i] \in Int
    BY DEF OneShard, DealInv, DealTypes
  <2>2. Hosts(c) \in Nat
    BY HostsNat DEF DealInv
  <2> QED
    BY <2>1, <2>2
<1> QED
  BY <1>2, <1>3, <1>4 DEF DealInv

LEMMA RoundRobinStep == DealInv /\ RoundRobin => DealInv'
<1> SUFFICES ASSUME DealInv, RoundRobin PROVE DealInv'
  OBVIOUS
<1>1. Cidrs' = Cidrs /\ Parsed' = {} /\ Parsed = {}
  BY DEF RoundRobin, Cidrs, Parsed
<1>2. shardCount \in Nat /\ shardCount > 1
  BY DEF RoundRobin, DealInv, DealTypes
<1>3. DealTypes'
  BY <1>1, <1>2 DEF RoundRobin, DealInv, DealTypes
<1>4. \A c \in Cidrs : \E i \in 1 .. shardCount : (c - 1) % shardCount = i - 1
  <2> SUFFICES ASSUME NEW c \in Cidrs
               PROVE  \E i \in 1 .. shardCount : (c - 1) % shardCount = i - 1
    OBVIOUS
  <2>1. c \in Nat /\ c >= 1
    BY DEF DealInv, DealTypes, Cidrs
  <2>2. (c - 1) % shardCount \in 0 .. shardCount - 1
    BY <2>1, <1>2
  <2> DEFINE r == (c - 1) % shardCount
  <2> HIDE DEF r
  <2>3. r + 1 \in 1 .. shardCount /\ r = (r + 1) - 1
    BY <2>2, <1>2 DEF r
  <2> QED
    BY <2>3 DEF r
<1>5. OwnSubset'
  <2>1. \A i, j \in DOMAIN shards' : i # j => shards'[i] \cap shards'[j] = {}
    BY <1>2 DEF RoundRobin
  <2>2. \A c \in Cidrs : \E i \in DOMAIN shards' : c \in shards'[i]
    BY <1>4 DEF RoundRobin
  <2> QED
    BY <1>1, <2>1, <2>2 DEF OwnSubset
<1>6. Placed' /\ Sorted' /\ Balanced'
  BY <1>1 DEF RoundRobin, Placed, Sorted, Balanced
<1> QED
  BY <1>3, <1>5, <1>6 DEF DealInv

LEMMA ReturnStep == DealInv /\ ReturnShards => DealInv'
<1> SUFFICES ASSUME DealInv, ReturnShards PROVE DealInv'
  OBVIOUS
<1>1. /\ Cidrs' = Cidrs /\ Parsed' = Parsed
      /\ \A c : Hosts(c)' = Hosts(c)
  BY DEF ReturnShards, Cidrs, Parsed, Hosts
<1>2. DealTypes' /\ Placed' /\ Sorted' /\ Balanced'
  BY <1>1 DEF ReturnShards, DealInv, DealTypes, Placed, Sorted, Balanced
<1>3. OwnSubset'
  BY <1>1 DEF ReturnShards, DealInv, DealTypes, OwnSubset, Placed
<1> QED
  BY <1>2, <1>3 DEF DealInv

LEMMA PlaceStep ==
    ASSUME DealInv, NEW c \in Cidrs, NEW m \in 1 .. shardCount, Place(c, m)
    PROVE  DealInv'
<1>1. /\ Cidrs' = Cidrs /\ Parsed' = Parsed
      /\ \A d : Hosts(d)' = Hosts(d)
  BY DEF Place, Cidrs, Parsed, Hosts
<1>2. c \in entries /\ c \in Parsed /\ \A d \in entries : Hosts(d) <= Hosts(c)
  BY DEF Place, Largest, DealInv, DealTypes
<1>3. /\ shardCount \in Nat /\ shardCount > 1 /\ ~dealt /\ ~dealt'
      /\ DOMAIN shards = 1 .. shardCount /\ DOMAIN shards' = 1 .. shardCount
      /\ totals \in [1 .. shardCount -> Int]
      /\ shardCount' = shardCount /\ entries' = entries \ {c}
  BY DEF Place, DealInv, DealTypes
<1>4. /\ shards'[m] = shards[m] \cup {c}
      /\ \A i \in 1 .. shardCount : i # m => shards'[i] = shards[i]
  BY <1>3 DEF Place, Appended
<1>5. /\ totals'[m] = Wrap(totals[m] + Hosts(c))
      /\ \A i \in 1 .. shardCount : i # m => totals'[i] = totals[i]
      /\ DOMAIN totals' = 1 .. shardCount
  BY <1>3 DEF Place
<1>6. Hosts(c) \in Nat
  BY <1>2, HostsNat DEF DealInv
<1>7. DealTypes'
  <2>1. Wrap(totals[m] + Hosts(c)) \in Int
    BY <1>3, <1>6, ShardAssumption DEF Wrap
  <2>2. totals' \in [1 .. shardCount -> Int]
    BY <1>3, <2>1 DEF Place
  <2> QED
    BY <1>1, <1>3, <2>2 DEF Place, DealInv, DealTypes
<1>8. \A i \in 1 .. shardCount : c \notin shards[i]
  BY <1>2, <1>3 DEF DealInv, Placed
<1>9. OwnSubset'
  <2> SUFFICES ASSUME NEW i \in 1 .. shardCount, NEW j \in 1 .. shardCount, i # j
               PROVE  shards'[i] \cap shards'[j] = {}
    BY <1>3 DEF OwnSubset
  <2>1. shards[i] \cap shards[j] = {}
    BY <1>3 DEF DealInv, OwnSubset
  <2> QED
    BY <1>4, <1>8, <2>1
<1>10. Placed'
  <2> SUFFICES ASSUME NEW d \in Cidrs
               PROVE  (\E i \in 1 .. shardCount : d \in shards'[i])
                         <=> d \in Parsed \ (entries \ {c})
    BY <1>1, <1>3 DEF Placed
  <2>1. (\E i \in 1 .. shardCount : d \in shards[i]) <=> d \in Parsed \ entries
    BY <1>3 DEF DealInv, Placed
  <2>2. CASE d = c
    BY <1>2, <1>4, <2>2
  <2>3. CASE d # c
    BY <1>4, <2>1, <2>3
  <2> QED
    BY <2>2, <2>3
<1>11. Sorted'
  BY <1>1, <1>2, <1>3 DEF DealInv, Sorted
<1>12. Balanced'
  <2> SUFFICES ASSUME ~wrapped', NEW i \in 1 .. shardCount, NEW j \in 1 .. shardCount,
                      NEW d \in shards'[i] \cap Parsed
               PROVE  totals'[i] - totals'[j] <= Hosts(d)
    BY <1>1, <1>5 DEF Balanced
  <2>1. ~wrapped /\ totals'[m] = totals[m] + Hosts(c)
    BY <1>3, <1>5 DEF Place, Wrap
  <2>2. /\ totals[i] \in Int /\ totals[j] \in Int /\ totals[m] \in Int
        /\ totals[m] <= totals[j]
    BY <1>3 DEF Place, MinIdx
  <2>3. Hosts(d) \in Nat
    BY HostsNat DEF DealInv
  <2>4. DOMAIN totals = 1 .. shardCount
    BY <1>3
  <2>5. CASE i = m
    <3>1. Hosts(c) <= Hosts(d)
      <4>1. CASE d = c
        BY <1>6, <4>1
      <4>2. CASE d # c
        <5>1. d \in shards[m]
          BY <1>4, <2>5, <4>2
        <5>2. d \in Parsed \ entries
          BY <1>3, <5>1 DEF DealInv, Placed, Parsed
        <5> QED
          BY <1>2, <1>3, <5>2 DEF DealInv, Sorted
      <4> QED
        BY <4>1, <4>2
    <3>2. CASE j = m
      BY <2>1, <2>2, <2>3, <2>5, <3>2, <1>6
    <3>3. CASE j # m
      <4>1. totals'[j] = totals[j]
        BY <1>5, <3>3
      <4> QED
        BY <1>6, <2>1, <2>2, <2>3, <2>5, <3>1, <4>1
    <3> QED
      BY <3>2, <3>3
  <2>6. CASE i # m
    <3>1. d \in shards[i] /\ totals'[i] = totals[i]
      BY <1>4, <1>5, <2>6
    <3>2. totals[i] - totals[j] <= Hosts(d)
      BY <2>1, <2>4, <3>1 DEF DealInv, Balanced
    <3>3. totals'[j] = totals[j] \/ totals'[j] = totals[j] + Hosts(c)
      BY <1>5, <2>1
    <3> QED
      BY <1>6, <2>2, <2>3, <3>1, <3>2, <3>3
  <2> QED
    BY <2>5, <2>6
<1> QED
  BY <1>7, <1>9, <1>10, <1>11, <1>12 DEF DealInv

\* Once a runner is followed nothing is left to deal.
LEMMA AssignDeal ==
    ASSUME NEW i \in DOMAIN shards, NEW asns \in BOOLEAN, Assign(i, asns)
    PROVE  DealInv'
<1>1. /\ hostBits' = <<>> /\ shardCount' = 0 /\ entries' = {} /\ shards' = <<>>
      /\ totals' = <<>> /\ wrapped' = FALSE /\ dealt' = FALSE
  BY DEF Assign
<1>2. Cidrs' = {} /\ Parsed' = {}
  BY <1>1 DEF Cidrs, Parsed
<1>3. 1 .. 0 = {} /\ DOMAIN (<<>>) = {}
  OBVIOUS
<1>4. DealTypes'
  <2>1. <<>> \in Seq(-1 .. BigBits) /\ <<>> \in [1 .. 0 -> Int]
    BY <1>3
  <2> QED
    BY <1>1, <1>2, <1>3, <2>1 DEF DealTypes
<1> QED
  BY <1>1, <1>2, <1>3, <1>4 DEF DealInv, OwnSubset, Placed, Sorted, Balanced

LEMMA DealStep == DealInv /\ [Next]_vars => DealInv'
<1> SUFFICES ASSUME DealInv, [Next]_vars PROVE DealInv'
  OBVIOUS
<1>1. CASE ShardNext
  BY <1>1, OneShardStep, RoundRobinStep, PlaceStep, ReturnStep DEF ShardNext
<1>2. CASE \E i \in DOMAIN shards, asns \in BOOLEAN : Assign(i, asns)
  BY <1>2, AssignDeal
<1>3. CASE UNCHANGED shardVars
  <2>1. /\ Cidrs' = Cidrs /\ Parsed' = Parsed
        /\ \A d : Hosts(d)' = Hosts(d)
    BY <1>3 DEF shardVars, Cidrs, Parsed, Hosts
  <2> QED
    BY <1>3, <2>1 DEF shardVars, DealInv, DealTypes, OwnSubset, Placed, Sorted, Balanced
<1> QED
  BY <1>1, <1>2, <1>3 DEF Next, Shard, Scan, vars

(* Every network of a sharded scan is in exactly one shard                 *)
(* (shard.go:52-71 and its fallback at 44-50).                             *)
THEOREM OwnSubsetHolds == Spec => []OwnSubset
<1>1. Init => DealInv
  BY DealInit DEF Init
<1>2. DealInv => OwnSubset
  BY DEF DealInv
<1> QED
  BY <1>1, <1>2, DealStep, PTL DEF Spec

(* As long as no total overflows, no shard is more than its smallest       *)
(* network ahead of another (the greedy loop of shard.go:61-70).           *)
THEOREM BalancedHolds == Spec => []Balanced
<1>1. Init => DealInv
  BY DealInit DEF Init
<1>2. DealInv => Balanced
  BY DEF DealInv
<1> QED
  BY <1>1, <1>2, DealStep, PTL DEF Spec

Stage == {"new", "queued", "active", "found", "plain", "dropped",
          "miss", "hit", "verified", "kept"}

\* A later part of the pipeline has ended only after the one before it.
RunInv ==
    /\ stage \in [DOMAIN stage -> Stage]
    /\ pc \in {"off", "targets", "scan", "verify", "report", "returned"}
    /\ pc \in {"off", "targets"} =>
          feeder = "off" /\ pool = "off" /\ status = "none" /\ DOMAIN stage = {}
    /\ status = "completed" => pc = "returned"
    /\ pool = "closed" => feeder = "closed" /\ In({"queued", "active"}) = {}
    /\ feeder = "closed" => In({"new"}) = {}
    /\ pc \in {"verify", "report"} \/ status = "completed" =>
          pool = "closed" /\ In({"found", "plain"}) = {}
    /\ pc = "report" \/ status = "completed" => In({"hit"}) = {}
    /\ In({"dropped"}) # {} => stopped

LEMMA RunInit == RunnerInit => RunInv
  BY DEF RunnerInit, RunInv, In, Stage

LEMMA StartRun ==
    ASSUME RunInv, NEW S, NEW all, NEW asns, StartRunner(S, all, asns)
    PROVE  RunInv'
  BY DEF RunInv, StartRunner, In, Stage

\* How a step of one job changes the sets of jobs.
LEMMA MoveJob ==
    ASSUME RunInv, NEW j \in DOMAIN stage, NEW s \in Stage, Move(j, s)
    PROVE  /\ stage' \in [DOMAIN stage' -> Stage]
           /\ DOMAIN stage' = DOMAIN stage
           /\ \A P : s \notin P => In(P)' \subseteq In(P)
  BY DEF RunInv, Move, In

LEMMA RunSteps ==
    ASSUME RunInv, RunStep
    PROVE  RunInv'
<1>1. ASSUME NEW live \in Live, GetTargets(live)
      PROVE  RunInv'
  <2>1. stage' \in [live \X Port -> Stage] /\ \A j \in DOMAIN stage' : stage'[j] = "new"
    BY <1>1 DEF GetTargets, Stage
  <2>2. status = "none" /\ status' = status /\ pc' = "scan" /\ pool' = "open"
        /\ feeder' = "feeding"
    BY <1>1 DEF GetTargets, RunInv
  <2> QED
    BY <2>1, <2>2 DEF RunInv, In, Stage
<1>2. CASE FailTargets \/ GiveUp
  BY <1>2 DEF FailTargets, GiveUp, RunInv, In
<1>3. ASSUME NEW j \in DOMAIN stage, Collect(j)
      PROVE  RunInv'
  <2> DEFINE s == IF stage[j] = "found" THEN "hit" ELSE "miss"
  <2>1. s \in {"hit", "miss"} /\ Move(j, s)
    BY <1>3 DEF Collect
  <2> HIDE DEF s
  <2>2. s \in Stage
    BY <2>1 DEF Stage
  <2>3. /\ stage' \in [DOMAIN stage' -> Stage]
        /\ DOMAIN stage' = DOMAIN stage
        /\ \A P : s \notin P => In(P)' \subseteq In(P)
    BY <2>1, <2>2, MoveJob
  <2>4. /\ In({"new"})' \subseteq In({"new"})
        /\ In({"queued", "active"})' \subseteq In({"queued", "active"})
        /\ In({"dropped"})' \subseteq In({"dropped"})
    BY <2>1, <2>3
  <2>5. /\ pc = "scan" /\ pc' = pc /\ feeder' = feeder /\ pool' = pool
        /\ stopped' = stopped /\ status' = status
    BY <1>3 DEF Collect
  <2> QED
    BY <2>3, <2>4, <2>5 DEF RunInv
<1>4. CASE EndCollecting \/ ReportCancelled
  BY <1>4 DEF EndCollecting, ReportCancelled, RunInv, In
<1>5. ASSUME NEW j \in DOMAIN stage, NEW s \in {"verified", "kept"}, Verify(j, s)
      PROVE  RunInv'
  <2>1. s \in Stage /\ Move(j, s)
    BY <1>5 DEF Verify, Stage
  <2>2. /\ stage' \in [DOMAIN stage' -> Stage]
        /\ \A P : s \notin P => In(P)' \subseteq In(P)
    BY <2>1, MoveJob
  <2>3. /\ In({"new"})' \subseteq In({"new"})
        /\ In({"queued", "active"})' \subseteq In({"queued", "active"})
        /\ In({"found", "plain"})' \subseteq In({"found", "plain"})
        /\ In({"dropped"})' \subseteq In({"dropped"})
    BY <1>5, <2>2
  <2>4. /\ pc = "verify" /\ pc' = pc /\ feeder' = feeder /\ pool' = pool
        /\ stopped' = stopped /\ status' = status
    BY <1>5 DEF Verify
  <2> QED
    BY <2>2, <2>3, <2>4 DEF RunInv
<1>6. CASE EndVerify \/ ReportCompleted \/ LeaveUnreported
  BY <1>6 DEF EndVerify, ReportCompleted, LeaveUnreported, RunInv, In
<1> QED
  BY <1>1, <1>2, <1>3, <1>4, <1>5, <1>6 DEF RunStep

LEMMA FeederSteps ==
    ASSUME RunInv, FeederStep
    PROVE  RunInv'
<1>1. ASSUME NEW j \in DOMAIN stage, Feed(j)
      PROVE  RunInv'
  <2>1. "queued" \in Stage /\ Move(j, "queued")
    BY <1>1 DEF Feed, Stage
  <2>2. /\ stage' \in [DOMAIN stage' -> Stage] /\ DOMAIN stage' = DOMAIN stage
        /\ \A P : "queued" \notin P => In(P)' \subseteq In(P)
    BY <2>1, MoveJob
  <2>3. In({"dropped"})' \subseteq In({"dropped"})
    BY <2>2
  <2>4. /\ feeder = "feeding" /\ feeder' = feeder /\ pc' = pc /\ pool' = pool
        /\ stopped' = stopped /\ status' = status
    BY <1>1 DEF Feed
  <2> QED
    BY <2>2, <2>3, <2>4 DEF RunInv
<1>2. CASE LeaveFeeding \/ CloseJobs
  BY <1>2 DEF LeaveFeeding, CloseJobs, AllFed, RunInv, In
<1> QED
  BY <1>1, <1>2 DEF FeederStep

LEMMA PoolSteps ==
    ASSUME RunInv, PoolStep
    PROVE  RunInv'
<1>1. ASSUME NEW j \in DOMAIN stage, StartScan(j)
      PROVE  RunInv'
  <2>1. "active" \in Stage /\ Move(j, "active")
    BY <1>1 DEF StartScan, Stage
  <2>2. /\ stage' \in [DOMAIN stage' -> Stage] /\ DOMAIN stage' = DOMAIN stage
        /\ \A P : "active" \notin P => In(P)' \subseteq In(P)
    BY <2>1, MoveJob
  <2>3. In({"dropped"})' \subseteq In({"dropped"}) /\ In({"new"})' \subseteq In({"new"})
    BY <2>2
  <2>4. /\ pool = "open" /\ feeder' = feeder /\ pc' = pc /\ pool' = pool
        /\ stopped' = stopped /\ status' = status
    BY <1>1 DEF StartScan
  <2> QED
    BY <2>2, <2>3, <2>4 DEF RunInv
<1>2. CASE CloseResults
  BY <1>2 DEF CloseResults, AllScanned, RunInv, In
<1> QED
  BY <1>1, <1>2 DEF PoolStep

LEMMA ScanSteps ==
    ASSUME RunInv, ScanStep
    PROVE  RunInv'
<1>0. PICK j \in DOMAIN stage :
        DropResult(j) \/ \E r \in {"found", "plain"} : Deliver(j, r)
  BY DEF ScanStep
<1>1. /\ stage[j] = "active" /\ pool # "closed"
      /\ feeder' = feeder /\ pc' = pc /\ pool' = pool
      /\ stopped' = stopped /\ status' = status
  BY <1>0 DEF DropResult, Deliver, RunInv, In
<1>2. CASE DropResult(j)
  <2>1. "dropped" \in Stage /\ Move(j, "dropped") /\ stopped
    BY <1>2 DEF DropResult, MayDrop, Stage
  <2>2. /\ stage' \in [DOMAIN stage' -> Stage] /\ DOMAIN stage' = DOMAIN stage
        /\ \A P : "dropped" \notin P => In(P)' \subseteq In(P)
    BY <2>1, MoveJob
  <2>3. In({"new"})' \subseteq In({"new"})
    BY <2>2
  <2> QED
    BY <1>1, <2>1, <2>2, <2>3 DEF RunInv
<1>3. ASSUME NEW r \in {"found", "plain"}, Deliver(j, r)
      PROVE  RunInv'
  <2>1. r \in Stage /\ Move(j, r)
    BY <1>3 DEF Deliver, Stage
  <2>2. /\ stage' \in [DOMAIN stage' -> Stage] /\ DOMAIN stage' = DOMAIN stage
        /\ \A P : r \notin P => In(P)' \subseteq In(P)
    BY <2>1, MoveJob
  <2>3. In({"dropped"})' \subseteq In({"dropped"}) /\ In({"new"})' \subseteq In({"new"})
    BY <1>3, <2>2
  <2> QED
    BY <1>1, <2>2, <2>3 DEF RunInv
<1> QED
  BY <1>0, <1>2, <1>3

LEMMA RunInvStep == RunInv /\ [Next]_vars => RunInv'
<1> SUFFICES ASSUME RunInv, [Next]_vars PROVE RunInv'
  OBVIOUS
<1>1. CASE UNCHANGED runnerVars
  BY <1>1 DEF runnerVars, RunInv, In
<1>2. CASE \E i \in DOMAIN shards, asns \in BOOLEAN : Assign(i, asns)
  BY <1>2, StartRun DEF Assign
<1>3. CASE RunnerNext
  <2>1. CASE Stop
    BY <2>1 DEF Stop, RunInv, In
  <2> QED
    BY <1>3, <2>1, RunSteps, FeederSteps, PoolSteps, ScanSteps DEF RunnerNext
<1> QED
  BY <1>1, <1>2, <1>3 DEF Next, Shard, Scan, vars

(* When run() reports a task as completed, no job is on its way any more   *)
(* and no hit is without its verdict; results are missing only after a     *)
(* stop (runner.go:168-247).                                               *)
THEOREM CompletedMeansCollectedHolds == Spec => []CompletedMeansCollected
<1>1. Init => RunInv
  BY RunInit DEF Init
<1>2. RunInv => CompletedMeansCollected
  BY DEF RunInv, CompletedMeansCollected, In, Stage
<1> QED
  BY <1>1, <1>2, RunInvStep, PTL DEF Spec

-----------------------------------------------------------------------------
(* The type of the state.                                                  *)
DealRange ==
    /\ shardCount \in 0 .. MaxShards
    /\ \A i \in DOMAIN shards : shards[i] \subseteq Cidrs
    /\ \A i \in DOMAIN totals : totals[i] \in -(MaxInt + 1) .. MaxInt

LEMMA DealRangeStep == DealInv /\ DealRange /\ [Next]_vars => DealRange'
<1> SUFFICES ASSUME DealInv, DealRange, [Next]_vars PROVE DealRange'
  OBVIOUS
<1>0. MaxInt \in Nat /\ MaxShards \in Nat
  BY ShardAssumption
<1>1. ASSUME NEW c \in Cidrs, NEW m \in 1 .. shardCount, Place(c, m)
      PROVE  DealRange'
  <2>1. c \in Parsed /\ Cidrs' = Cidrs /\ shardCount' = shardCount
    BY <1>1 DEF Place, Largest, DealInv, DealTypes, Cidrs
  <2>2. Hosts(c) \in Nat /\ Hosts(c) <= MaxInt
    BY <2>1, HostsNat DEF DealInv
  <2>3. DOMAIN shards = 1 .. shardCount /\ totals \in [1 .. shardCount -> Int]
    BY <1>1 DEF Place, DealInv, DealTypes
  <2>4. \A i \in DOMAIN shards' : shards'[i] \subseteq Cidrs
    BY <1>1, <2>3 DEF Place, Appended, DealRange
  <2>5. totals[m] \in -(MaxInt + 1) .. MaxInt
    BY <2>3 DEF DealRange
  <2>6. Wrap(totals[m] + Hosts(c)) \in -(MaxInt + 1) .. MaxInt
    BY <1>0, <2>2, <2>5 DEF Wrap
  <2>7. \A i \in DOMAIN totals' : totals'[i] \in -(MaxInt + 1) .. MaxInt
    BY <1>1, <2>3, <2>6 DEF Place, DealRange
  <2> QED
    BY <2>1, <2>4, <2>7 DEF DealRange
<1>2. CASE OneShard \/ RoundRobin \/ ReturnShards
  BY <1>2 DEF OneShard, RoundRobin, ReturnShards, DealRange, Cidrs
<1>3. CASE \E i \in DOMAIN shards, asns \in BOOLEAN : Assign(i, asns)
  BY <1>0, <1>3 DEF Assign, DealRange
<1>4. CASE UNCHANGED shardVars
  BY <1>4 DEF shardVars, DealRange, Cidrs
<1> QED
  BY <1>1, <1>2, <1>3, <1>4 DEF Next, Shard, ShardNext, Scan, vars

\* The semaphore sem of the dispatcher.
ActiveInv == IsFiniteSet(In({"active"})) /\ Cardinality(In({"active"})) <= Concurrency

\* What a runner was given, and where its parts are.
PartTypes ==
    /\ task \in [cidrs : SUBSET Nat, all : SUBSET Nat, asns : BOOLEAN]
    /\ stopped \in BOOLEAN
    /\ wrapped \in BOOLEAN
    /\ feeder \in {"off", "feeding", "gone", "closed"}
    /\ pool \in {"off", "open", "closed"}
    /\ status \in {"none", "failed", "cancelled", "completed"}

LEMMA PartStep == DealInv /\ DealRange /\ PartTypes /\ [Next]_vars => PartTypes'
<1> SUFFICES ASSUME DealInv, DealRange, PartTypes, [Next]_vars PROVE PartTypes'
  OBVIOUS
<1>1. UNCHANGED wrapped \/ wrapped' \in BOOLEAN
  BY DEF Next, Shard, ShardNext, OneShard, RoundRobin, Place, ReturnShards, Assign, Scan,
     vars, shardVars
<1>2. CASE UNCHANGED runnerVars
  BY <1>1, <1>2 DEF runnerVars, PartTypes
<1>3. ASSUME NEW i \in DOMAIN shards, NEW asns \in BOOLEAN, Assign(i, asns)
      PROVE  PartTypes'
  <2>1. Cidrs \subseteq Nat /\ shards[i] \subseteq Cidrs
    BY DEF DealInv, DealTypes, DealRange, Cidrs
  <2> QED
    BY <1>1, <1>3, <2>1 DEF Assign, StartRunner, PartTypes
<1>4. CASE RunStep /\ UNCHANGED shardVars
  BY <1>1, <1>4 DEF RunStep, GetTargets, FailTargets, GiveUp, Collect, EndCollecting,
     ReportCancelled, Verify, EndVerify, ReportCompleted, LeaveUnreported, PartTypes
<1>5. CASE (FeederStep \/ PoolStep \/ ScanStep \/ Stop) /\ UNCHANGED shardVars
  BY <1>1, <1>5 DEF FeederStep, PoolStep, ScanStep, Feed, LeaveFeeding, CloseJobs,
     StartScan, CloseResults, DropResult, Deliver, Stop, PartTypes
<1> QED
  BY <1>2, <1>3, <1>4, <1>5 DEF Next, Shard, Scan, RunnerNext, vars

LEMMA ActiveStep == RunInv /\ ActiveInv /\ [Next]_vars => ActiveInv'
<1> SUFFICES ASSUME RunInv, ActiveInv, [Next]_vars PROVE ActiveInv'
  OBVIOUS
<1>0. Concurrency \in Nat
  BY RunnerAssumption
<1>1. CASE In({"active"})' \subseteq In({"active"})
  <2>1. /\ IsFiniteSet(In({"active"})')
        /\ Cardinality(In({"active"})') <= Cardinality(In({"active"}))
    BY <1>1, FS_Subset DEF ActiveInv
  <2>2. Cardinality(In({"active"})) \in Nat /\ Cardinality(In({"active"})') \in Nat
    BY <2>1, FS_CardinalityType DEF ActiveInv
  <2> QED
    BY <1>0, <2>1, <2>2 DEF ActiveInv
<1>2. ASSUME NEW j \in DOMAIN stage, StartScan(j)
      PROVE  ActiveInv'
  <2>1. In({"active"})' = In({"active"}) \cup {j} /\ Cardinality(In({"active"})) < Concurrency
    BY <1>2 DEF StartScan, FreeSlot, Move, In, RunInv
  <2>2. IsFiniteSet(In({"active"})) /\ Cardinality(In({"active"})) \in Nat
    BY FS_CardinalityType DEF ActiveInv
  <2> DEFINE A == In({"active"})
  <2> HIDE DEF A
  <2>3. /\ IsFiniteSet(A \cup {j})
        /\ Cardinality(A \cup {j}) = IF j \in A THEN Cardinality(A) ELSE Cardinality(A) + 1
    BY <2>2, FS_AddElement DEF A
  <2>4. IsFiniteSet(A \cup {j}) /\ Cardinality(A \cup {j}) <= Concurrency
    BY <1>0, <2>1, <2>2, <2>3 DEF A
  <2> QED
    BY <2>1, <2>4 DEF ActiveInv, A
<1>3. ASSUME NEW j \in DOMAIN stage, NEW s \in Stage \ {"active"}, Move(j, s)
      PROVE  In({"active"})' \subseteq In({"active"})
  BY <1>3 DEF Move, In, RunInv
<1>4. CASE UNCHANGED stage
  BY <1>4 DEF In, ActiveInv
<1>5. CASE RunStep
  <2>1. ASSUME NEW live \in Live, GetTargets(live)
        PROVE  In({"active"})' \subseteq In({"active"})
    BY <2>1 DEF GetTargets, In
  <2>2. ASSUME NEW j \in DOMAIN stage, Collect(j)
        PROVE  \E s \in Stage \ {"active"} : Move(j, s)
    BY <2>2 DEF Collect, Stage
  <2>3. ASSUME NEW j \in DOMAIN stage, NEW s \in {"verified", "kept"}, Verify(j, s)
        PROVE  \E r \in Stage \ {"active"} : Move(j, r)
    BY <2>3 DEF Verify, Stage
  <2>4. CASE FailTargets \/ GiveUp \/ EndCollecting \/ ReportCancelled \/ EndVerify
             \/ ReportCompleted \/ LeaveUnreported
    BY <1>4, <2>4 DEF FailTargets, GiveUp, EndCollecting, ReportCancelled, EndVerify,
       ReportCompleted, LeaveUnreported
  <2> QED
    BY <1>1, <1>3, <1>5, <2>1, <2>2, <2>3, <2>4 DEF RunStep
<1>6. CASE FeederStep \/ CloseResults \/ ScanStep
  <2>1. ASSUME NEW j \in DOMAIN stage,
               Feed(j) \/ DropResult(j) \/ \E r \in {"found", "plain"} : Deliver(j, r)
        PROVE  \E s \in Stage \ {"active"} : Move(j, s)
    BY <2>1 DEF Feed, DropResult, Deliver, Stage
  <2>2. CASE LeaveFeeding \/ CloseJobs \/ CloseResults
    BY <1>4, <2>2 DEF LeaveFeeding, CloseJobs, CloseResults
  <2> QED
    BY <1>1, <1>3, <1>6, <2>1, <2>2 DEF FeederStep, ScanStep
<1>7. CASE Stop \/ UNCHANGED runnerVars
  BY <1>4, <1>7 DEF Stop, runnerVars
<1>8. CASE \E i \in DOMAIN shards, asns \in BOOLEAN : Assign(i, asns)
  BY <1>4, <1>8 DEF Assign, StartRunner
<1> QED
  BY <1>2, <1>5, <1>6, <1>7, <1>8 DEF Next, Shard, Scan, RunnerNext, PoolStep, vars

(* The state has its type: no total leaves the 64 bits it has, and no more *)
(* scans run at once than the semaphore allows (runner.go:168-194).        *)
THEOREM ShardedTypeCorrect == Spec => []TypeOK
<1> DEFINE TInv == DealInv /\ DealRange /\ RunInv /\ PartTypes /\ ActiveInv
<1>1. Init => TInv
  <2> SUFFICES ASSUME Init PROVE TInv
    OBVIOUS
  <2>1. MaxInt \in Nat /\ Concurrency \in Nat
    BY ShardAssumption, RunnerAssumption
  <2>2. DealInv /\ RunInv
    BY DealInit, RunInit DEF Init
  <2>3. DealRange
    BY <2>1 DEF Init, ShardInit, DealRange
  <2>4. In({"active"}) = {}
    BY DEF Init, RunnerInit, In
  <2>5. PartTypes
    BY DEF Init, ShardInit, RunnerInit, PartTypes
  <2> QED
    BY <2>1, <2>2, <2>3, <2>4, <2>5, FS_EmptySet DEF ActiveInv
<1>2. TInv /\ [Next]_vars => TInv'
  BY DealStep, DealRangeStep, RunInvStep, PartStep, ActiveStep
<1>3. TInv => TypeOK
  BY DEF DealInv, DealTypes, DealRange, RunInv, PartTypes, ActiveInv, Stage, TypeOK
<1> HIDE DEF TInv
<1> QED
  BY <1>1, <1>2, <1>3, PTL DEF Spec

-----------------------------------------------------------------------------
(* When a total overflows.                                                 *)
IsBig(c) == hostBits[c] >= BigBits

\* The big networks that have a shard, and the shards that have one.
Bigs == {c \in Cidrs \ entries : IsBig(c)}
BigShards == {i \in 1 .. shardCount : \E c \in shards[i] : IsBig(c)}

(* A shard gets its first big network together with that network's place   *)
(* in Bigs; a shard without one has at most Unit addresses per network.    *)
WrapInv ==
    /\ wrapped => Cardinality(Bigs) >= shardCount
    /\ ~dealt =>
          /\ Cardinality(BigShards) <= Cardinality(Bigs)
          /\ \A i \in (1 .. shardCount) \ BigShards :
                totals[i] <= Cardinality(shards[i]) * Unit

LEMMA CidrsFinite ==
    ASSUME DealInv, Len(hostBits) <= MaxCidrs
    PROVE  /\ IsFiniteSet(Cidrs) /\ Cardinality(Cidrs) <= MaxCidrs
           /\ IsFiniteSet(Bigs) /\ IsFiniteSet(BigShards)
           /\ Cardinality(Bigs) \in Nat /\ Cardinality(BigShards) \in Nat
           /\ \A S \in SUBSET Cidrs : IsFiniteSet(S) /\ Cardinality(S) \in Nat
<1>1. /\ Cidrs = 1 .. Len(hostBits) /\ Len(hostBits) \in Nat /\ shardCount \in Nat
  BY DEF DealInv, DealTypes, Cidrs
<1>2. IsFiniteSet(Cidrs) /\ Cardinality(Cidrs) <= MaxCidrs
  <2>1. /\ IsFiniteSet(1 .. Len(hostBits))
        /\ Cardinality(1 .. Len(hostBits)) = IF 1 > Len(hostBits) THEN 0 ELSE Len(hostBits)
    BY SMTT(60), <1>1, FS_Interval
  <2> QED
    BY <1>1, <2>1, ShardAssumption
<1>3. IsFiniteSet(1 .. shardCount)
  BY <1>1, FS_Interval
<1>4. IsFiniteSet(Bigs) /\ IsFiniteSet(BigShards)
  BY <1>2, <1>3, FS_Subset DEF Bigs, BigShards
<1>5. \A S \in SUBSET Cidrs : IsFiniteSet(S)
  BY <1>2, FS_Subset
<1> QED
  BY <1>2, <1>4, <1>5, FS_CardinalityType

(* While fewer big networks than shards have a shard, some shard has none, *)
(* and with what it has a network still fits in.                           *)
LEMMA RoomLeft ==
    ASSUME DealInv, DealRange, WrapInv, Len(hostBits) <= MaxCidrs,
           NEW c \in Cidrs, NEW m \in 1 .. shardCount, Place(c, m),
           Cardinality(Bigs) < shardCount
    PROVE  /\ totals[m] + Unit <= MaxInt
           /\ IsBig(c) => totals[m] <= 0
<1>1. /\ ~dealt /\ shardCount \in Nat /\ DOMAIN shards = 1 .. shardCount
      /\ totals \in [1 .. shardCount -> Int]
      /\ c \in entries /\ c \in Parsed /\ \A d \in entries : Hosts(d) <= Hosts(c)
      /\ \A i \in 1 .. shardCount : totals[m] <= totals[i]
  BY DEF Place, Largest, MinIdx, DealInv, DealTypes
<1>2. PICK i \in 1 .. shardCount : i \notin BigShards
  <2>1. CASE BigShards = 1 .. shardCount
    <3>1. Cardinality(1 .. shardCount) = shardCount
      BY <1>1, FS_Interval
    <3> QED
      BY <1>1, <2>1, <3>1, CidrsFinite DEF WrapInv
  <2> QED
    BY <2>1 DEF BigShards
<1> DEFINE n == Cardinality(shards[i])
<1>3. totals[i] <= n * Unit /\ shards[i] \subseteq Cidrs /\ IsFiniteSet(shards[i]) /\ n \in Nat
  BY <1>1, <1>2, CidrsFinite DEF WrapInv, DealRange
<1>4. c \notin shards[i]
  BY <1>1, <1>2 DEF DealInv, Placed
<1>5. n + 1 <= MaxCidrs
  <2>1. Cardinality(shards[i] \cup {c}) = n + 1
    BY <1>3, <1>4, FS_AddElement
  <2>2. Cardinality(shards[i] \cup {c}) <= Cardinality(Cidrs)
    BY <1>3, CidrsFinite, FS_Subset
  <2>3. Cardinality(Cidrs) \in Nat /\ Cardinality(Cidrs) <= MaxCidrs
    BY CidrsFinite, FS_CardinalityType
  <2> QED
    BY <1>3, <2>1, <2>2, <2>3, ShardAssumption
<1> HIDE DEF n
<1>6. totals[i] + Unit <= MaxInt
  <2>1. n * Unit + Unit <= MaxCidrs * Unit
    BY <1>3, <1>5, UnitFacts, ShardAssumption
  <2>2. n * Unit \in Nat /\ MaxCidrs * Unit \in Nat
    BY <1>3, UnitFacts, ShardAssumption
  <2>3. MaxCidrs * Unit <= MaxInt /\ Unit \in Nat /\ MaxInt \in Nat /\ totals[i] \in Int
    BY <1>1, UnitFacts, ShardAssumption
  <2> DEFINE x == n * Unit  y == MaxCidrs * Unit
  <2>4. totals[i] <= x /\ x + Unit <= y /\ y <= MaxInt /\ x \in Nat /\ y \in Nat
    BY <1>3, <2>1, <2>2, <2>3
  <2> HIDE DEF x, y
  <2> QED
    BY <2>3, <2>4
<1>7. ASSUME IsBig(c) PROVE totals[m] <= 0
  <2>1. ASSUME NEW d \in shards[i] PROVE FALSE
    <3>1. d \in Parsed \ entries
      BY <1>1, <1>3, <2>1 DEF DealInv, Placed
    <3>2. hostBits[d] < BigBits /\ hostBits[d] \in Int
      BY SMTT(60), <1>2, <2>1, <3>1, HostsNat, ShardAssumption DEF BigShards, IsBig, DealInv
    <3>3. Hosts(c) <= Hosts(d)
      BY <1>1, <3>1 DEF DealInv, Sorted, Place
    <3>4. Hosts(c) = MaxInt /\ Hosts(d) <= Unit
      BY <1>1, <1>7, <3>1, <3>2, HostsNat DEF IsBig, DealInv
    <3> QED
      BY <3>3, <3>4, HostsNat, <1>1, <3>1, UnitFacts, ShardAssumption DEF DealInv
  <2>2. shards[i] = {}
    BY <2>1
  <2>3. n = 0
    BY <2>2, FS_EmptySet DEF n
  <2> QED
    BY <1>1, <1>3, <2>3, UnitFacts
<1> QED
  BY <1>1, <1>6, <1>7, UnitFacts, ShardAssumption

LEMMA WrapStep ==
    DealInv /\ DealRange /\ WrapInv /\ Len(hostBits) <= MaxCidrs /\ [Next]_vars
        => WrapInv' /\ (Len(hostBits) <= MaxCidrs)'
<1> SUFFICES ASSUME DealInv, DealRange, WrapInv, Len(hostBits) <= MaxCidrs, [Next]_vars
             PROVE  WrapInv' /\ (Len(hostBits) <= MaxCidrs)'
  OBVIOUS
<1>1. ASSUME NEW c \in Cidrs, NEW m \in 1 .. shardCount, Place(c, m)
      PROVE  WrapInv' /\ (Len(hostBits) <= MaxCidrs)'
  <2>1. /\ ~dealt /\ shardCount \in Nat /\ DOMAIN shards = 1 .. shardCount
        /\ totals \in [1 .. shardCount -> Int]
        /\ c \in entries /\ c \in Parsed
        /\ hostBits' = hostBits /\ shardCount' = shardCount /\ dealt' = dealt
        /\ entries' = entries \ {c} /\ Cidrs' = Cidrs
    BY <1>1 DEF Place, Largest, DealInv, DealTypes, Cidrs
  <2>2. /\ shards'[m] = shards[m] \cup {c}
        /\ \A i \in 1 .. shardCount : i # m => shards'[i] = shards[i]
        /\ totals'[m] = Wrap(totals[m] + Hosts(c))
        /\ \A i \in 1 .. shardCount : i # m => totals'[i] = totals[i]
        /\ wrapped' = (wrapped \/ totals[m] + Hosts(c) > MaxInt)
    BY <1>1, <2>1 DEF Place, Appended
  <2>3. /\ Hosts(c) \in Nat /\ Hosts(c) <= MaxInt /\ hostBits[c] \in Int
        /\ ~IsBig(c) => Hosts(c) <= Unit
        /\ IsBig(c) => Hosts(c) = MaxInt
    BY <2>1, HostsNat, ShardAssumption DEF IsBig, DealInv
  <2>4. c \notin Bigs /\ c \notin shards[m] /\ \A i \in 1 .. shardCount : shards[i] \subseteq Cidrs
    BY <2>1 DEF Bigs, DealInv, Placed, DealRange
  <2>5. /\ IsBig(c) => Bigs' = Bigs \cup {c}
        /\ ~IsBig(c) => Bigs' = Bigs
    BY <2>1 DEF Bigs, IsBig
  <2>6. /\ IsBig(c) => BigShards' = BigShards \cup {m}
        /\ ~IsBig(c) => BigShards' = BigShards
    <3>1. \A i \in 1 .. shardCount :
             i \in BigShards' <=> i \in BigShards \/ (i = m /\ IsBig(c))
      BY <2>1, <2>2 DEF BigShards, IsBig
    <3>2. BigShards \subseteq 1 .. shardCount /\ BigShards' \subseteq 1 .. shardCount
      BY <2>1 DEF BigShards
    <3> QED
      BY <3>1, <3>2
  <2>7. /\ IsFiniteSet(Bigs) /\ IsFiniteSet(BigShards)
        /\ Cardinality(Bigs) \in Nat /\ Cardinality(BigShards) \in Nat
        /\ IsFiniteSet(shards[m]) /\ Cardinality(shards[m]) \in Nat
    BY <2>4, CidrsFinite
  <2>8. /\ Cardinality(Bigs \cup {c}) = Cardinality(Bigs) + 1
        /\ Cardinality(BigShards \cup {m}) =
              IF m \in BigShards THEN Cardinality(BigShards) ELSE Cardinality(BigShards) + 1
        /\ Cardinality(shards[m] \cup {c}) = Cardinality(shards[m]) + 1
    BY <2>4, <2>7, FS_AddElement
  <2>9. /\ Cardinality(BigShards') <= Cardinality(Bigs') /\ Cardinality(Bigs) <= Cardinality(Bigs')
        /\ Cardinality(Bigs') \in Nat
    <3>1. Cardinality(BigShards) <= Cardinality(Bigs)
      BY <2>1 DEF WrapInv
    <3>2. CASE IsBig(c)
      <4>1. /\ Cardinality(Bigs') = Cardinality(Bigs \cup {c})
            /\ Cardinality(BigShards') = Cardinality(BigShards \cup {m})
        BY <2>5, <2>6, <3>2, Zenon
      <4> QED
        BY <2>7, <2>8, <3>1, <4>1
    <3>3. CASE ~IsBig(c)
      <4>1. /\ Cardinality(Bigs') = Cardinality(Bigs)
            /\ Cardinality(BigShards') = Cardinality(BigShards)
        BY <2>5, <2>6, <3>3, Zenon
      <4> QED
        BY <2>7, <3>1, <4>1
    <3> QED
      BY <3>2, <3>3
  <2>10. ASSUME wrapped' PROVE Cardinality(Bigs') >= shardCount
    <3>1. CASE Cardinality(Bigs) >= shardCount
      BY <2>1, <2>7, <2>9, <3>1
    <3>2. CASE Cardinality(Bigs) < shardCount
      <4>1. ~wrapped
        BY <2>1, <2>7, <3>2 DEF WrapInv
      <4>2. totals[m] + Unit <= MaxInt /\ (IsBig(c) => totals[m] <= 0)
        BY <1>1, <3>2, RoomLeft
      <4>3. totals[m] + Hosts(c) <= MaxInt
        BY SMTT(60), <2>1, <2>3, <4>2, UnitFacts, ShardAssumption
      <4>4. ~(totals[m] + Hosts(c) > MaxInt)
        <5>1. totals[m] \in Int /\ MaxInt \in Nat
          BY <2>1, ShardAssumption
        <5> QED
          BY <2>3, <4>3, <5>1
      <4> QED
        BY <2>2, <2>10, <4>1, <4>4
    <3> QED
      BY <2>1, <2>7, <3>1, <3>2
  <2>11. ASSUME NEW i \in 1 .. shardCount, i \notin BigShards'
         PROVE  totals'[i] <= Cardinality(shards'[i]) * Unit
    <3>1. i \notin BigShards
      BY <2>6, <2>11
    <3>2. totals[i] <= Cardinality(shards[i]) * Unit
      BY <2>1, <3>1 DEF WrapInv
    <3>3. CASE i # m
      BY <2>2, <3>2, <3>3
    <3>4. CASE i = m
      <4>1. ~IsBig(c)
        BY <2>6, <2>11, <3>4
      <4>2. totals'[m] <= totals[m] + Hosts(c)
        BY SMTT(60), <2>1, <2>2, <2>3, ShardAssumption DEF Wrap
      <4>3. totals'[m] \in Int
        BY SMTT(60), <2>1, <2>2, <2>3, ShardAssumption DEF Wrap
      <4> DEFINE n == Cardinality(shards[m])
      <4>4. n \in Nat /\ totals[m] <= n * Unit
        BY <2>7, <3>2, <3>4
      <4> HIDE DEF n
      <4>5. (n + 1) * Unit = n * Unit + Unit /\ n * Unit \in Nat
        BY <4>4, UnitFacts
      <4>6. totals'[m] <= (n + 1) * Unit
        BY SMTT(60), <2>1, <2>3, <4>1, <4>2, <4>3, <4>4, <4>5, UnitFacts
      <4> QED
        BY <2>2, <2>8, <3>4, <4>6 DEF n
    <3> QED
      BY <3>3, <3>4
  <2> QED
    BY <2>1, <2>9, <2>10, <2>11 DEF WrapInv
<1>2. CASE OneShard \/ RoundRobin \/ ReturnShards
  <2>1. /\ hostBits' = hostBits /\ shardCount' = shardCount /\ entries' = entries
        /\ wrapped' = wrapped /\ dealt'
    BY <1>2 DEF OneShard, RoundRobin, ReturnShards
  <2>2. Bigs' = Bigs
    BY <2>1 DEF Bigs, IsBig, Cidrs
  <2> QED
    BY <2>1, <2>2 DEF WrapInv
<1>3. ASSUME NEW i \in DOMAIN shards, NEW asns \in BOOLEAN, Assign(i, asns)
      PROVE  WrapInv' /\ (Len(hostBits) <= MaxCidrs)'
  <2>1. hostBits' = <<>> /\ shardCount' = 0 /\ wrapped' = FALSE
    BY <1>3 DEF Assign
  <2>2. 1 .. 0 = {} /\ DOMAIN (<<>>) = {} /\ Len(<<>>) = 0
    OBVIOUS
  <2>3. Bigs' = {} /\ BigShards' = {}
    BY <2>1, <2>2 DEF Bigs, BigShards, Cidrs
  <2> QED
    BY <2>1, <2>2, <2>3, FS_EmptySet, ShardAssumption DEF WrapInv
<1>4. CASE UNCHANGED shardVars
  BY <1>4 DEF shardVars, WrapInv, Bigs, BigShards, IsBig, Cidrs
<1> QED
  BY <1>1, <1>2, <1>3, <1>4 DEF Next, Shard, ShardNext, Scan, vars

(* The totals of DistributeCIDRs overflow only once every shard could have *)
(* a network that counts as MaxInt64: with fewer of them, and fewer than   *)
(* 2^31 networks, the greedy loop compares true sums (shard.go:35-41, 61-  *)
(* 70).                                                                    *)
THEOREM WrapNeedsBigHolds == Spec => []WrapNeedsBig
<1> DEFINE WInv == DealInv /\ DealRange /\ WrapInv /\ Len(hostBits) <= MaxCidrs
<1>1. Init => WInv
  <2> SUFFICES ASSUME Init PROVE WInv
    OBVIOUS
  <2>1. DealInv /\ DealRange
    BY DealInit, ShardAssumption DEF Init, ShardInit, DealRange
  <2>2. PICK n \in 0 .. MaxCidrs : hostBits \in [1 .. n -> -1 .. BigBits]
    BY DEF Init, ShardInit
  <2>3. Len(hostBits) <= MaxCidrs
    BY <2>2, ShardAssumption
  <2>4. /\ ~wrapped /\ totals = [i \in 1 .. shardCount |-> 0]
        /\ shards = [i \in 1 .. shardCount |-> {}] /\ entries = Parsed
    BY DEF Init, ShardInit
  <2>5. Bigs = {} /\ BigShards = {}
    BY <2>1, <2>4, ShardAssumption DEF Bigs, BigShards, IsBig, Parsed, Cidrs, DealInv, DealTypes
  <2>6. \A i \in 1 .. shardCount : totals[i] <= Cardinality(shards[i]) * Unit
    BY <2>4, FS_EmptySet, UnitFacts
  <2> QED
    BY <2>1, <2>3, <2>4, <2>5, <2>6, FS_EmptySet DEF WrapInv
<1>2. WInv /\ [Next]_vars => WInv'
  BY DealStep, DealRangeStep, WrapStep
<1>3. WInv => WrapNeedsBig
  BY DEF WrapInv, Bigs, IsBig, WrapNeedsBig
<1> HIDE DEF WInv
<1> QED
  BY <1>1, <1>2, <1>3, PTL DEF Spec
=============================================================================
