----------------------------- MODULE ShardCIDRs -----------------------------
(***************************************************************************)
(* DistributeCIDRs of the v1 master (internal/master/shard.go): the CIDRs  *)
(* of a scan are dealt to shardCount shards, the largest first and each to *)
(* the shard that has the fewest addresses so far.  The CIDRs are their    *)
(* places in the list, a shard is the set of its CIDRs.  Totals are        *)
(* int64 and wrap around.                                                  *)
(***************************************************************************)
EXTENDS Integers, FiniteSets

CONSTANTS
    MaxCidrs,       \* bound on len(cidrs)
    MaxShards,      \* bound on shardCount
    BigBits,        \* host bits from which hosts is MaxInt (32)
    MaxInt          \* math.MaxInt64

ASSUME ShardAssumption ==
    /\ MaxCidrs \in Nat
    /\ MaxShards \in Nat
    /\ BigBits \in Nat
    /\ MaxInt \in Nat
    /\ \A b \in 0 .. BigBits : 2 ^ b \in 1 .. 2 ^ BigBits
    /\ 2 ^ BigBits < MaxInt
    /\ MaxCidrs * 2 ^ BigBits <= MaxInt    \* fewer than 2^31 networks

VARIABLES
    hostBits,       \* bits - ones of every CIDR, -1 if it does not parse
    shardCount,
    entries,        \* the parsed CIDRs without a shard
    shards,
    totals,
    wrapped,        \* history: a total overflowed
    dealt           \* DistributeCIDRs returned

shardVars == <<hostBits, shardCount, entries, shards, totals, wrapped, dealt>>

Cidrs == DOMAIN hostBits

Parsed == {c \in Cidrs : hostBits[c] >= 0}

Hosts(c) == IF hostBits[c] >= BigBits THEN MaxInt ELSE 2 ^ hostBits[c]

\* int64: one more than MaxInt is the smallest number.
Wrap(x) == IF x > MaxInt THEN x - 2 * (MaxInt + 1) ELSE x

ShardInit ==
    /\ hostBits \in UNION {[1 .. n -> -1 .. BigBits] : n \in 0 .. MaxCidrs}
    /\ shardCount \in 0 .. MaxShards
    /\ entries = Parsed
    /\ shards = [i \in 1 .. shardCount |-> {}]
    /\ totals = [i \in 1 .. shardCount |-> 0]
    /\ wrapped = FALSE
    /\ dealt = FALSE

\* One shard takes the list as it is.
OneShard ==
    /\ ~dealt
    /\ shardCount <= 1
    /\ shards' = [i \in {1} |-> Cidrs]
    /\ dealt' = TRUE
    /\ UNCHANGED <<hostBits, shardCount, entries, totals, wrapped>>

\* No CIDR parses: they are dealt in turn, whatever they are.
RoundRobin ==
    /\ ~dealt
    /\ shardCount > 1
    /\ Parsed = {}
    /\ shards' = [i \in 1 .. shardCount |-> {c \in Cidrs : (c - 1) % shardCount = i - 1}]
    /\ dealt' = TRUE
    /\ UNCHANGED <<hostBits, shardCount, entries, totals, wrapped>>

\* Mutant: the smallest networks come first.
SmallestEntry(c) == c \in entries /\ \A d \in entries : Hosts(c) <= Hosts(d)

\* sort.Slice is not stable: equal networks come in any order.
Largest(c) == c \in entries /\ \A d \in entries : Hosts(d) <= Hosts(c)

\* Mutant: the loop stops before the last shard.
MinIdxShort(i) ==
    /\ i \in 1 .. shardCount - 1
    /\ \A j \in 1 .. shardCount - 1 :
          totals[i] <= totals[j] /\ (j < i => totals[i] < totals[j])

\* The first of the shards with the smallest total.
MinIdx(i) ==
    /\ i \in 1 .. shardCount
    /\ \A j \in 1 .. shardCount :
          totals[i] <= totals[j] /\ (j < i => totals[i] < totals[j])

\* Mutant: the shard forgets what it has.
Replaced(c, i) == {c}

Appended(c, i) == shards[i] \cup {c}

Place(c, i) ==
    /\ ~dealt /\ shardCount > 1
    /\ Largest(c)
    /\ MinIdx(i)
    /\ entries' = entries \ {c}
    /\ shards' = [shards EXCEPT ![i] = Appended(c, i)]
    /\ totals' = [totals EXCEPT ![i] = Wrap(totals[i] + Hosts(c))]
    /\ wrapped' = (wrapped \/ totals[i] + Hosts(c) > MaxInt)
    /\ UNCHANGED <<hostBits, shardCount, dealt>>

ReturnShards ==
    /\ ~dealt /\ shardCount > 1
    /\ Parsed # {} /\ entries = {}
    /\ dealt' = TRUE
    /\ UNCHANGED <<hostBits, shardCount, entries, shards, totals, wrapped>>

ShardNext ==
    \/ OneShard
    \/ RoundRobin
    \/ \E c \in Cidrs, i \in 1 .. shardCount : Place(c, i)
    \/ ReturnShards

ShardSpec == ShardInit /\ [][ShardNext]_shardVars
-----------------------------------------------------------------------------
(* Every CIDR that parses gets into one shard, and no shard gets another's *)
(* (task_store.go:86, "Each shard gets its own subset of CIDRs").  What    *)
(* does not parse is left out, unless nothing parses or nothing is cut.    *)
OwnSubset ==
    /\ \A i, j \in DOMAIN shards : i # j => shards[i] \cap shards[j] = {}
    /\ dealt =>
          \A c \in Cidrs :
              (\E i \in DOMAIN shards : c \in shards[i])
                  <=> (c \in Parsed \/ shardCount <= 1 \/ Parsed = {})

(* No single network could move to another shard and even the two out:     *)
(* without the smallest of its networks a shard has no more addresses than *)
(* any other (shard.go:15, "largest networks first, assign to smallest     *)
(* shard"), as long as the totals are what they count.                     *)
Balanced ==
    ~wrapped =>
        \A i, j \in DOMAIN totals : \A c \in shards[i] \cap Parsed :
            totals[i] - totals[j] <= Hosts(c)

(* A total overflows only once every shard has a network that counts as    *)
(* MaxInt64 (shard.go:40, hostBits >= 32: an IPv6 network of /96 or        *)
(* larger); after that the fullest shard is the smallest and gets all that *)
(* is left.                                                                *)
WrapNeedsBig ==
    wrapped => Cardinality({c \in Cidrs \ entries : hostBits[c] >= BigBits}) >= shardCount
=============================================================================
