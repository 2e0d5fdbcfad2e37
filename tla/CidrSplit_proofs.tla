-------------------------- MODULE CidrSplit_proofs --------------------------
(***************************************************************************)
(* However the rates round, the chunks that the v2 master cuts partition   *)
(* the list of CIDRs: proved for every number of CIDRs and workers and     *)
(* every rate.  The inductive invariant adds to ChunksPartition where the  *)
(* loop stands: one chunk for each worker served, the last one ending at   *)
(* offset, and at least one unit of weight while chunks are cut.  For      *)
(* NearShare it adds the weight p of the workers served: offset stays      *)
(* within one CIDR per worker of the share cidrs * p / totalRate.          *)
(***************************************************************************)
EXTENDS CidrSplit, TLAPS

SplitTypes ==
    /\ cidrs \in Nat
    /\ rates \in Seq(Nat)
    /\ Len(rates) >= 1
    /\ totalRate \in Nat
    /\ turn \in Nat
    /\ offset \in Nat
    /\ chunks \in Seq([from : Nat, to : Nat])
    /\ phase \in {"add", "cut", "sent"}

Progress ==
    /\ offset <= cidrs
    /\ phase = "add" => chunks = <<>> /\ offset = 0 /\ turn >= 1
    /\ phase # "add" => totalRate > 0 /\ turn = Len(chunks) + 1
    /\ phase = "cut" => turn <= Len(rates)
    /\ phase = "sent" => turn = Len(rates) + 1 /\ offset = cidrs
    /\ offset = IF chunks = <<>> THEN 0 ELSE chunks[Len(chunks)].to

\* Every chunk begins where the one before it ends.
Chained ==
    \A i \in 1 .. Len(chunks) :
        /\ chunks[i].from = IF i = 1 THEN 0 ELSE chunks[i - 1].to
        /\ chunks[i].from <= chunks[i].to
        /\ chunks[i].to <= cidrs

SplitInv == SplitTypes /\ Progress /\ Chained

LEMMA ShareNat ==
    ASSUME NEW a \in Nat, NEW b \in Nat, NEW c \in Nat, c > 0
    PROVE  (a * b) \div c \in Nat
<1>1. a * b \in Nat
  OBVIOUS
<1> DEFINE p == a * b
<1>2. p \in Nat
  BY <1>1
<1> HIDE DEF p
<1>3. p \div c \in Nat
  BY <1>2, SMT
<1> QED
  BY <1>3 DEF p

LEMMA SplitInitInv == SplitInit => SplitInv
<1> SUFFICES ASSUME SplitInit PROVE SplitInv
  OBVIOUS
<1>1. PICK n \in 1 .. MaxWorkers : rates \in [1 .. n -> 0 .. MaxRate]
  BY DEF SplitInit
<1>2. n \in Nat /\ n >= 1 /\ MaxRate \in Nat /\ MaxCidrs \in Nat
  BY <1>1, SplitAssumption
<1>3. rates \in Seq(Nat) /\ Len(rates) = n
  BY <1>1, <1>2
<1> QED
  BY <1>2, <1>3 DEF SplitInit, SplitInv, SplitTypes, Progress, Chained

\* A worker's chunk ends at or after offset and never past the list; the
\* last worker's ends where the list ends.
LEMMA ChunkEnd ==
    ASSUME SplitInv, phase = "cut"
    PROVE  LET end == offset + ChunkSize(turn)
               to == IF end > cidrs THEN cidrs ELSE end
           IN /\ to \in Nat /\ offset <= to /\ to <= cidrs
              /\ turn = Len(rates) => to = cidrs
<1>1. turn \in 1 .. Len(rates) /\ cidrs \in Nat /\ offset \in Nat /\ offset <= cidrs
      /\ totalRate \in Nat /\ totalRate > 0
  BY DEF SplitInv, SplitTypes, Progress
<1>2. rates[turn] \in Nat
  BY <1>1 DEF SplitInv, SplitTypes
<1>3. Share(turn) \in Nat
  BY <1>1, <1>2, ShareNat DEF Share
<1>4. ChunkSize(turn) \in Nat
  BY <1>1, <1>3 DEF ChunkSize
<1>5. turn = Len(rates) => offset + ChunkSize(turn) >= cidrs
  BY <1>1 DEF ChunkSize
<1> QED
  BY <1>1, <1>4, <1>5

LEMMA SplitStep == SplitInv /\ [SplitNext]_splitVars => SplitInv'
<1> SUFFICES ASSUME SplitInv, [SplitNext]_splitVars PROVE SplitInv'
  OBVIOUS
<1>1. CASE AddRate
  <2>1. rates[turn] \in Nat
    BY <1>1 DEF AddRate, SplitInv, SplitTypes, Progress
  <2> QED
    BY <1>1, <2>1 DEF AddRate, SplitInv, SplitTypes, Progress, Chained
<1>2. CASE BeginCut
  <2>1. rates' \in Seq(Nat) /\ Len(rates') = Len(rates)
        /\ totalRate' \in Nat /\ totalRate' > 0
    <3>1. CASE totalRate = 0
      <4> DEFINE ones == [i \in 1 .. Len(rates) |-> 1]
      <4>1. ones \in Seq(Nat) /\ Len(ones) = Len(rates)
        BY DEF SplitInv, SplitTypes
      <4> QED
        BY <1>2, <3>1, <4>1 DEF BeginCut, SplitInv, SplitTypes
    <3>2. CASE totalRate # 0
      BY <1>2, <3>2 DEF BeginCut, SplitInv, SplitTypes
    <3> QED
      BY <3>1, <3>2
  <2> QED
    BY <1>2, <2>1 DEF BeginCut, SplitInv, SplitTypes, Progress, Chained
<1>3. CASE Publish
  <2> DEFINE end == offset + ChunkSize(turn)
             to == IF end > cidrs THEN cidrs ELSE end
             chunk == [from |-> offset, to |-> to]
  <2>0. phase = "cut" /\ turn <= Len(rates) /\ offset' = to
        /\ chunks' = Append(chunks, chunk) /\ turn' = turn + 1
        /\ phase' = (IF turn = Len(rates) THEN "sent" ELSE "cut")
        /\ cidrs' = cidrs /\ rates' = rates /\ totalRate' = totalRate
    BY <1>3 DEF Publish
  <2>1. to \in Nat /\ offset <= to /\ to <= cidrs
        /\ (turn = Len(rates) => to = cidrs)
    BY <2>0, ChunkEnd
  <2> HIDE DEF to
  <2>2. chunk \in [from : Nat, to : Nat] /\ chunk.from = offset /\ chunk.to = to
    BY <2>1 DEF SplitInv, SplitTypes
  <2> HIDE DEF chunk
  <2>3. chunks' \in Seq([from : Nat, to : Nat]) /\ Len(chunks') = Len(chunks) + 1
    BY <2>0, <2>2 DEF SplitInv, SplitTypes
  <2>4. /\ chunks'[Len(chunks) + 1] = chunk
        /\ \A i \in 1 .. Len(chunks) : chunks'[i] = chunks[i]
    BY <2>0, <2>2 DEF SplitInv, SplitTypes
  <2>5. SplitTypes'
    BY <2>0, <2>1, <2>3 DEF SplitInv, SplitTypes
  <2>6. Progress'
    <3>1. chunks' # <<>> /\ chunks'[Len(chunks')].to = to
      BY <2>2, <2>3, <2>4 DEF SplitInv, SplitTypes
    <3>2. turn = Len(chunks) + 1 /\ totalRate > 0 /\ turn \in Nat /\ Len(rates) \in Nat
          /\ Len(chunks) \in Nat
      BY <2>0 DEF SplitInv, SplitTypes, Progress
    <3>3. turn' = Len(chunks') + 1 /\ totalRate' > 0
      BY <2>0, <2>3, <3>2
    <3>4. phase' = "cut" => turn' <= Len(rates')
      BY <2>0, <3>2
    <3>5. phase' = "sent" => turn' = Len(rates') + 1 /\ offset' = cidrs'
      BY <2>0, <2>1, <3>2
    <3>6. phase' # "add"
      BY <2>0
    <3>7. offset' = IF chunks' = <<>> THEN 0 ELSE chunks'[Len(chunks')].to
      BY <2>0, <3>1
    <3>8. offset' <= cidrs'
      BY <2>0, <2>1
    <3> QED
      BY <3>3, <3>4, <3>5, <3>6, <3>7, <3>8 DEF Progress
  <2>7. Chained'
    <3> SUFFICES ASSUME NEW i \in 1 .. Len(chunks')
                 PROVE  /\ chunks'[i].from = IF i = 1 THEN 0 ELSE chunks'[i - 1].to
                        /\ chunks'[i].from <= chunks'[i].to
                        /\ chunks'[i].to <= cidrs'
      BY DEF Chained
    <3>0. Len(chunks) \in Nat
      BY DEF SplitInv, SplitTypes
    <3>1. CASE i \in 1 .. Len(chunks)
      <4>1. i # 1 => i - 1 \in 1 .. Len(chunks)
        BY <3>0, <3>1
      <4> QED
        BY <2>0, <2>4, <3>1, <4>1 DEF SplitInv, Chained
    <3>2. CASE i = Len(chunks) + 1
      <4>1. offset = IF i = 1 THEN 0 ELSE chunks'[i - 1].to
        <5>1. CASE Len(chunks) = 0
          BY <3>2, <5>1 DEF SplitInv, SplitTypes, Progress
        <5>2. CASE Len(chunks) # 0
          <6>1. i - 1 = Len(chunks) /\ Len(chunks) \in 1 .. Len(chunks) /\ chunks # <<>>
            BY <3>0, <3>2, <5>2
          <6> QED
            BY <2>4, <3>0, <3>2, <5>2, <6>1 DEF SplitInv, Progress
        <5> QED
          BY <5>1, <5>2
      <4> QED
        BY <2>0, <2>1, <2>2, <2>4, <3>2, <4>1
    <3> QED
      BY <2>3, <3>0, <3>1, <3>2
  <2> QED
    BY <2>5, <2>6, <2>7 DEF SplitInv
<1>4. CASE UNCHANGED splitVars
  BY <1>4 DEF splitVars, SplitInv, SplitTypes, Progress, Chained
<1> QED
  BY <1>1, <1>2, <1>3, <1>4 DEF SplitNext

LEMMA SplitInvPartitions == SplitInv => ChunksPartition
<1> SUFFICES ASSUME SplitInv PROVE ChunksPartition
  OBVIOUS
<1>1. DOMAIN chunks = 1 .. Len(chunks)
  BY DEF SplitInv, SplitTypes
<1>2. phase = "sent" => Len(chunks) = Len(rates) /\ chunks[Len(chunks)].to = cidrs
  BY DEF SplitInv, SplitTypes, Progress
<1> QED
  BY <1>1, <1>2 DEF SplitInv, Chained, ChunksPartition

(* Every CIDR of a job is in exactly one of the chunks that handleCreateJob *)
(* publishes (main.go:185-206), whatever the rates round to and however    *)
(* many more workers than CIDRs are online.                                *)
THEOREM ChunksPartitionHolds == SplitSpec => []ChunksPartition
<1> QED
  BY SplitInvPartitions, SplitInitInv, SplitStep, PTL DEF SplitSpec

-----------------------------------------------------------------------------
(* How near a chunk comes to the share of its worker.                      *)

\* The end of a chunk of the list that begins at o, in the position of
\* Publish: for worker k + 1 of n with rate r.
NewEnd(N, T, n, k, o, r) ==
    LET c == IF k + 1 = n THEN N - o ELSE (N * r) \div T
        d == IF c < 1 THEN 1 ELSE c
    IN  IF o + d > N THEN N ELSE o + d

\* The products of the next lemma, so that what is left is linear.
LEMMA Products ==
    ASSUME NEW N \in Nat, NEW T \in Nat, NEW o \in Nat, NEW d \in Nat, NEW k \in Nat,
           NEW n \in Nat, NEW p \in Nat, NEW r \in Nat
    PROVE  /\ N * p \in Nat /\ N * r \in Nat /\ N * T \in Nat /\ o * T \in Nat
           /\ d * T \in Nat /\ k * T \in Nat /\ n * T \in Nat
           /\ N * (p + r) = N * p + N * r
           /\ (k + 1) * T = k * T + T
           /\ (o + d) * T = o * T + d * T
           /\ p + r <= T => N * p + N * r <= N * T
           /\ p + r = T => N * p + N * r = N * T
           /\ k + 1 <= n => k * T + T <= n * T
           /\ o <= N => o * T <= N * T
           /\ o <= N /\ N <= o + d => N * T <= o * T + d * T
           /\ o <= N => (N - o) * T = N * T - o * T
<1>1. /\ N * p \in Nat /\ N * r \in Nat /\ N * T \in Nat /\ o * T \in Nat
      /\ d * T \in Nat /\ k * T \in Nat /\ n * T \in Nat
  OBVIOUS
<1>2. N * (p + r) = N * p + N * r /\ (k + 1) * T = k * T + T
  OBVIOUS
<1>3. (o + d) * T = o * T + d * T
  OBVIOUS
<1>4. ASSUME NEW a \in Nat, NEW b \in Nat, NEW c \in Nat, a <= b
      PROVE  a * c <= b * c /\ c * a <= c * b
  BY <1>4
<1>5. p + r <= T => N * p + N * r <= N * T
  BY <1>2, <1>4
<1>6. k + 1 <= n => k * T + T <= n * T
  BY <1>2, <1>4
<1>7. o <= N => o * T <= N * T
  BY <1>4
<1>8. N <= o + d => N * T <= o * T + d * T
  BY <1>3, <1>4
<1>9. o <= N => (N - o) * T = N * T - o * T
  OBVIOUS
<1>10. p + r = T => N * p + N * r = N * T
  BY <1>2
<1> QED
  BY <1>1, <1>2, <1>3, <1>5, <1>6, <1>7, <1>8, <1>9, <1>10

\* What integer division leaves over.
LEMMA Division ==
    ASSUME NEW a \in Nat, NEW T \in Nat, T > 0
    PROVE  /\ a \div T \in Nat
           /\ (a \div T) * T <= a
           /\ a < (a \div T) * T + T
<1>1. a \div T \in Nat /\ a % T \in 0 .. T - 1
  BY SMT
<1>2. a = T * (a \div T) + (a % T)
  BY SMT
<1> DEFINE q == a \div T  m == a % T
<1>3. q \in Nat /\ m \in Nat /\ m < T /\ a = T * q + m
  BY <1>1, <1>2
<1> HIDE DEF q, m
<1>4. q * T = T * q /\ T * q \in Nat
  BY <1>3
<1> DEFINE x == T * q
<1>5. x \in Nat /\ q * T = x /\ a = x + m
  BY <1>3, <1>4
<1> HIDE DEF x
<1>6. x <= a /\ a < x + T
  BY <1>3, <1>5
<1> QED
  BY <1>3, <1>5, <1>6 DEF q

\* One turn of the publish loop in numbers: N networks, total weight T, the
\* workers before the turn weigh p and their chunks end at o.
LEMMA NearStep ==
    ASSUME NEW N \in Nat, NEW T \in Nat, NEW o \in Nat, NEW k \in Nat, NEW n \in Nat,
           NEW p \in Nat, NEW r \in Nat,
           T > 0, k < n, p + r <= T, k + 1 = n => p + r = T, o <= N,
           o * T <= N * p + k * T,
           o = N \/ N * p <= o * T + k * T
    PROVE  LET to == NewEnd(N, T, n, k, o, r) IN
           /\ to \in Nat /\ o <= to /\ to <= N
           /\ to * T <= N * (p + r) + (k + 1) * T
           /\ to = N \/ N * (p + r) <= to * T + (k + 1) * T
           /\ (to - o) * T < N * r + n * T
           /\ N * r < (to - o) * T + n * T
<1> DEFINE q == (N * r) \div T
           c == IF k + 1 = n THEN N - o ELSE q
           d == IF c < 1 THEN 1 ELSE c
           to == NewEnd(N, T, n, k, o, r)
<1>1. N * r \in Nat
  OBVIOUS
<1>2. q \in Nat /\ q * T <= N * r /\ N * r < q * T + T
  BY <1>1, Division
<1>3. to = IF o + d > N THEN N ELSE o + d
  BY DEF NewEnd
<1> HIDE DEF to, q
<1>4. d \in Nat /\ d >= 1 /\ (k + 1 = n => o + d >= N)
  BY <1>2
<1>5. k + 1 # n => d * T <= N * r + T /\ N * r < d * T + T
  <2>1. CASE q < 1
    <3>1. q = 0 /\ (k + 1 # n => d = 1)
      BY <1>2, <2>1
    <3>2. q * T = 0 /\ 1 * T = T
      BY <3>1
    <3> QED
      BY <1>1, <1>2, <3>1, <3>2
  <2>2. CASE q >= 1
    <3>1. k + 1 # n => d = q
      BY <1>2, <2>2
    <3>2. q * T \in Nat
      BY <1>2
    <3> QED
      BY <1>1, <1>2, <3>1, <3>2
  <2> QED
    BY <1>2, <2>1, <2>2
<1> HIDE DEF d
<1>6. to \in Nat /\ o <= to /\ to <= N
  BY <1>3, <1>4
<1>7. CASE to = N
  <2> DEFINE Np == N * p  Nr == N * r  NT == N * T  oT == o * T  kT == k * T  nT == n * T
  <2>1. /\ Np \in Nat /\ Nr \in Nat /\ NT \in Nat /\ oT \in Nat /\ kT \in Nat /\ nT \in Nat
        /\ Np + Nr <= NT /\ kT + T <= nT /\ oT <= NT
        /\ k + 1 = n => Np + Nr = NT
        /\ N * (p + r) = Np + Nr /\ (k + 1) * T = kT + T /\ (N - o) * T = NT - oT
    BY Products
  <2>2. oT <= Np + kT /\ (o = N \/ Np <= oT + kT) /\ (o = N => oT = NT)
    OBVIOUS
  <2>3. NT <= Np + Nr + kT + T /\ NT - oT < Nr + nT
    \* the end of the list is reached: by the last worker, because nothing
    \* was left, or by a whole share
    <3>1. CASE k + 1 = n
      <4> HIDE DEF Np, Nr, NT, oT, kT, nT
      <4>1. NT = Np + Nr
        BY <2>1, <3>1
      <4>2. CASE o = N
        BY <2>1, <2>2, <4>1, <4>2
      <4>3. CASE o # N
        BY <2>1, <2>2, <4>1, <4>3
      <4> QED
        BY <4>2, <4>3
    <3>2. CASE o = N
      <4> HIDE DEF Np, Nr, NT, oT, kT, nT
      <4> QED
        BY <2>1, <2>2, <3>2
    <3>3. CASE k + 1 # n /\ o # N
      <4> DEFINE dT == d * T
      <4>1. dT \in Nat /\ NT <= oT + dT
        BY <1>3, <1>4, <1>7, Products
      <4>2. dT <= Nr + T
        BY <1>5, <3>3
      <4>3. T + T <= nT
        <5>1. 1 + 1 <= n
          BY <3>3
        <5>2. 1 * T + T <= n * T
          BY <5>1, Products
        <5> QED
          BY <5>2
      <4> HIDE DEF Np, Nr, NT, oT, kT, nT, dT
      <4> QED
        BY <2>1, <2>2, <4>1, <4>2, <4>3
    <3> QED
      BY <3>1, <3>2, <3>3
  <2>4. Nr < (NT - oT) + nT
    <3> HIDE DEF Np, Nr, NT, oT, kT, nT
    <3> QED
      BY <2>1, <2>2
  <2>5. to * T = NT /\ (to - o) * T = NT - oT
    BY <1>7, <2>1
  <2> HIDE DEF Np, Nr, NT, oT, kT, nT
  <2>6. to * T <= (Np + Nr) + (kT + T)
    BY <2>1, <2>3, <2>5
  <2> QED
    BY <1>6, <1>7, <2>1, <2>3, <2>4, <2>5, <2>6 DEF Np, Nr, NT, oT, kT, nT, to
<1>8. CASE to # N
  <2> DEFINE Np == N * p  Nr == N * r  oT == o * T  dT == d * T  kT == k * T  nT == n * T
  <2>1. to = o + d /\ o # N /\ k + 1 # n /\ k + 1 < n
    BY <1>3, <1>4, <1>8
  <2>2. /\ Np \in Nat /\ Nr \in Nat /\ oT \in Nat /\ dT \in Nat /\ kT \in Nat /\ nT \in Nat
        /\ N * (p + r) = Np + Nr /\ (k + 1) * T = kT + T /\ (o + d) * T = oT + dT
    BY <1>4, Products
  <2>3. kT + T + T <= nT
    <3>1. (k + 1) + 1 <= n /\ k + 1 \in Nat
      BY <2>1
    <3>2. (k + 1) * T + T <= n * T
      BY <3>1, Products
    <3> QED
      BY <2>2, <3>2
  <2>4. oT <= Np + kT /\ Np <= oT + kT
    BY <2>1
  <2>5. dT <= Nr + T /\ Nr < dT + T
    BY <1>5, <2>1
  <2>6. to * T = oT + dT /\ (to - o) * T = dT
    <3>1. to - o = d
      BY <1>4, <2>1
    <3> QED
      BY <2>1, <2>2, <3>1
  <2> HIDE DEF Np, Nr, oT, dT, kT, nT
  <2>7. /\ oT + dT <= (Np + Nr) + (kT + T)
        /\ Np + Nr <= (oT + dT) + (kT + T)
        /\ dT < Nr + nT
        /\ Nr < dT + nT
    BY <2>2, <2>3, <2>4, <2>5
  <2> QED
    BY <1>6, <2>2, <2>6, <2>7 DEF Np, Nr, oT, dT, kT, nT, to
<1> QED
  BY <1>7, <1>8

\* p[i] is the weight of the first i workers, for the first k of them.
Weights(p, k, w) ==
    /\ p \in [0 .. k -> Nat]
    /\ p[0] = 0
    /\ \A i \in 1 .. k : p[i] = p[i - 1] + w[i]
    /\ \A i \in 0 .. k : p[i] <= p[k]

\* The end of the chunks cut so far is within one network per worker of the
\* exact share of the workers served.
OnCourse(p) ==
    /\ offset * totalRate <= cidrs * p[turn - 1] + (turn - 1) * totalRate
    /\ \/ offset = cidrs
       \/ cidrs * p[turn - 1] <= offset * totalRate + (turn - 1) * totalRate

Near(i) ==
    LET size == chunks[i].to - chunks[i].from
        slack == Len(rates) * totalRate
    IN /\ size * totalRate < cidrs * rates[i] + slack
       /\ cidrs * rates[i] < size * totalRate + slack

WeightInv ==
    /\ phase = "add" =>
          /\ turn <= Len(rates) + 1
          /\ \E p \in [0 .. turn - 1 -> Nat] :
                Weights(p, turn - 1, rates) /\ p[turn - 1] = totalRate
    /\ phase # "add" =>
          \E p \in [0 .. Len(rates) -> Nat] :
             Weights(p, Len(rates), rates) /\ p[Len(rates)] = totalRate /\ OnCourse(p)
    /\ \A i \in 1 .. Len(chunks) : Near(i)

LEMMA OneMore ==
    ASSUME NEW k \in Nat, NEW w, NEW p, Weights(p, k, w), w[k + 1] \in Nat
    PROVE  LET m == [i \in 0 .. k + 1 |-> IF i = k + 1 THEN p[k] + w[k + 1] ELSE p[i]]
           IN  Weights(m, k + 1, w) /\ m[k + 1] = p[k] + w[k + 1]
<1> DEFINE m == [i \in 0 .. k + 1 |-> IF i = k + 1 THEN p[k] + w[k + 1] ELSE p[i]]
<1>1. p \in [0 .. k -> Nat] /\ k \in 0 .. k /\ p[k] \in Nat
  BY DEF Weights
<1>2. /\ m \in [0 .. k + 1 -> Nat]
      /\ m[k + 1] = p[k] + w[k + 1]
      /\ \A i \in 0 .. k : m[i] = p[i]
  BY <1>1
<1> HIDE DEF m
<1>3. m[0] = 0
  BY <1>2 DEF Weights
<1>4. ASSUME NEW i \in 1 .. k + 1 PROVE m[i] = m[i - 1] + w[i]
  <2>1. CASE i = k + 1
    BY <1>1, <1>2, <2>1
  <2>2. CASE i # k + 1
    <3>1. i \in 1 .. k /\ i - 1 \in 0 .. k /\ i \in 0 .. k
      BY <2>2
    <3> QED
      BY <1>2, <3>1 DEF Weights
  <2> QED
    BY <2>1, <2>2
<1>5. ASSUME NEW i \in 0 .. k + 1 PROVE m[i] <= m[k + 1]
  <2>1. CASE i = k + 1
    BY <1>1, <1>2, <2>1
  <2>2. CASE i # k + 1
    <3>1. i \in 0 .. k
      BY <2>2
    <3>2. p[i] <= p[k] /\ p[i] \in Nat
      BY <1>1, <3>1 DEF Weights
    <3> QED
      BY <1>1, <1>2, <3>1, <3>2
  <2> QED
    BY <2>1, <2>2
<1> QED
  BY <1>2, <1>3, <1>4, <1>5 DEF Weights, m

LEMMA WeightInit == SplitInit => WeightInv
<1> SUFFICES ASSUME SplitInit PROVE WeightInv
  OBVIOUS
<1>1. SplitInv
  BY SplitInitInv
<1>2. Len(rates) \in Nat
  BY <1>1 DEF SplitInv, SplitTypes
<1> DEFINE p == [i \in 0 .. 0 |-> 0]
<1>3. p \in [0 .. turn - 1 -> Nat] /\ Weights(p, turn - 1, rates) /\ p[turn - 1] = totalRate
  BY DEF SplitInit, Weights
<1> QED
  BY <1>2, <1>3 DEF SplitInit, WeightInv

LEMMA WeightAdd == SplitInv /\ WeightInv /\ AddRate => WeightInv'
<1> SUFFICES ASSUME SplitInv, WeightInv, AddRate PROVE WeightInv'
  OBVIOUS
<1>1. /\ turn \in Nat /\ turn >= 1 /\ turn <= Len(rates) /\ Len(rates) \in Nat
      /\ rates[turn] \in Nat /\ chunks = <<>>
  BY DEF AddRate, SplitInv, SplitTypes, Progress
<1>2. PICK p \in [0 .. turn - 1 -> Nat] :
         Weights(p, turn - 1, rates) /\ p[turn - 1] = totalRate
  BY DEF AddRate, WeightInv
<1> DEFINE k == turn - 1
           m == [i \in 0 .. k + 1 |-> IF i = k + 1 THEN p[k] + rates[k + 1] ELSE p[i]]
<1>3. k \in Nat /\ k + 1 = turn /\ turn' - 1 = turn
  BY <1>1 DEF AddRate
<1>4. Weights(m, k + 1, rates) /\ m[k + 1] = p[k] + rates[k + 1]
  BY <1>1, <1>2, <1>3, OneMore
<1> HIDE DEF m
<1>5. Weights(m, turn, rates) /\ m[turn] = totalRate'
  BY <1>2, <1>3, <1>4 DEF AddRate
<1>6. m \in [0 .. turn' - 1 -> Nat] /\ Weights(m, turn' - 1, rates') /\ m[turn' - 1] = totalRate'
  BY <1>3, <1>5 DEF AddRate, Weights
<1>7. turn' <= Len(rates') + 1 /\ phase' = "add" /\ chunks' = <<>>
  BY <1>1 DEF AddRate
<1> QED
  BY <1>6, <1>7 DEF WeightInv

LEMMA WeightBegin == SplitInv /\ WeightInv /\ BeginCut => WeightInv'
<1> SUFFICES ASSUME SplitInv, WeightInv, BeginCut PROVE WeightInv'
  OBVIOUS
<1>1. /\ turn = Len(rates) + 1 /\ Len(rates) \in Nat /\ chunks' = <<>> /\ offset' = 0
      /\ turn' = 1 /\ phase' = "cut" /\ cidrs' = cidrs /\ cidrs \in Nat
  BY DEF BeginCut, SplitInv, SplitTypes, Progress, WeightInv
<1>2. PICK p \in [0 .. turn - 1 -> Nat] :
         Weights(p, turn - 1, rates) /\ p[turn - 1] = totalRate
  BY DEF BeginCut, WeightInv
<1>3. \E m \in [0 .. Len(rates') -> Nat] :
         Weights(m, Len(rates'), rates') /\ m[Len(rates')] = totalRate'
  <2>1. CASE totalRate = 0
    <3> DEFINE m == [i \in 0 .. Len(rates) |-> i]
    <3>1. /\ Len(rates') = Len(rates) /\ totalRate' = Len(rates)
          /\ \A i \in 1 .. Len(rates) : rates'[i] = 1
      BY <1>1, <2>1 DEF BeginCut, SplitInv, SplitTypes
    <3>2. Weights(m, Len(rates), rates') /\ m[Len(rates)] = totalRate'
      BY <1>1, <3>1 DEF Weights
    <3>3. m \in [0 .. Len(rates) -> Nat]
      BY <1>1
    <3> QED
      BY <3>1, <3>2, <3>3
  <2>2. CASE totalRate # 0
    <3>1. rates' = rates /\ totalRate' = totalRate /\ turn - 1 = Len(rates)
      BY <1>1, <2>2 DEF BeginCut
    <3> QED
      BY <1>2, <3>1
  <2> QED
    BY <2>1, <2>2
<1>4. PICK m \in [0 .. Len(rates') -> Nat] :
         Weights(m, Len(rates'), rates') /\ m[Len(rates')] = totalRate'
  BY <1>3
<1>5. OnCourse(m)'
  <2>1. m[0] = 0 /\ turn' - 1 = 0
    BY <1>1, <1>4 DEF Weights
  <2>2. totalRate' \in Nat
    BY <1>1 DEF BeginCut, SplitInv, SplitTypes
  <2>3. 0 * totalRate' = 0 /\ cidrs * 0 = 0
    <3>1. ASSUME NEW a \in Nat PROVE 0 * a = 0 /\ a * 0 = 0
      OBVIOUS
    <3> QED
      BY <1>1, <2>2, <3>1
  <2> QED
    BY <1>1, <2>1, <2>3 DEF OnCourse
<1>6. \A i \in 1 .. Len(chunks') : Near(i)'
  BY <1>1
<1> QED
  BY <1>1, <1>4, <1>5, <1>6 DEF WeightInv

LEMMA WeightPublish == SplitInv /\ WeightInv /\ Publish => WeightInv'
<1> SUFFICES ASSUME SplitInv, WeightInv, Publish PROVE WeightInv'
  OBVIOUS
<1>1. /\ phase = "cut" /\ turn \in 1 .. Len(rates) /\ Len(rates) \in Nat
      /\ totalRate \in Nat /\ totalRate > 0 /\ cidrs \in Nat /\ offset \in Nat
      /\ offset <= cidrs /\ turn = Len(chunks) + 1 /\ Len(chunks) \in Nat
  BY SMTT(60) DEF Publish, SplitInv, SplitTypes, Progress
<1>2. rates[turn] \in Nat
  BY <1>1 DEF SplitInv, SplitTypes
<1>3. PICK p \in [0 .. Len(rates) -> Nat] :
         Weights(p, Len(rates), rates) /\ p[Len(rates)] = totalRate /\ OnCourse(p)
  BY <1>1 DEF WeightInv
<1> DEFINE k == turn - 1
           to == NewEnd(cidrs, totalRate, Len(rates), k, offset, rates[turn])
<1>4. k \in Nat /\ k < Len(rates) /\ k + 1 = turn /\ (k + 1 = Len(rates) <=> turn = Len(rates))
  BY <1>1
<1>5. /\ p[k] \in Nat /\ p[turn] = p[k] + rates[turn] /\ p[turn] <= totalRate
      /\ turn = Len(rates) => p[turn] = totalRate
  <2>1. k \in 0 .. Len(rates) /\ turn \in 0 .. Len(rates)
    BY <1>1
  <2> QED
    BY <1>1, <1>3, <2>1 DEF Weights
<1>6. /\ offset * totalRate <= cidrs * p[k] + k * totalRate
      /\ offset = cidrs \/ cidrs * p[k] <= offset * totalRate + k * totalRate
  BY <1>3 DEF OnCourse
<1>7. /\ to \in Nat /\ offset <= to /\ to <= cidrs
      /\ to * totalRate <= cidrs * (p[k] + rates[turn]) + (k + 1) * totalRate
      /\ to = cidrs \/ cidrs * (p[k] + rates[turn]) <= to * totalRate + (k + 1) * totalRate
      /\ (to - offset) * totalRate < cidrs * rates[turn] + Len(rates) * totalRate
      /\ cidrs * rates[turn] < (to - offset) * totalRate + Len(rates) * totalRate
  <2> DEFINE n == Len(rates)  r == rates[turn]  q == p[k]
  <2>1. /\ n \in Nat /\ r \in Nat /\ q \in Nat /\ q + r <= totalRate /\ k < n
        /\ k + 1 = n => q + r = totalRate
    BY <1>1, <1>2, <1>4, <1>5
  <2>2. /\ offset * totalRate <= cidrs * q + k * totalRate
        /\ offset = cidrs \/ cidrs * q <= offset * totalRate + k * totalRate
    BY <1>6
  <2> HIDE DEF n, r, q, k
  <2>3. LET e == NewEnd(cidrs, totalRate, n, k, offset, r) IN
        /\ e \in Nat /\ offset <= e /\ e <= cidrs
        /\ e * totalRate <= cidrs * (q + r) + (k + 1) * totalRate
        /\ e = cidrs \/ cidrs * (q + r) <= e * totalRate + (k + 1) * totalRate
        /\ (e - offset) * totalRate < cidrs * r + n * totalRate
        /\ cidrs * r < (e - offset) * totalRate + n * totalRate
    BY <1>1, <1>4, <2>1, <2>2, NearStep
  <2> QED
    BY <2>3 DEF n, r, q
<1>8. to = IF offset + ChunkSize(turn) > cidrs THEN cidrs ELSE offset + ChunkSize(turn)
  BY <1>4 DEF NewEnd, ChunkSize, Share
<1> HIDE DEF to
<1>9. /\ offset' = to /\ chunks' = Append(chunks, [from |-> offset, to |-> to])
      /\ turn' = turn + 1 /\ phase' # "add" /\ cidrs' = cidrs /\ rates' = rates
      /\ totalRate' = totalRate
  BY <1>8 DEF Publish
<1>10. OnCourse(p)'
  <2>1. turn' - 1 = turn /\ k + 1 = turn
    BY <1>1, <1>9
  <2> QED
    BY <1>5, <1>7, <1>9, <2>1 DEF OnCourse
<1>11. ASSUME NEW i \in 1 .. Len(chunks') PROVE Near(i)'
  <2>1. [from |-> offset, to |-> to] \in [from : Nat, to : Nat]
    BY <1>1, <1>7
  <2>2. /\ Len(chunks') = turn
        /\ chunks'[turn].from = offset /\ chunks'[turn].to = to
        /\ \A j \in 1 .. Len(chunks) : chunks'[j] = chunks[j]
    BY <1>1, <1>9, <2>1 DEF SplitInv, SplitTypes
  <2>3. CASE i = turn
    BY <1>7, <1>9, <2>2, <2>3 DEF Near
  <2>4. CASE i # turn
    <3>1. i \in 1 .. Len(chunks) /\ Near(i)
      BY <1>1, <2>2, <2>4 DEF WeightInv
    <3> QED
      BY <1>9, <2>2, <3>1 DEF Near
  <2> QED
    BY <2>3, <2>4
<1> QED
  BY <1>3, <1>9, <1>10, <1>11 DEF WeightInv

LEMMA WeightStutter == SplitInv /\ WeightInv /\ UNCHANGED splitVars => WeightInv'
<1> SUFFICES ASSUME SplitInv, WeightInv, UNCHANGED splitVars PROVE WeightInv'
  OBVIOUS
<1>1. /\ cidrs' = cidrs /\ rates' = rates /\ totalRate' = totalRate /\ turn' = turn
      /\ offset' = offset /\ chunks' = chunks /\ phase' = phase
  BY DEF splitVars
<1>2. \A i \in 1 .. Len(chunks') : Near(i)'
  BY <1>1 DEF WeightInv, Near
<1>3. ASSUME NEW p, OnCourse(p) PROVE OnCourse(p)'
  BY <1>1, <1>3 DEF OnCourse
<1>4. phase' = "add" =>
         /\ turn' <= Len(rates') + 1
         /\ \E p \in [0 .. turn' - 1 -> Nat] :
               Weights(p, turn' - 1, rates') /\ p[turn' - 1] = totalRate'
  BY <1>1 DEF WeightInv
<1>5. phase' # "add" =>
         \E p \in [0 .. Len(rates') -> Nat] :
            /\ Weights(p, Len(rates'), rates') /\ p[Len(rates')] = totalRate'
            /\ OnCourse(p)'
  BY <1>1, <1>3 DEF WeightInv
<1> QED
  BY <1>2, <1>4, <1>5 DEF WeightInv

LEMMA WeightInvNear == SplitInv /\ WeightInv => NearShare
<1> SUFFICES ASSUME SplitInv, WeightInv PROVE NearShare
  OBVIOUS
<1>1. DOMAIN chunks = 1 .. Len(chunks)
  BY DEF SplitInv, SplitTypes
<1> QED
  BY <1>1 DEF WeightInv, Near, NearShare

(* Each worker's chunk is within one CIDR per worker of the exact share    *)
(* that its masscan_rate gives it (main.go:166-206), for every number of   *)
(* CIDRs and workers and every rate: the rounding does not add up.         *)
THEOREM NearShareHolds == SplitSpec => []NearShare
<1>1. SplitInit => SplitInv /\ WeightInv
  BY SplitInitInv, WeightInit
<1>2. SplitInv /\ WeightInv /\ [SplitNext]_splitVars => (SplitInv /\ WeightInv)'
  <2> SUFFICES ASSUME SplitInv, WeightInv, [SplitNext]_splitVars
               PROVE  SplitInv' /\ WeightInv'
    OBVIOUS
  <2>1. SplitInv'
    BY SplitStep
  <2> QED
    BY <2>1, WeightStutter, WeightAdd, WeightBegin, WeightPublish DEF SplitNext
<1> QED
  BY <1>1, <1>2, WeightInvNear, PTL DEF SplitSpec
=============================================================================
