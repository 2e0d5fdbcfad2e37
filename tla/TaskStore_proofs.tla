--------------------------- MODULE TaskStore_proofs ---------------------------
(***************************************************************************)
(* Proofs about the task store, for any finite set of tasks and any set of *)
(* workers.  The invariants of TaskStore are not inductive one by one:     *)
(* that a reassignment queues a task once needs that the task it puts back *)
(* was not queued, which needs that the assignment before it removed every *)
(* entry, which needs that there was at most one.  PendingInLine follows   *)
(* from what each entry of the queue may name and from where each pending  *)
(* task is.  StoreInv is the conjunction of all these with the two facts   *)
(* about unseen tasks that CreateTask and ReportResult rest on.            *)
(***************************************************************************)
EXTENDS TaskStore, FiniteSetTheorems, TLAPS

\* An ID that no task has yet is nowhere.
UnseenNowhere ==
    \A t \in Task : ~Known(t) => ~Queued(t) /\ t \notin handedOut

\* No pending task is out of reach.
PendingSomewhere ==
    \A t \in Task : status[t] = "pending" => Queued(t) \/ t \in taken

\* The queue names tasks that wait, and re-queued ones with a late answer.
EntriesWaitOrAnswered ==
    \A t \in Task : Queued(t) => status[t] = "pending" \/ Answered(t)

StoreInv ==
    /\ StoreTypeOK
    /\ PendingSomewhere
    /\ EntriesWaitOrAnswered
    /\ QueuedOnce
    /\ HeldNotQueued
    /\ UnseenNowhere

-----------------------------------------------------------------------------
(***************************************************************************)
(* What the queue operations do to a queue without repetitions.            *)
(***************************************************************************)
In(q, t) == \E i \in DOMAIN q : q[i] = t
Distinct(q) == \A i, j \in DOMAIN q : q[i] = q[j] => i = j

\* In a queue without repetitions the first entry of a task is its only one.
LEMMA FirstIndexIs ==
    ASSUME NEW q \in Seq(Task), NEW t \in Task, Distinct(q), In(q, t)
    PROVE  /\ FirstIndex(q, t) \in 1 .. Len(q)
           /\ q[FirstIndex(q, t)] = t
<1>1. PICK k \in DOMAIN q : q[k] = t
  BY DEF In
<1>2. k \in DOMAIN q /\ q[k] = t /\ \A j \in DOMAIN q : q[j] = t => k <= j
  BY <1>1 DEF Distinct
<1>. QED
  BY <1>2 DEF FirstIndex

\* Without drops the task, keeps every other one, and repeats none.
LEMMA WithoutDrops ==
    ASSUME NEW q \in Seq(Task), NEW t \in Task, Distinct(q)
    PROVE  /\ Without(q, t) \in Seq(Task)
           /\ Distinct(Without(q, t))
           /\ \A u \in Task : In(Without(q, t), u) <=> u # t /\ In(q, u)
<1>1. CASE ~In(q, t)
  <2>1. Without(q, t) = q
    BY <1>1 DEF Without, In
  <2>. QED  BY <1>1, <2>1
<1>2. CASE In(q, t)
  <2>. DEFINE k == FirstIndex(q, t)
              r == [j \in 1 .. (Len(q) - 1) |-> IF j < k THEN q[j] ELSE q[j + 1]]
  <2>1. k \in 1 .. Len(q) /\ q[k] = t
    BY <1>2, FirstIndexIs
  <2>2. Without(q, t) = r
    BY <1>2 DEF Without, In
  <2>. HIDE DEF k
  <2>3. Len(q) - 1 \in Nat /\ r \in Seq(Task) /\ Len(r) = Len(q) - 1
    BY <2>1
  <2>4. Distinct(r)
    <3>. SUFFICES ASSUME NEW i \in 1 .. (Len(q) - 1), NEW j \in 1 .. (Len(q) - 1),
                         r[i] = r[j]
                  PROVE  i = j
      BY <2>3 DEF Distinct
    <3>1. (IF i < k THEN i ELSE i + 1) = (IF j < k THEN j ELSE j + 1)
      BY <2>1 DEF Distinct
    <3>. QED  BY <2>1, <3>1
  <2>5. ASSUME NEW u \in Task, In(r, u)
        PROVE  u # t /\ In(q, u)
    <3>1. PICK i \in 1 .. (Len(q) - 1) : r[i] = u
      BY <2>3, <2>5 DEF In
    <3>2. CASE i < k
      <4>1. i \in DOMAIN q /\ q[i] = u /\ i # k
        BY <2>1, <3>1, <3>2
      <4>. QED  BY <2>1, <4>1 DEF Distinct, In
    <3>3. CASE ~(i < k)
      <4>1. i + 1 \in DOMAIN q /\ q[i + 1] = u /\ i + 1 # k
        BY <2>1, <3>1, <3>3
      <4>. QED  BY <2>1, <4>1 DEF Distinct, In
    <3>. QED  BY <3>2, <3>3
  <2>6. ASSUME NEW u \in Task, u # t, In(q, u)
        PROVE  In(r, u)
    <3>1. PICK i \in 1 .. Len(q) : q[i] = u /\ i # k
      BY <2>1, <2>6 DEF In
    <3>2. CASE i < k
      <4>1. i \in 1 .. (Len(q) - 1) /\ r[i] = u
        BY <2>1, <3>1, <3>2
      <4>. QED  BY <2>3, <4>1 DEF In
    <3>3. CASE i > k
      <4>1. i - 1 \in 1 .. (Len(q) - 1) /\ r[i - 1] = u
        BY <2>1, <3>1, <3>3
      <4>. QED  BY <2>3, <4>1 DEF In
    <3>. QED  BY <2>1, <3>1, <3>2, <3>3
  <2>. QED  BY <2>2, <2>3, <2>4, <2>5, <2>6
<1>. QED  BY <1>1, <1>2

\* Appending a task that is not queued adds it, and repeats none.
LEMMA AppendAdds ==
    ASSUME NEW q \in Seq(Task), NEW t \in Task, Distinct(q), ~In(q, t)
    PROVE  /\ Append(q, t) \in Seq(Task)
           /\ Distinct(Append(q, t))
           /\ \A u \in Task : In(Append(q, t), u) <=> u = t \/ In(q, u)
<1>1. Append(q, t) \in Seq(Task) /\ Len(Append(q, t)) = Len(q) + 1
  OBVIOUS
<1>2. \A i \in 1 .. Len(q) : Append(q, t)[i] = q[i]
  OBVIOUS
<1>3. Append(q, t)[Len(q) + 1] = t
  OBVIOUS
<1>4. Distinct(Append(q, t))
  BY <1>1, <1>2, <1>3 DEF Distinct, In
<1>5. \A u \in Task : In(Append(q, t), u) <=> u = t \/ In(q, u)
  BY <1>1, <1>2, <1>3 DEF In
<1>. QED  BY <1>1, <1>4, <1>5

\* So does appending a set of such tasks, in any order.
LEMMA ConcatAdds ==
    ASSUME NEW q \in Seq(Task), NEW S \in SUBSET Task, NEW n \in Nat,
           NEW order \in Bijection(1 .. n, S),
           Distinct(q), \A t \in S : ~In(q, t)
    PROVE  /\ q \o order \in Seq(Task)
           /\ Distinct(q \o order)
           /\ \A u \in Task : In(q \o order, u) <=> u \in S \/ In(q, u)
<1>1. /\ order \in [1 .. n -> S]
      /\ \A i, j \in 1 .. n : order[i] = order[j] => i = j
      /\ \A t \in S : \E i \in 1 .. n : order[i] = t
  BY DEF Bijection, Injection, Surjection, IsInjective
<1>2. order \in Seq(Task) /\ Len(order) = n
  BY <1>1
<1>3. q \o order \in Seq(Task) /\ Len(q \o order) = Len(q) + n
  BY <1>2
<1>4. \A i \in 1 .. Len(q) : (q \o order)[i] = q[i]
  BY <1>2
<1>5. \A i \in 1 .. n : (q \o order)[Len(q) + i] = order[i]
  BY <1>2
<1>6. \A k \in 1 .. (Len(q) + n) :
         \/ k \in 1 .. Len(q)
         \/ k - Len(q) \in 1 .. n /\ (q \o order)[k] = order[k - Len(q)]
  <2>. SUFFICES ASSUME NEW k \in 1 .. (Len(q) + n), k \notin 1 .. Len(q)
                PROVE  /\ k - Len(q) \in 1 .. n
                       /\ (q \o order)[k] = order[k - Len(q)]
    OBVIOUS
  <2>1. k - Len(q) \in 1 .. n /\ k = Len(q) + (k - Len(q))
    OBVIOUS
  <2>. QED  BY <1>5, <2>1
<1>7. Distinct(q \o order)
  <2>. SUFFICES ASSUME NEW i \in 1 .. (Len(q) + n), NEW j \in 1 .. (Len(q) + n),
                       (q \o order)[i] = (q \o order)[j]
                PROVE  i = j
    BY <1>3 DEF Distinct
  <2>1. CASE i \in 1 .. Len(q) /\ j \in 1 .. Len(q)
    BY <1>4, <2>1 DEF Distinct
  <2>2. CASE i \in 1 .. Len(q) /\ j \notin 1 .. Len(q)
    BY <1>1, <1>4, <1>6, <2>2 DEF In
  <2>3. CASE i \notin 1 .. Len(q) /\ j \in 1 .. Len(q)
    BY <1>1, <1>4, <1>6, <2>3 DEF In
  <2>4. CASE i \notin 1 .. Len(q) /\ j \notin 1 .. Len(q)
    <3>1. i - Len(q) = j - Len(q)
      BY <1>1, <1>6, <2>4
    <3>. QED  BY <3>1
  <2>. QED  BY <2>1, <2>2, <2>3, <2>4
<1>8. ASSUME NEW u \in Task, In(q \o order, u)
      PROVE  u \in S \/ In(q, u)
  BY <1>1, <1>3, <1>4, <1>6, <1>8 DEF In
<1>9. ASSUME NEW u \in S
      PROVE  In(q \o order, u)
  <2>1. PICK i \in 1 .. n : order[i] = u
    BY <1>1, <1>9
  <2>2. Len(q) + i \in DOMAIN (q \o order) /\ (q \o order)[Len(q) + i] = u
    BY <1>3, <1>5, <2>1
  <2>. QED  BY <2>2 DEF In
<1>10. ASSUME NEW u \in Task, In(q, u)
       PROVE  In(q \o order, u)
  BY <1>3, <1>4, <1>10 DEF In
<1>. QED  BY <1>3, <1>7, <1>8, <1>9, <1>10

\* Popping the head takes that one task out.
LEMMA TailDrops ==
    ASSUME NEW q \in Seq(Task), Distinct(q), q # <<>>
    PROVE  /\ Head(q) \in Task
           /\ Tail(q) \in Seq(Task)
           /\ Distinct(Tail(q))
           /\ \A u \in Task : In(Tail(q), u) <=> u # Head(q) /\ In(q, u)
<1>1. Head(q) = q[1] /\ 1 \in DOMAIN q /\ Head(q) \in Task
  OBVIOUS
<1>2. Tail(q) \in Seq(Task) /\ Len(Tail(q)) = Len(q) - 1 /\ Len(q) \in Nat
  OBVIOUS
<1>3. \A i \in 1 .. (Len(q) - 1) : Tail(q)[i] = q[i + 1]
  OBVIOUS
<1>4. Distinct(Tail(q))
  <2>. SUFFICES ASSUME NEW i \in 1 .. (Len(q) - 1), NEW j \in 1 .. (Len(q) - 1),
                       Tail(q)[i] = Tail(q)[j]
                PROVE  i = j
    BY <1>2 DEF Distinct
  <2>1. i + 1 = j + 1
    BY <1>2, <1>3 DEF Distinct
  <2>. QED  BY <2>1
<1>5. ASSUME NEW u \in Task, In(Tail(q), u)
      PROVE  u # Head(q) /\ In(q, u)
  <2>1. PICK i \in 1 .. (Len(q) - 1) : Tail(q)[i] = u
    BY <1>2, <1>5 DEF In
  <2>2. i + 1 \in DOMAIN q /\ q[i + 1] = u /\ i + 1 # 1
    BY <1>2, <1>3, <2>1
  <2>. QED  BY <1>1, <2>2 DEF Distinct, In
<1>6. ASSUME NEW u \in Task, u # Head(q), In(q, u)
      PROVE  In(Tail(q), u)
  <2>1. PICK i \in 1 .. Len(q) : q[i] = u /\ i # 1
    BY <1>1, <1>6 DEF In
  <2>2. i - 1 \in 1 .. (Len(q) - 1) /\ Tail(q)[i - 1] = u
    BY <1>2, <1>3, <2>1
  <2>3. i - 1 \in DOMAIN Tail(q)
    BY <1>2, <2>2
  <2>. QED  BY <2>2, <2>3 DEF In
<1>. QED  BY <1>1, <1>2, <1>4, <1>5, <1>6

-----------------------------------------------------------------------------
LEMMA StoreInvInit == StoreInit => StoreInv
BY DEF StoreInit, StoreInv, StoreTypeOK, PendingSomewhere,
       EntriesWaitOrAnswered, QueuedOnce, HeldNotQueued, UnseenNowhere, Known,
       Queued, Status, Active, Final

\* The invariant in the terms of the queue lemmas.
LEMMA QueueTerms ==
    /\ QueuedOnce <=> Distinct(pendingQ)
    /\ \A t \in Task : Queued(t) <=> In(pendingQ, t)
BY DEF QueuedOnce, Distinct, Queued, In

LEMMA QueueTermsPrime ==
    /\ QueuedOnce' <=> Distinct(pendingQ')
    /\ \A t \in Task : Queued(t)' <=> In(pendingQ', t)
BY DEF QueuedOnce, Distinct, Queued, In

LEMMA StoreInvStep == StoreInv /\ [StoreNext]_storeVars => StoreInv'
<1>. SUFFICES ASSUME StoreInv, [StoreNext]_storeVars
              PROVE  StoreInv'
  OBVIOUS
<1>. USE DEF StoreInv, StoreTypeOK, Known, Status, Active, Final
<1>0. Distinct(pendingQ) /\ \A t \in Task : Queued(t) <=> In(pendingQ, t)
  BY QueueTerms
<1>same. CASE UNCHANGED storeVars
  BY <1>same DEF storeVars, PendingSomewhere, EntriesWaitOrAnswered, Answered,
                 QueuedOnce, HeldNotQueued, UnseenNowhere, Queued
<1>1. ASSUME NEW t \in Task, CreateTask(t)
      PROVE  StoreInv'
  <2>1. ~In(pendingQ, t)
    BY <1>0, <1>1 DEF CreateTask, UnseenNowhere
  <2>2. /\ pendingQ' \in Seq(Task) /\ Distinct(pendingQ')
        /\ \A u \in Task : In(pendingQ', u) <=> u = t \/ In(pendingQ, u)
    <3>1. pendingQ' = Append(pendingQ, t)
      BY <1>1 DEF CreateTask
    <3>. QED  BY <1>0, <2>1, <3>1, AppendAdds
  <2>. QED  BY <1>0, <1>1, <2>2, QueueTermsPrime
            DEF CreateTask, PendingSomewhere, EntriesWaitOrAnswered, Answered,
                HeldNotQueued, UnseenNowhere
<1>2. ASSUME NEW t \in Task, StartTask(t)
      PROVE  StoreInv'
  BY <1>2 DEF StartTask, PendingSomewhere, EntriesWaitOrAnswered, Answered,
              QueuedOnce, HeldNotQueued, UnseenNowhere, Queued
<1>3. ASSUME NEW t \in Task, ReportResult(t)
      PROVE  StoreInv'
  BY <1>3 DEF ReportResult, CompleteTask, FailTask, Finish, PendingSomewhere,
              EntriesWaitOrAnswered, Answered, QueuedOnce, HeldNotQueued,
              UnseenNowhere, Queued
<1>4. ASSUME NEW t \in Task, CancelTask(t)
      PROVE  StoreInv'
  <2>1. CASE status[t] = "pending"
    <3>1. /\ pendingQ' \in Seq(Task) /\ Distinct(pendingQ')
          /\ \A u \in Task : In(pendingQ', u) <=> u # t /\ In(pendingQ, u)
      <4>1. pendingQ' = Without(pendingQ, t)
        BY <1>4, <2>1 DEF CancelTask
      <4>. QED  BY <1>0, <4>1, WithoutDrops
    <3>. QED  BY <1>0, <1>4, <2>1, <3>1, QueueTermsPrime
              DEF CancelTask, PendingSomewhere, EntriesWaitOrAnswered, Answered,
                  HeldNotQueued, UnseenNowhere
  <2>2. CASE status[t] \in Active
    BY <1>4, <2>2 DEF CancelTask, PendingSomewhere, EntriesWaitOrAnswered,
                      Answered, QueuedOnce, HeldNotQueued, UnseenNowhere, Queued
  <2>3. CASE status[t] \notin {"pending"} \cup Active
    BY <1>4, <1>same, <2>3 DEF CancelTask
  <2>. QED  BY <2>1, <2>2, <2>3
<1>5. ASSUME NEW t \in Task, ReassignTask(t)
      PROVE  StoreInv'
  <2>1. CASE status[t] \in Active
    <3>1. ~In(pendingQ, t)
      BY <1>0, <2>1 DEF HeldNotQueued
    <3>2. /\ pendingQ' \in Seq(Task) /\ Distinct(pendingQ')
          /\ \A u \in Task : In(pendingQ', u) <=> u = t \/ In(pendingQ, u)
      <4>1. pendingQ' = Append(pendingQ, t)
        BY <1>5, <2>1 DEF ReassignTask
      <4>. QED  BY <1>0, <3>1, <4>1, AppendAdds
    <3>. QED  BY <1>0, <1>5, <2>1, <3>2, QueueTermsPrime
              DEF ReassignTask, PendingSomewhere, EntriesWaitOrAnswered,
                  Answered, HeldNotQueued, UnseenNowhere
  <2>2. CASE status[t] \notin Active
    BY <1>5, <1>same, <2>2 DEF ReassignTask
  <2>. QED  BY <2>1, <2>2
<1>6. ASSUME NEW t \in Task, NEW w \in Worker, AssignTask(t, w)
      PROVE  StoreInv'
  <2>1. CASE status[t] = "pending"
    <3>1. /\ pendingQ' \in Seq(Task) /\ Distinct(pendingQ')
          /\ \A u \in Task : In(pendingQ', u) <=> u # t /\ In(pendingQ, u)
      <4>1. pendingQ' = Without(pendingQ, t)
        BY <1>6, <2>1 DEF AssignTask
      <4>. QED  BY <1>0, <4>1, WithoutDrops
    <3>. QED  BY SMTT(60), <1>0, <1>6, <2>1, <3>1, QueueTermsPrime
              DEF AssignTask, PendingSomewhere, EntriesWaitOrAnswered, Answered,
                  HeldNotQueued, UnseenNowhere
  <2>2. CASE status[t] # "pending"
    BY <1>6, <1>same, <2>2 DEF AssignTask
  <2>. QED  BY <2>1, <2>2
<1>7. ASSUME NEW w \in Worker, ReassignWorkerTasks(w)
      PROVE  StoreInv'
  <2>1. PICK young \in InGrace(w) :
          LET back == WorkerTasks(w) \ young IN
          \E order \in Bijection(1 .. Cardinality(back), back) :
            /\ status' = [t \in Task |->
                             IF t \in back THEN "pending" ELSE status[t]]
            /\ assignedTo' = [t \in Task |->
                                 IF t \in back THEN NoWorker ELSE assignedTo[t]]
            /\ pendingQ' = pendingQ \o order
            /\ UNCHANGED <<handedOut, taken>>
    BY <1>7 DEF ReassignWorkerTasks
  <2>. DEFINE back == WorkerTasks(w) \ young
  <2>2. back \in SUBSET Task /\ \A t \in back : status[t] \in Active
    BY DEF WorkerTasks
  <2>3. PICK order \in Bijection(1 .. Cardinality(back), back) :
            /\ status' = [t \in Task |->
                             IF t \in back THEN "pending" ELSE status[t]]
            /\ assignedTo' = [t \in Task |->
                                 IF t \in back THEN NoWorker ELSE assignedTo[t]]
            /\ pendingQ' = pendingQ \o order
            /\ UNCHANGED <<handedOut, taken>>
    BY <2>1
  <2>4. Cardinality(back) \in Nat
    <3>1. IsFiniteSet(back)
      BY <2>2, StoreAssumption, FS_Subset
    <3>. QED  BY <3>1, FS_CardinalityType
  <2>. HIDE DEF back
  <2>5. \A t \in back : ~In(pendingQ, t)
    BY <1>0, <2>2 DEF HeldNotQueued
  <2>6. /\ pendingQ' \in Seq(Task) /\ Distinct(pendingQ')
        /\ \A u \in Task : In(pendingQ', u) <=> u \in back \/ In(pendingQ, u)
    BY <1>0, <2>2, <2>3, <2>4, <2>5, ConcatAdds
  <2>. QED  BY <1>0, <2>2, <2>3, <2>6, QueueTermsPrime
            DEF PendingSomewhere, EntriesWaitOrAnswered, Answered,
                HeldNotQueued, UnseenNowhere
<1>8. CASE PopPending
  <2>1. /\ Head(pendingQ) \in Task
        /\ pendingQ' \in Seq(Task) /\ Distinct(pendingQ')
        /\ \A u \in Task : In(pendingQ', u) <=> u # Head(pendingQ) /\ In(pendingQ, u)
    <3>1. pendingQ # <<>> /\ pendingQ' = Tail(pendingQ)
      BY <1>8 DEF PopPending
    <3>. QED  BY <1>0, <3>1, TailDrops
  <2>. QED  BY <1>0, <1>8, <2>1, QueueTermsPrime
            DEF PopPending, PendingSomewhere, EntriesWaitOrAnswered, Answered,
                HeldNotQueued, UnseenNowhere
<1>. QED  BY <1>same, <1>1, <1>2, <1>3, <1>4, <1>5, <1>6, <1>7, <1>8 DEF
    StoreNext

LEMMA StoreInvariant == StoreSpec => []StoreInv
<1>. QED  BY StoreInvInit, StoreInvStep, PTL DEF StoreSpec

-----------------------------------------------------------------------------
\* The store never leaves its type.
THEOREM StoreTypeCorrect == StoreSpec => []StoreTypeOK
<1>1. StoreInv => StoreTypeOK
  BY DEF StoreInv
<1>. QED  BY <1>1, StoreInvariant, PTL

\* In any order of calls a pending task is with the caller that popped it, or
\* in the queue behind tasks that wait or were answered late, and no others.
THEOREM PendingInLineHolds == StoreSpec => []PendingInLine
<1>1. StoreInv => PendingInLine
  <2>. SUFFICES ASSUME StoreInv, NEW t \in Task, status[t] = "pending", t \notin taken
                PROVE  \E i \in DOMAIN pendingQ :
                          /\ pendingQ[i] = t
                          /\ \A j \in 1 .. (i - 1) :
                                \/ status[pendingQ[j]] = "pending"
                                \/ Answered(pendingQ[j])
    BY DEF PendingInLine
  <2>1. PICK i \in DOMAIN pendingQ : pendingQ[i] = t
    BY DEF StoreInv, PendingSomewhere, Queued
  <2>2. pendingQ \in Seq(Task)
    BY DEF StoreInv, StoreTypeOK
  <2>3. ASSUME NEW j \in 1 .. (i - 1)
        PROVE  status[pendingQ[j]] = "pending" \/ Answered(pendingQ[j])
    <3>1. j \in DOMAIN pendingQ /\ pendingQ[j] \in Task
      BY <2>1, <2>2
    <3>. QED  BY <3>1 DEF StoreInv, EntriesWaitOrAnswered, Queued
  <2>. QED  BY <2>1, <2>3
<1>. QED  BY <1>1, StoreInvariant, PTL

\* No task has two entries in the pending queue.
THEOREM QueuedOnceHolds == StoreSpec => []QueuedOnce
<1>1. StoreInv => QueuedOnce
  BY DEF StoreInv
<1>. QED  BY <1>1, StoreInvariant, PTL

\* A task a worker holds has no entry in the pending queue.
THEOREM HeldNotQueuedHolds == StoreSpec => []HeldNotQueued
<1>1. StoreInv => HeldNotQueued
  BY DEF StoreInv
<1>. QED  BY <1>1, StoreInvariant, PTL

\* One step of the store leaves finished tasks finished.
LEMMA FinishedStep ==
    StoreInv /\ [StoreNext]_storeVars =>
        [\A t \in Task : Finished(t) => Finished(t)']_storeVars
<1>. SUFFICES ASSUME StoreInv, StoreNext, NEW u \in Task, Finished(u)
              PROVE  Finished(u)'
  OBVIOUS
<1>. USE DEF StoreInv, StoreTypeOK, Known, Finished, Status, Active, Final
<1>1. ASSUME NEW t \in Task, CreateTask(t) PROVE Finished(u)'
  BY <1>1 DEF CreateTask
<1>2. ASSUME NEW t \in Task, StartTask(t) PROVE Finished(u)'
  BY <1>2 DEF StartTask
<1>3. ASSUME NEW t \in Task, ReportResult(t) PROVE Finished(u)'
  BY <1>3 DEF ReportResult, CompleteTask, FailTask, Finish
<1>4. ASSUME NEW t \in Task, CancelTask(t) PROVE Finished(u)'
  BY <1>4 DEF CancelTask, storeVars
<1>5. ASSUME NEW t \in Task, ReassignTask(t) PROVE Finished(u)'
  BY <1>5 DEF ReassignTask, storeVars
<1>6. ASSUME NEW t \in Task, NEW w \in Worker, AssignTask(t, w)
      PROVE  Finished(u)'
  BY <1>6 DEF AssignTask, storeVars
<1>7. ASSUME NEW w \in Worker, ReassignWorkerTasks(w) PROVE Finished(u)'
  BY <1>7 DEF ReassignWorkerTasks, WorkerTasks
<1>8. CASE PopPending
  BY <1>8 DEF PopPending
<1>. QED  BY <1>1, <1>2, <1>3, <1>4, <1>5, <1>6, <1>7, <1>8 DEF StoreNext

\* Late results, reassignments and cancellations never reopen a finished task.
THEOREM FinishedStaysFinishedHolds == StoreSpec => FinishedStaysFinished
<1>. QED  BY StoreInvariant, FinishedStep, PTL DEF StoreSpec,
    FinishedStaysFinished
=============================================================================
