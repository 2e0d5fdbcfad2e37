--------------------------- MODULE Dispatch_proofs ---------------------------
(***************************************************************************)
(* What holds of the composed dispatcher for any tasks, workers, sessions, *)
(* capacities and faults: it drives the task store only as StoreSpec       *)
(* allows, so what is proved of the queue and the recorded status holds of *)
(* it, and only a task that was scanned is shown as completed.             *)
(* If heartbeats are never late, no task is left with a worker that is     *)
(* gone (OrphanInv); if no connection breaks, a task is at one place only  *)
(* (HolderInv).                                                            *)
(***************************************************************************)
EXTENDS Dispatch, TaskStore_proofs, FiniteSetTheorems

USE DEF storeVars, storeState, netState, clientState, handlerState,
        TickUnchanged, HandlerUnchanged, ClientUnchanged

-----------------------------------------------------------------------------
(* Messages on their way.                                                  *)

Contents(q) == {q[i] : i \in DOMAIN q}

(* A message put at the end of a connection is the only new one.           *)
LEMMA AppendContents ==
  ASSUME NEW q \in Seq(Message), NEW m \in Message
  PROVE  /\ Append(q, m) \in Seq(Message)
         /\ Contents(Append(q, m)) \subseteq Contents(q) \cup {m}
<1>1. /\ Append(q, m) \in Seq(Message)
      /\ DOMAIN Append(q, m) = 1 .. Len(q) + 1
      /\ \A i \in 1 .. Len(q) : Append(q, m)[i] = q[i]
      /\ Append(q, m)[Len(q) + 1] = m
  OBVIOUS
<1>. QED
  BY <1>1 DEF Contents

(* Reading takes the first message and adds none.                          *)
LEMMA TailContents ==
  ASSUME NEW q \in Seq(Message), q # <<>>
  PROVE  /\ Tail(q) \in Seq(Message)
         /\ Contents(Tail(q)) \subseteq Contents(q)
         /\ Head(q) \in Contents(q)
<1>1. /\ Tail(q) \in Seq(Message)
      /\ DOMAIN Tail(q) = 1 .. Len(q) - 1
      /\ \A i \in 1 .. Len(q) - 1 : Tail(q)[i] = q[i + 1]
      /\ Head(q) = q[1] /\ Len(q) \in Nat /\ Len(q) > 0
      /\ DOMAIN q = 1 .. Len(q)
  OBVIOUS
<1>2. Head(q) \in Contents(q)
  BY <1>1 DEF Contents
<1>3. ASSUME NEW i \in DOMAIN Tail(q) PROVE Tail(q)[i] \in Contents(q)
  <2>1. i + 1 \in DOMAIN q /\ Tail(q)[i] = q[i + 1]
    BY <1>1
  <2>. QED
    BY <2>1 DEF Contents
<1>. QED
  BY <1>1, <1>2, <1>3 DEF Contents

(* A broken connection adds no message.                                    *)
LEMMA PrefixContents ==
  ASSUME NEW q \in Seq(Message), NEW p \in Prefixes(q)
  PROVE  p \in Seq(Message) /\ Contents(p) \subseteq Contents(q)
<1>1. PICK n \in 0 .. Len(q) : p = SubSeq(q, 1, n)
  BY DEF Prefixes
<1>2. /\ p \in Seq(Message)
      /\ DOMAIN p = 1 .. n
      /\ \A i \in 1 .. n : p[i] = q[i]
  BY <1>1
<1>3. DOMAIN q = 1 .. Len(q) /\ Len(q) \in Nat
  OBVIOUS
<1>. QED
  BY <1>2, <1>3 DEF Contents

(* The kinds of messages.                                                  *)
LEMMA MessageKinds ==
  ASSUME NEW t \in Task, NEW o \in {"completed", "failed"}
  PROVE  /\ {RegisterMsg, PullMsg, ReplyMsg, ResultMsg(t, o), AssignMsg(t)} \subseteq Message
         /\ ResultMsg(t, o).type = "result" /\ ResultMsg(t, o).task = t
         /\ ResultMsg(t, o).outcome = o
         /\ AssignMsg(t).type = "assign" /\ AssignMsg(t).task = t
BY DEF Message, ResultMsg, AssignMsg

(* The messages without a task.                                            *)
LEMMA PlainKinds ==
  /\ {RegisterMsg, PullMsg, ReplyMsg} \subseteq Message
  /\ RegisterMsg.type = "register" /\ PullMsg.type = "pull" /\ ReplyMsg.type = "reply"
BY DEF Message, RegisterMsg, PullMsg, ReplyMsg

-----------------------------------------------------------------------------
(* The invariant.                                                          *)

(* What a scheduling pass knows once it has picked a task, once it has     *)
(* assigned it, and once it has a connection to write to; handed is what   *)
(* the store handed out.                                                   *)
PassReady(r, handed) ==
    /\ r.pc \notin {"off", "list", "next"} => r.task \in Task
    /\ r.pc \in {"conn", "write", "undo", "count"} =>
          r.worker \in Worker /\ r.task \in handed
    /\ r.pc = "write" => r.conn \in Session

(* A handler belongs to a worker, and every pass knows what it needs.      *)
ReadyInv ==
    /\ \A s \in Session : handler[s] # "none" => uuid[s] \in Worker
    /\ \A th \in Thread : PassReady(tick[th], handedOut)

(* Whatever names a task - an assignment, a runner, a result - names one   *)
(* that the store handed out, and says "completed" only of one that ran.   *)
TaskInv ==
    \A s \in Session :
        /\ \A m \in Contents(toWorker[s]) : m.type = "assign" => m.task \in handedOut
        /\ \A m \in Contents(toMaster[s]) :
              m.type = "result" =>
                  /\ m.task \in handedOut
                  /\ m.outcome = "completed" => ran[m.task] = "completed"
        /\ \A t \in Task :
              /\ runners[s][t] # "none" => t \in handedOut
              /\ runners[s][t] = "completed" => ran[t] = "completed"

-----------------------------------------------------------------------------
(* What a step does to each part of the state.                             *)

(* Each step makes one call of the store, or none.                         *)
LEMMA StoreSimulates ==
  ASSUME TypeOK, ReadyInv, TaskInv, Next
  PROVE  [StoreNext]_storeVars
<1>0. Next
  OBVIOUS
<1>1. ASSUME NEW t \in Task, Create(t)
      PROVE  [StoreNext]_storeVars
  BY <1>1 DEF Create, StoreNext
<1>2. ASSUME NEW t \in Task, Cancel(t)
      PROVE  [StoreNext]_storeVars
  BY <1>2 DEF Cancel, StoreNext
<1>3. ASSUME NEW th \in Thread, NEW w \in Worker, TickAssign(th, w)
      PROVE  [StoreNext]_storeVars
  <2>1. tick[th].task \in Task /\ AssignTask(tick[th].task, w)
    BY <1>3 DEF TickAssign, ReadyInv, PassReady
  <2>. QED
    BY <2>1 DEF StoreNext
<1>4. ASSUME NEW th \in Thread, TickUndo(th)
      PROVE  [StoreNext]_storeVars
  <2>1. tick[th].task \in Task /\ ReassignTask(tick[th].task)
    BY <1>4 DEF TickUndo, ReadyInv, PassReady
  <2>. QED
    BY <2>1 DEF StoreNext
<1>5. ASSUME NEW s \in Session, HandleResult(s)
      PROVE  [StoreNext]_storeVars
  <2>1. PICK t \in Task, o \in {"completed", "failed"} :
           Reads(s, ResultMsg(t, o)) /\ StoreResult(t, o)
    BY <1>5 DEF HandleResult
  <2>2. toMaster[s] \in Seq(Message) /\ toMaster[s] # <<>> /\ ResultMsg(t, o) = Head(toMaster[s])
    BY <2>1 DEF Reads, TypeOK
  <2>3. ResultMsg(t, o) \in Contents(toMaster[s])
    BY <2>2, TailContents
  <2>4. t \in handedOut
    BY <2>3, MessageKinds DEF TaskInv
  <2>5. ReportResult(t)
    BY <2>1, <2>4 DEF ReportResult, StoreResult
  <2>. QED
    BY <2>5 DEF StoreNext
<1>6. ASSUME NEW s \in Session, Reassign(s)
      PROVE  [StoreNext]_storeVars
  <2>1. uuid[s] \in Worker /\ ReassignWorkerTasks(uuid[s])
    BY <1>6 DEF Reassign, ReadyInv, PassReady
  <2>. QED
    BY <2>1 DEF StoreNext
<1>7. ASSUME ~(\/ \E t \in Task : Create(t)
               \/ \E t \in Task : Cancel(t)
               \/ \E th \in Thread, w \in Worker : TickAssign(th, w)
               \/ \E th \in Thread : TickUndo(th)
               \/ \E s \in Session : HandleResult(s)
               \/ \E s \in Session : Reassign(s))
      PROVE  UNCHANGED storeVars
  <2>1. ASSUME NEW th \in Thread, TickStep(th) PROVE UNCHANGED storeVars
    BY <1>7, <2>1 DEF TickStep, TickList, TickNext, TickGetConn, TickWrite,
       TickCount
  <2>2. ASSUME NEW s \in Session, HandlerStep(s) PROVE UNCHANGED storeVars
    BY <1>7, <2>2 DEF HandlerStep, HandleRegister, SetConn, Respond,
       DecrementRunningTasks, AckResult, HandlePull, Disconnect,
       ResetRunningTasks
  <2>3. ASSUME NEW s \in Session, ReadLoop(s) PROVE UNCHANGED storeVars
    BY <1>7, <2>3 DEF ReadLoop, FinishRegistration, SkipReply, AcceptTask,
       RejectTask, StopClient
  <2>4. ASSUME NEW s \in Session, ReportLoop(s) PROVE UNCHANGED storeVars
    BY <1>7, <2>4 DEF ReportLoop, SendResult, ForgetTask, PullNext
  <2>5. ASSUME \/ \E t \in Task : Create(t) \/ Cancel(t)
               \/ \E s \in Session : BreakLink(s)
               \/ \E s \in Session, w \in Worker : StartClient(s, w)
               \/ \E s \in Session, t \in Task : RunnerStep(s, t) \/ RunnerHangs(s, t)
               \/ \E w \in Worker : MarkOffline(w)
        PROVE  UNCHANGED storeVars
    BY <1>7, <2>5 DEF RunnerStep, BreakLink, StartClient, RunnerEnds,
       RunnerHangs, MarkOffline
  <2>. QED
    BY <1>0, <2>1, <2>2, <2>3, <2>4, <2>5 DEF Next
<1>. QED
  BY <1>1, <1>2, <1>3, <1>4, <1>5, <1>6, <1>7

(* A task that was handed out stays so.                                    *)
LEMMA HandedGrows == ASSUME [StoreNext]_storeVars PROVE handedOut \subseteq handedOut'
BY DEF StoreNext, CreateTask, AssignTask, StartTask, ReportResult, CompleteTask, FailTask,
       Finish, CancelTask, ReassignTask, ReassignWorkerTasks, PopPending

(* A write of the master, to whatever connection, adds its message at most.*)
LEMMA WriteAdds ==
  ASSUME TypeOK, NEW c, NEW m \in Message, NEW ok, MasterWrites(c, m, ok)
  PROVE  /\ toWorker' \in [Session -> Seq(Message)]
         /\ \A x \in Session : Contents(toWorker'[x]) \subseteq Contents(toWorker[x]) \cup {m}
<1>1. CASE UNCHANGED toWorker
  BY <1>1 DEF TypeOK
<1>2. CASE toWorker' = [toWorker EXCEPT ![c] = Append(@, m)]
  <2>1. ASSUME NEW x \in Session
        PROVE  /\ toWorker'[x] \in Seq(Message)
               /\ Contents(toWorker'[x]) \subseteq Contents(toWorker[x]) \cup {m}
    <3>1. toWorker[x] \in Seq(Message)
      BY DEF TypeOK
    <3>2. toWorker'[x] = toWorker[x] \/ toWorker'[x] = Append(toWorker[x], m)
      BY <1>2 DEF TypeOK
    <3>. QED
      BY ZenonT(60), <3>1, <3>2, AppendContents
  <2>2. toWorker' = [x \in Session |-> toWorker'[x]]
    BY <1>2 DEF TypeOK
  <2>. QED
    BY <2>1, <2>2
<1>. QED
  BY <1>1, <1>2 DEF MasterWrites

(* So does a write of a client.                                            *)
LEMMA SendAdds ==
  ASSUME TypeOK, NEW s \in Session, NEW m \in Message, ClientSends(s, m)
  PROVE  /\ toMaster' \in [Session -> Seq(Message)]
         /\ \A x \in Session :
               Contents(toMaster'[x]) \subseteq
                  Contents(toMaster[x]) \cup (IF x = s THEN {m} ELSE {})
<1>1. ASSUME NEW x \in Session
      PROVE  /\ toMaster'[x] \in Seq(Message)
             /\ Contents(toMaster'[x]) \subseteq
                   Contents(toMaster[x]) \cup (IF x = s THEN {m} ELSE {})
  <2>1. toMaster[x] \in Seq(Message)
    BY DEF TypeOK
  <2>2. \/ toMaster'[x] = toMaster[x]
        \/ x = s /\ toMaster'[x] = Append(toMaster[x], m)
    BY DEF ClientSends, TypeOK
  <2>. QED
    BY ZenonT(60), <2>1, <2>2, AppendContents
<1>2. toMaster' = [x \in Session |-> toMaster'[x]]
  BY DEF ClientSends, TypeOK
<1>. QED
  BY <1>1, <1>2

(* A handler takes a message off its connection.                           *)
LEMMA ReadsDrops ==
  ASSUME TypeOK, NEW s \in Session, NEW m, Reads(s, m)
  PROVE  /\ toMaster' \in [Session -> Seq(Message)]
         /\ \A x \in Session : Contents(toMaster'[x]) \subseteq Contents(toMaster[x])
         /\ m \in Contents(toMaster[s])
<1>1. toMaster[s] \in Seq(Message) /\ toMaster[s] # <<>> /\ m = Head(toMaster[s])
  BY DEF Reads, TypeOK
<1>2. toMaster' = [toMaster EXCEPT ![s] = Tail(toMaster[s])]
  BY DEF Reads
<1>. QED
  BY <1>1, <1>2, TailContents DEF TypeOK

(* A client takes one off its own.                                         *)
LEMMA ClientReadsDrops ==
  ASSUME TypeOK, NEW s \in Session, ClientReads(s)
  PROVE  /\ toWorker' \in [Session -> Seq(Message)]
         /\ \A x \in Session : Contents(toWorker'[x]) \subseteq Contents(toWorker[x])
         /\ Head(toWorker[s]) \in Contents(toWorker[s])
<1>1. toWorker[s] \in Seq(Message) /\ toWorker[s] # <<>>
  BY DEF ClientReads, TypeOK
<1>2. toWorker' = [toWorker EXCEPT ![s] = Tail(toWorker[s])]
  BY DEF ClientReads
<1>. QED
  BY <1>1, <1>2, TailContents DEF TypeOK

(* What the master has sent after a step: what it had, replies, and the    *)
(* assignment of a pass that is writing.                                   *)
SentToWorkers ==
    /\ toWorker' \in [Session -> Seq(Message)]
    /\ \A x \in Session : \A m \in Contents(toWorker'[x]) :
          \/ m \in Contents(toWorker[x])
          \/ m = ReplyMsg
          \/ \E th \in Thread : tick[th].pc = "write" /\ m = AssignMsg(tick[th].task)

(* Only replies and assignments are sent to a client.                      *)
LEMMA WorkerMail ==
  ASSUME TypeOK, ReadyInv, Next
  PROVE  SentToWorkers
<1>0. Next
  OBVIOUS
<1>1. ASSUME NEW th \in Thread, TickWrite(th)
      PROVE  SentToWorkers
  <2>1. PICK ok \in BOOLEAN : MasterWrites(tick[th].conn, AssignMsg(tick[th].task), ok)
    BY <1>1 DEF TickWrite
  <2>2. tick[th].pc = "write" /\ tick[th].task \in Task
    BY <1>1 DEF TickWrite, ReadyInv, PassReady
  <2>3. AssignMsg(tick[th].task) \in Message
    BY <2>2, MessageKinds
  <2>. QED
    BY ZenonT(120), <2>1, <2>2, <2>3, WriteAdds DEF SentToWorkers
<1>2. ASSUME NEW s \in Session, Respond(s)
      PROVE  SentToWorkers
  <2>1. PICK ok \in BOOLEAN : MasterWrites(s, ReplyMsg, ok)
    BY <1>2 DEF Respond
  <2>. QED
    BY <2>1, PlainKinds, WriteAdds DEF SentToWorkers
<1>3. ASSUME NEW s \in Session, AckResult(s)
      PROVE  SentToWorkers
  <2>1. CASE UNCHANGED toWorker
    BY <2>1 DEF SentToWorkers, TypeOK
  <2>2. ASSUME NEW c, NEW ok, MasterWrites(c, ReplyMsg, ok) PROVE SentToWorkers
    BY <2>2, PlainKinds, WriteAdds DEF SentToWorkers
  <2>. QED
    BY <1>3, <2>1, <2>2 DEF AckResult, MasterReplies
<1>4. ASSUME NEW s \in Session, FinishRegistration(s)
      PROVE  SentToWorkers
  BY <1>4, ClientReadsDrops DEF SentToWorkers, FinishRegistration
<1>5. ASSUME NEW s \in Session, SkipReply(s)
      PROVE  SentToWorkers
  BY <1>5, ClientReadsDrops DEF SentToWorkers, SkipReply
<1>6. ASSUME NEW s \in Session, NEW t \in Task, AcceptTask(s, t)
      PROVE  SentToWorkers
  BY <1>6, ClientReadsDrops DEF SentToWorkers, AcceptTask
<1>7. ASSUME NEW s \in Session, NEW t \in Task, RejectTask(s, t)
      PROVE  SentToWorkers
  BY <1>7, ClientReadsDrops DEF SentToWorkers, RejectTask
<1>8. ASSUME NEW s \in Session, BreakLink(s)
      PROVE  SentToWorkers
  <2>1. PICK q \in Prefixes(toWorker[s]) : toWorker' = [toWorker EXCEPT ![s] = q]
    BY <1>8 DEF BreakLink
  <2>2. q \in Seq(Message) /\ Contents(q) \subseteq Contents(toWorker[s])
    BY PrefixContents DEF TypeOK
  <2>. QED
    BY <2>1, <2>2 DEF SentToWorkers, TypeOK
<1>9. ASSUME ~(\/ \E th \in Thread : TickWrite(th)
               \/ \E s \in Session : Respond(s)
               \/ \E s \in Session : AckResult(s)
               \/ \E s \in Session : FinishRegistration(s)
               \/ \E s \in Session : SkipReply(s)
               \/ \E s \in Session, t \in Task : AcceptTask(s, t)
               \/ \E s \in Session, t \in Task : RejectTask(s, t)
               \/ \E s \in Session : BreakLink(s))
      PROVE  UNCHANGED toWorker
  <2>1. ASSUME NEW th \in Thread, TickStep(th) PROVE UNCHANGED toWorker
    BY <1>9, <2>1 DEF TickStep, TickList, TickNext, TickAssign, TickGetConn,
       TickUndo, TickCount
  <2>2. ASSUME NEW s \in Session, HandlerStep(s) PROVE UNCHANGED toWorker
    BY <1>9, <2>2 DEF HandlerStep, HandleRegister, SetConn, HandleResult,
       DecrementRunningTasks, HandlePull, Disconnect, Reassign,
       ResetRunningTasks
  <2>3. ASSUME NEW s \in Session, ReadLoop(s) PROVE UNCHANGED toWorker
    BY <1>9, <2>3 DEF ReadLoop, StopClient
  <2>4. ASSUME NEW s \in Session, ReportLoop(s) PROVE UNCHANGED toWorker
    BY <1>9, <2>4 DEF ReportLoop, SendResult, ForgetTask, PullNext
  <2>5. ASSUME \/ \E t \in Task : Create(t) \/ Cancel(t)
               \/ \E s \in Session : BreakLink(s)
               \/ \E s \in Session, w \in Worker : StartClient(s, w)
               \/ \E s \in Session, t \in Task : RunnerStep(s, t) \/ RunnerHangs(s, t)
               \/ \E w \in Worker : MarkOffline(w)
        PROVE  UNCHANGED toWorker
    BY <1>9, <2>5 DEF RunnerStep, Create, Cancel, StartClient, RunnerEnds,
       RunnerHangs, MarkOffline
  <2>. QED
    BY <1>0, <2>1, <2>2, <2>3, <2>4, <2>5 DEF Next
<1>. QED
  BY <1>1, <1>2, <1>3, <1>4, <1>5, <1>6, <1>7, <1>8, <1>9 DEF SentToWorkers,
     TypeOK

(* What the clients have sent: what they had, registrations and pulls, the *)
(* rejection of an assignment they read, and the outcome of a runner.      *)
SentToMaster ==
    /\ toMaster' \in [Session -> Seq(Message)]
    /\ \A x \in Session : \A m \in Contents(toMaster'[x]) :
          \/ m \in Contents(toMaster[x])
          \/ m \in {RegisterMsg, PullMsg}
          \/ \E t \in Task :
                \/ m = ResultMsg(t, "failed") /\ AssignMsg(t) \in Contents(toWorker[x])
                \/ /\ runners[x][t] \in {"completed", "failed"}
                   /\ m = ResultMsg(t, runners[x][t])

(* A client reports only what it was assigned or has run.                  *)
LEMMA MasterMail ==
  ASSUME TypeOK, Next
  PROVE  SentToMaster
<1>0. Next
  OBVIOUS
<1>1. ASSUME NEW s \in Session, HandleRegister(s)
      PROVE  SentToMaster
  BY <1>1, ReadsDrops DEF SentToMaster, HandleRegister
<1>2. ASSUME NEW s \in Session, HandleResult(s)
      PROVE  SentToMaster
  BY <1>2, ReadsDrops DEF SentToMaster, HandleResult
<1>3. ASSUME NEW s \in Session, HandlePull(s)
      PROVE  SentToMaster
  BY <1>3, ReadsDrops DEF SentToMaster, HandlePull
<1>4. ASSUME NEW s \in Session, NEW w \in Worker, StartClient(s, w)
      PROVE  SentToMaster
  <2>1. /\ <<RegisterMsg>> \in Seq(Message)
        /\ DOMAIN <<RegisterMsg>> = 1 .. 1 /\ <<RegisterMsg>>[1] = RegisterMsg
    BY PlainKinds
  <2>2. Contents(<<RegisterMsg>>) = {RegisterMsg}
    BY <2>1 DEF Contents
  <2>. QED
    BY ZenonT(60), <1>4, <2>1, <2>2 DEF SentToMaster, StartClient, TypeOK
<1>5. ASSUME NEW s \in Session, FinishRegistration(s)
      PROVE  SentToMaster
  BY <1>5, PlainKinds, SendAdds DEF SentToMaster, FinishRegistration
<1>6. ASSUME NEW s \in Session, NEW t \in Task, RejectTask(s, t)
      PROVE  SentToMaster
  <2>1. AssignMsg(t) \in Contents(toWorker[s])
    BY <1>6, ClientReadsDrops DEF RejectTask
  <2>2. ClientSends(s, ResultMsg(t, "failed")) /\ ResultMsg(t, "failed") \in Message
    BY <1>6, MessageKinds DEF RejectTask
  <2>. QED
    BY ZenonT(60), <2>1, <2>2, SendAdds DEF SentToMaster
<1>7. ASSUME NEW s \in Session, NEW t \in Task, SendResult(s, t)
      PROVE  SentToMaster
  <2>1. runners[s][t] \in {"completed", "failed"}
    BY <1>7 DEF SendResult
  <2>2. ClientSends(s, ResultMsg(t, runners[s][t])) /\ ResultMsg(t, runners[s][t]) \in Message
    BY <1>7, <2>1, MessageKinds DEF SendResult
  <2>. QED
    BY ZenonT(120), <2>1, <2>2, SendAdds DEF SentToMaster
<1>8. ASSUME NEW s \in Session, PullNext(s)
      PROVE  SentToMaster
  BY <1>8, PlainKinds, SendAdds DEF SentToMaster, PullNext
<1>9. ASSUME NEW s \in Session, BreakLink(s)
      PROVE  SentToMaster
  <2>1. PICK q \in Prefixes(toMaster[s]) : toMaster' = [toMaster EXCEPT ![s] = q]
    BY <1>9 DEF BreakLink
  <2>2. q \in Seq(Message) /\ Contents(q) \subseteq Contents(toMaster[s])
    BY PrefixContents DEF TypeOK
  <2>. QED
    BY <2>1, <2>2 DEF SentToMaster, TypeOK
<1>10. ASSUME ~(\/ \E s \in Session : HandleRegister(s)
                \/ \E s \in Session : HandleResult(s)
                \/ \E s \in Session : HandlePull(s)
                \/ \E s \in Session, w \in Worker : StartClient(s, w)
                \/ \E s \in Session : FinishRegistration(s)
                \/ \E s \in Session, t \in Task : RejectTask(s, t)
                \/ \E s \in Session, t \in Task : SendResult(s, t)
                \/ \E s \in Session : PullNext(s)
                \/ \E s \in Session : BreakLink(s))
      PROVE  UNCHANGED toMaster
  <2>1. ASSUME NEW th \in Thread, TickStep(th) PROVE UNCHANGED toMaster
    BY <1>10, <2>1 DEF TickStep, TickList, TickNext, TickAssign, TickGetConn,
       TickWrite, TickUndo, TickCount
  <2>2. ASSUME NEW s \in Session, HandlerStep(s) PROVE UNCHANGED toMaster
    BY <1>10, <2>2 DEF HandlerStep, SetConn, Respond, DecrementRunningTasks,
       AckResult, Disconnect, Reassign, ResetRunningTasks
  <2>3. ASSUME NEW s \in Session, ReadLoop(s) PROVE UNCHANGED toMaster
    BY <1>10, <2>3 DEF ReadLoop, SkipReply, AcceptTask, StopClient
  <2>4. ASSUME NEW s \in Session, ReportLoop(s) PROVE UNCHANGED toMaster
    BY <1>10, <2>4 DEF ReportLoop, ForgetTask
  <2>5. ASSUME \/ \E t \in Task : Create(t) \/ Cancel(t)
               \/ \E s \in Session : BreakLink(s)
               \/ \E s \in Session, w \in Worker : StartClient(s, w)
               \/ \E s \in Session, t \in Task : RunnerStep(s, t) \/ RunnerHangs(s, t)
               \/ \E w \in Worker : MarkOffline(w)
        PROVE  UNCHANGED toMaster
    BY <1>10, <2>5 DEF RunnerStep, Create, Cancel, RunnerEnds, RunnerHangs,
       MarkOffline
  <2>. QED
    BY SMTT(120), <1>0, <2>1, <2>2, <2>3, <2>4, <2>5 DEF Next
<1>. QED
  BY <1>1, <1>2, <1>3, <1>4, <1>5, <1>6, <1>7, <1>8, <1>9, <1>10 DEF
     SentToMaster, TypeOK

(* A runner starts with an assignment its client has read, and ends as     *)
(* completed only by scanning the task.                                    *)
RunnersMove ==
    /\ runners' \in [Session -> [Task -> {"none", "working", "completed", "failed", "hung"}]]
    /\ ran' \in [Task -> {"never", "started", "completed"}]
    /\ \A t \in Task : ran[t] = "completed" => ran'[t] = "completed"
    /\ \A x \in Session, t \in Task :
          /\ runners'[x][t] # "none" =>
                runners[x][t] # "none" \/ AssignMsg(t) \in Contents(toWorker[x])
          /\ runners'[x][t] = "completed" =>
                runners[x][t] = "completed" \/ ran'[t] = "completed"

(* The steps of clients and runners.                                       *)
LEMMA RunnerMoves ==
  ASSUME TypeOK, Next
  PROVE  RunnersMove
<1>0. Next
  OBVIOUS
<1>1. ASSUME NEW s \in Session, NEW t \in Task, AcceptTask(s, t)
      PROVE  RunnersMove
  <2>1. AssignMsg(t) \in Contents(toWorker[s])
    BY <1>1, ClientReadsDrops DEF AcceptTask
  <2>. QED
    BY <1>1, <2>1 DEF AcceptTask, RunnersMove, TypeOK
<1>2. ASSUME NEW s \in Session, StopClient(s)
      PROVE  RunnersMove
  BY <1>2 DEF StopClient, NoRunners, RunnersMove, TypeOK
<1>3. ASSUME NEW s \in Session, ForgetTask(s)
      PROVE  RunnersMove
  BY ZenonT(60), <1>3 DEF ForgetTask, RunnersMove, TypeOK
<1>4. ASSUME NEW s \in Session, NEW t \in Task, NEW o \in {"completed", "failed"}, RunnerEnds(s, t, o)
      PROVE  RunnersMove
  BY <1>4 DEF RunnerEnds, RunnersMove, TypeOK
<1>5. ASSUME NEW s \in Session, NEW t \in Task, RunnerHangs(s, t)
      PROVE  RunnersMove
  BY <1>5 DEF RunnerHangs, RunnersMove, TypeOK
<1>6. ASSUME ~(\/ \E s \in Session, t \in Task : AcceptTask(s, t)
               \/ \E s \in Session : StopClient(s)
               \/ \E s \in Session : ForgetTask(s)
               \/ \E s \in Session, t \in Task, o \in {"completed", "failed"} : RunnerEnds(s, t, o)
               \/ \E s \in Session, t \in Task : RunnerHangs(s, t))
      PROVE  UNCHANGED <<runners, ran>>
  <2>1. ASSUME NEW th \in Thread, TickStep(th) PROVE UNCHANGED <<runners, ran>>
    BY <1>6, <2>1 DEF TickStep, TickList, TickNext, TickAssign, TickGetConn,
       TickWrite, TickUndo, TickCount
  <2>2. ASSUME NEW s \in Session, HandlerStep(s) PROVE UNCHANGED <<runners, ran>>
    BY <1>6, <2>2 DEF HandlerStep, HandleRegister, SetConn, Respond,
       HandleResult, DecrementRunningTasks, AckResult, HandlePull, Disconnect,
       Reassign, ResetRunningTasks
  <2>3. ASSUME NEW s \in Session, ReadLoop(s) PROVE UNCHANGED <<runners, ran>>
    BY <1>6, <2>3 DEF ReadLoop, FinishRegistration, SkipReply, RejectTask
  <2>4. ASSUME NEW s \in Session, ReportLoop(s) PROVE UNCHANGED <<runners, ran>>
    BY <1>6, <2>4 DEF ReportLoop, SendResult, PullNext
  <2>5. ASSUME \/ \E t \in Task : Create(t) \/ Cancel(t)
               \/ \E s \in Session : BreakLink(s)
               \/ \E s \in Session, w \in Worker : StartClient(s, w)
               \/ \E s \in Session, t \in Task : RunnerStep(s, t) \/ RunnerHangs(s, t)
               \/ \E w \in Worker : MarkOffline(w)
        PROVE  UNCHANGED <<runners, ran>>
    BY <1>6, <2>5 DEF RunnerStep, Create, Cancel, BreakLink, StartClient,
       MarkOffline
  <2>. QED
    BY <1>0, <2>1, <2>2, <2>3, <2>4, <2>5 DEF Next
<1>. QED
  BY <1>1, <1>2, <1>3, <1>4, <1>5, <1>6 DEF RunnersMove, TypeOK

(* So every message and every runner still names a task handed out.        *)
LEMMA TaskInvStep ==
  ASSUME TypeOK, ReadyInv, TaskInv, Next
  PROVE  TaskInv'
<1>1. SentToWorkers /\ SentToMaster /\ RunnersMove /\ handedOut \subseteq handedOut'
  BY WorkerMail, MasterMail, RunnerMoves, StoreSimulates, HandedGrows
<1>2. ASSUME NEW s \in Session, NEW m \in Contents(toWorker'[s]), m.type = "assign"
      PROVE  m.task \in handedOut'
  <2>1. CASE m \in Contents(toWorker[s])
    BY <1>1, <1>2, <2>1 DEF TaskInv
  <2>2. CASE m = ReplyMsg
    BY <1>2, <2>2, PlainKinds
  <2>3. ASSUME NEW th \in Thread, tick[th].pc = "write", m = AssignMsg(tick[th].task)
        PROVE  m.task \in handedOut'
    BY <1>1, <2>3, MessageKinds DEF ReadyInv, PassReady
  <2>. QED
    BY <1>1, <2>1, <2>2, <2>3 DEF SentToWorkers
<1>3. ASSUME NEW s \in Session, NEW m \in Contents(toMaster'[s]), m.type = "result"
      PROVE  /\ m.task \in handedOut'
             /\ m.outcome = "completed" => ran'[m.task] = "completed"
  <2>1. CASE m \in Contents(toMaster[s])
    <3>1. m.task \in handedOut /\ (m.outcome = "completed" => ran[m.task] = "completed")
      BY <1>3, <2>1 DEF TaskInv
    <3>2. m.task \in Task
      BY <3>1 DEF TypeOK, StoreTypeOK
    <3>. QED
      BY <1>1, <3>1, <3>2 DEF RunnersMove
  <2>2. CASE m \in {RegisterMsg, PullMsg}
    BY <1>3, <2>2, PlainKinds
  <2>3. ASSUME NEW t \in Task, m = ResultMsg(t, "failed"), AssignMsg(t) \in Contents(toWorker[s])
        PROVE  m.task \in handedOut' /\ m.outcome # "completed"
    BY <1>1, <2>3, MessageKinds DEF TaskInv
  <2>4. ASSUME NEW t \in Task, runners[s][t] \in {"completed", "failed"},
               m = ResultMsg(t, runners[s][t])
        PROVE  /\ m.task \in handedOut'
               /\ m.outcome = "completed" => ran'[m.task] = "completed"
    <3>1. m.task = t /\ m.outcome = runners[s][t]
      BY <2>4, MessageKinds
    <3>. QED
      BY <1>1, <2>4, <3>1 DEF TaskInv, RunnersMove
  <2>. QED
    BY <1>1, <2>1, <2>2, <2>3, <2>4 DEF SentToMaster
<1>4. ASSUME NEW s \in Session, NEW t \in Task
      PROVE  /\ runners'[s][t] # "none" => t \in handedOut'
             /\ runners'[s][t] = "completed" => ran'[t] = "completed"
  <2>1. AssignMsg(t) \in Contents(toWorker[s]) => t \in handedOut
    BY MessageKinds DEF TaskInv
  <2>. QED
    BY <1>1, <2>1 DEF TaskInv, RunnersMove
<1>. QED
  BY <1>2, <1>3, <1>4 DEF TaskInv


-----------------------------------------------------------------------------
(* The steps keep what handlers and passes know.                           *)

(* A handler starts with its worker's name and keeps it.                   *)
LEMMA HandlersStep ==
  ASSUME TypeOK, ReadyInv, Next
  PROVE  \A x \in Session : handler'[x] # "none" => uuid'[x] \in Worker
<1>0. Next
  OBVIOUS
<1>1. ASSUME NEW s \in Session, NEW w \in Worker, StartClient(s, w)
      PROVE  \A x \in Session : handler'[x] # "none" => uuid'[x] \in Worker
  BY <1>1 DEF StartClient, TypeOK, ReadyInv
<1>2. ASSUME NEW s \in Session, HandleRegister(s)
      PROVE  \A x \in Session : handler'[x] # "none" => uuid'[x] \in Worker
  BY <1>2 DEF HandleRegister, HandlerGoto, Reads, TypeOK, ReadyInv
<1>3. ASSUME NEW s \in Session, SetConn(s)
      PROVE  \A x \in Session : handler'[x] # "none" => uuid'[x] \in Worker
  BY <1>3 DEF SetConn, HandlerGoto, TypeOK, ReadyInv
<1>4. ASSUME NEW s \in Session, Respond(s)
      PROVE  \A x \in Session : handler'[x] # "none" => uuid'[x] \in Worker
  BY <1>4 DEF Respond, HandlerGoto, TypeOK, ReadyInv
<1>5. ASSUME NEW s \in Session, HandleResult(s)
      PROVE  \A x \in Session : handler'[x] # "none" => uuid'[x] \in Worker
  BY <1>5 DEF HandleResult, HandlerGoto, Reads, TypeOK, ReadyInv
<1>6. ASSUME NEW s \in Session, DecrementRunningTasks(s)
      PROVE  \A x \in Session : handler'[x] # "none" => uuid'[x] \in Worker
  BY <1>6 DEF DecrementRunningTasks, HandlerGoto, TypeOK, ReadyInv
<1>7. ASSUME NEW s \in Session, AckResult(s)
      PROVE  \A x \in Session : handler'[x] # "none" => uuid'[x] \in Worker
  BY <1>7 DEF AckResult, HandlerGoto, TypeOK, ReadyInv
<1>8. ASSUME NEW s \in Session, Disconnect(s)
      PROVE  \A x \in Session : handler'[x] # "none" => uuid'[x] \in Worker
  BY <1>8 DEF Disconnect, HandlerGoto, TypeOK, ReadyInv
<1>9. ASSUME NEW s \in Session, Reassign(s)
      PROVE  \A x \in Session : handler'[x] # "none" => uuid'[x] \in Worker
  BY <1>9 DEF Reassign, HandlerGoto, TypeOK, ReadyInv
<1>10. ASSUME NEW s \in Session, ResetRunningTasks(s)
      PROVE  \A x \in Session : handler'[x] # "none" => uuid'[x] \in Worker
  BY <1>10 DEF ResetRunningTasks, HandlerGoto, TypeOK, ReadyInv
<1>11. ASSUME ~(\/ \E s \in Session, w \in Worker : StartClient(s, w)
                \/ \E s \in Session : HandleRegister(s)
                \/ \E s \in Session : SetConn(s)
                \/ \E s \in Session : Respond(s)
                \/ \E s \in Session : HandleResult(s)
                \/ \E s \in Session : DecrementRunningTasks(s)
                \/ \E s \in Session : AckResult(s)
                \/ \E s \in Session : Disconnect(s)
                \/ \E s \in Session : Reassign(s)
                \/ \E s \in Session : ResetRunningTasks(s))
      PROVE  UNCHANGED <<handler, uuid>>
  <2>1. ASSUME NEW th \in Thread, TickStep(th) PROVE UNCHANGED <<handler, uuid>>
    BY <1>11, <2>1 DEF TickStep, TickList, TickNext, TickAssign, TickGetConn,
       TickWrite, TickUndo, TickCount
  <2>2. ASSUME NEW s \in Session, HandlerStep(s) PROVE UNCHANGED <<handler, uuid>>
    BY <1>11, <2>2 DEF HandlerStep, HandlePull
  <2>3. ASSUME NEW s \in Session, ReadLoop(s) PROVE UNCHANGED <<handler, uuid>>
    BY <1>11, <2>3 DEF ReadLoop, FinishRegistration, SkipReply, AcceptTask,
       RejectTask, StopClient
  <2>4. ASSUME NEW s \in Session, ReportLoop(s) PROVE UNCHANGED <<handler, uuid>>
    BY <1>11, <2>4 DEF ReportLoop, SendResult, ForgetTask, PullNext
  <2>5. ASSUME \/ \E t \in Task : Create(t) \/ Cancel(t)
               \/ \E s \in Session : BreakLink(s)
               \/ \E s \in Session, w \in Worker : StartClient(s, w)
               \/ \E s \in Session, t \in Task : RunnerStep(s, t) \/ RunnerHangs(s, t)
               \/ \E w \in Worker : MarkOffline(w)
        PROVE  UNCHANGED <<handler, uuid>>
    BY <1>11, <2>5 DEF RunnerStep, Create, Cancel, BreakLink, RunnerEnds,
       RunnerHangs, MarkOffline
  <2>. QED
    BY SMTT(120), <1>0, <2>1, <2>2, <2>3, <2>4, <2>5 DEF Next
<1>. QED
  BY <1>1, <1>2, <1>3, <1>4, <1>5, <1>6, <1>7, <1>8, <1>9, <1>10, <1>11 DEF
     ReadyInv

(* The record of a scheduling pass.                                        *)
Pass == [pc : {"off", "list", "next", "assign", "conn", "write", "undo", "count"},
         idle : SUBSET Worker, task : Task \cup {NoTask},
         worker : Worker \cup {NoWorker}, conn : Session \cup {NoSession}]

PassesKnow ==
    /\ tick' \in [Thread -> Pass]
    /\ \A x \in Thread : PassReady(tick'[x], handedOut')

(* A thread that goes to a pass that knows what it needs leaves every      *)
(* thread with such a pass.                                                *)
LEMMA GotoKnows ==
  ASSUME TypeOK, ReadyInv, NEW th \in Thread, NEW r \in Pass, TickGoto(th, r),
         PassReady(r, handedOut'), handedOut \subseteq handedOut'
  PROVE  PassesKnow
<1>1. tick \in [Thread -> Pass]
  BY DEF TypeOK, Pass
<1>2. tick' = [tick EXCEPT ![th] = r]
  BY DEF TickGoto
<1>3. tick' \in [Thread -> Pass]
  BY <1>1, <1>2
<1>4. ASSUME NEW x \in Thread PROVE PassReady(tick'[x], handedOut')
  <2>1. CASE x = th
    BY <1>1, <1>2, <2>1
  <2>2. CASE x # th
    BY <1>1, <1>2, <2>2 DEF ReadyInv, PassReady
  <2>. QED
    BY <2>1, <2>2
<1>. QED
  BY <1>3, <1>4 DEF PassesKnow

(* A pass at rest, or looking for its next task, needs to know nothing.    *)
LEMMA RestKnows ==
  ASSUME NEW th \in Thread, NEW S \in SUBSET Worker, NEW handed
  PROVE  /\ {Rest(th), [Rest(th) EXCEPT !.pc = "list"],
             [Rest(th) EXCEPT !.pc = "next", !.idle = S]} \subseteq Pass
         /\ PassReady(Rest(th), handed)
         /\ PassReady([Rest(th) EXCEPT !.pc = "list"], handed)
         /\ PassReady([Rest(th) EXCEPT !.pc = "next", !.idle = S], handed)
<1>1. Rest(th) \in Pass /\ Rest(th).pc \in {"list", "off"}
  BY DEF Rest, Pass
<1>2. /\ [Rest(th) EXCEPT !.pc = "list"] \in Pass
      /\ [Rest(th) EXCEPT !.pc = "list"].pc = "list"
  BY <1>1 DEF Pass
<1>3. /\ [Rest(th) EXCEPT !.pc = "next", !.idle = S] \in Pass
      /\ [Rest(th) EXCEPT !.pc = "next", !.idle = S].pc = "next"
  BY <1>1 DEF Pass
<1>. QED
  BY <1>1, <1>2, <1>3 DEF PassReady

(* The steps of the scheduling passes.                                     *)
LEMMA PassesStep ==
  ASSUME TypeOK, ReadyInv, TaskInv, Next
  PROVE  PassesKnow
<1>0. Next
  OBVIOUS
<1>a. handedOut \subseteq handedOut'
  BY StoreSimulates, HandedGrows
<1>b. \A x \in Thread : tick[x] \in Pass
  BY DEF TypeOK, Pass
<1>1. ASSUME NEW th \in Thread, TickList(th)
      PROVE  PassesKnow
  <2>1. IdleWorkers \in SUBSET Worker
    BY DEF IdleWorkers
  <2>2. CASE TickGoto(th, Rest(th))
    BY <1>a, <2>2, RestKnows, GotoKnows
  <2>3. CASE TickGoto(th, [Rest(th) EXCEPT !.pc = "next", !.idle = IdleWorkers])
    BY <1>a, <2>1, <2>3, RestKnows, GotoKnows
  <2>. QED
    BY <1>1, <2>2, <2>3 DEF TickList
<1>2. ASSUME NEW th \in Thread, TickNext(th)
      PROVE  PassesKnow
  <2>1. CASE TickGoto(th, Rest(th))
    BY <1>a, <2>1, RestKnows, GotoKnows
  <2>2. CASE pendingQ # <<>> /\ TickGoto(th, [tick[th] EXCEPT !.pc = "assign", !.task = Head(pendingQ)])
    <3>1. Head(pendingQ) \in Task
      BY <2>2 DEF TypeOK, StoreTypeOK
    <3>2. [tick[th] EXCEPT !.pc = "assign", !.task = Head(pendingQ)] \in Pass
      BY <1>b, <3>1 DEF Pass
    <3>3. PassReady([tick[th] EXCEPT !.pc = "assign", !.task = Head(pendingQ)], handedOut')
      BY <1>b, <3>1 DEF Pass, PassReady
    <3>. QED
      BY <1>a, <2>2, <3>2, <3>3, GotoKnows
  <2>. QED
    BY <1>2, <2>1, <2>2 DEF TickNext
<1>3. ASSUME NEW th \in Thread, NEW w \in Worker, TickAssign(th, w)
      PROVE  PassesKnow
  <2> DEFINE rest == tick[th].idle \ {w}
             given == [tick[th] EXCEPT !.pc = "conn", !.idle = rest, !.worker = w]
             skipped == [Rest(th) EXCEPT !.pc = "next", !.idle = rest]
  <2>1. rest \in SUBSET Worker
    BY <1>b DEF Pass
  <2>2. CASE status[tick[th].task] = "pending"
    <3>1. tick[th].task \in Task /\ tick[th].task \in handedOut'
      BY <1>3, <2>2 DEF TickAssign, AssignTask, ReadyInv, PassReady
    <3>2. given \in Pass
      BY <1>b, <2>1 DEF Pass
    <3>3. PassReady(given, handedOut')
      BY <1>b, <3>1 DEF Pass, PassReady
    <3>4. TickGoto(th, given)
      BY <1>3, <2>2 DEF TickAssign
    <3>. QED
      BY <1>a, <3>2, <3>3, <3>4, GotoKnows
  <2>3. CASE status[tick[th].task] # "pending"
    <3>1. TickGoto(th, skipped)
      BY <1>3, <2>3 DEF TickAssign
    <3>. QED
      BY <1>a, <2>1, <3>1, RestKnows, GotoKnows
  <2>. QED
    BY <2>2, <2>3
<1>4. ASSUME NEW th \in Thread, TickGetConn(th)
      PROVE  PassesKnow
  <2> DEFINE c == conns[tick[th].worker]
             undo == [tick[th] EXCEPT !.pc = "undo"]
             write == [tick[th] EXCEPT !.pc = "write", !.conn = c]
  <2>1. /\ tick[th].task \in Task /\ tick[th].task \in handedOut
        /\ tick[th].worker \in Worker
    BY <1>4 DEF TickGetConn, ReadyInv, PassReady
  <2>2. c \in Session \cup {NoSession}
    BY <2>1 DEF TypeOK
  <2>3. /\ undo \in Pass /\ write \in Pass
        /\ PassReady(undo, handedOut')
        /\ c # NoSession => PassReady(write, handedOut')
    BY <1>a, <1>b, <2>1, <2>2 DEF Pass, PassReady
  <2>4. IF c = NoSession THEN TickGoto(th, undo) ELSE TickGoto(th, write)
    BY <1>4 DEF TickGetConn
  <2>. QED
    BY <1>a, <2>3, <2>4, GotoKnows
<1>5. ASSUME NEW th \in Thread, TickWrite(th)
      PROVE  PassesKnow
  <2>1. PICK ok \in BOOLEAN :
           TickGoto(th, [tick[th] EXCEPT !.pc = IF ok THEN "count" ELSE "undo",
                                         !.conn = NoSession])
    BY <1>5 DEF TickWrite
  <2>2. /\ tick[th].task \in Task /\ tick[th].task \in handedOut
        /\ tick[th].worker \in Worker
    BY <1>5 DEF TickWrite, ReadyInv, PassReady
  <2> DEFINE r == [tick[th] EXCEPT !.pc = IF ok THEN "count" ELSE "undo",
                                   !.conn = NoSession]
  <2>3. r \in Pass /\ PassReady(r, handedOut')
    BY <1>a, <1>b, <2>2 DEF Pass, PassReady
  <2>. QED
    BY <1>a, <2>1, <2>3, GotoKnows
<1>6. ASSUME NEW th \in Thread, TickUndo(th)
      PROVE  PassesKnow
  <2>1. TickGoto(th, [Rest(th) EXCEPT !.pc = "next", !.idle = tick[th].idle])
    BY <1>6 DEF TickUndo
  <2>2. tick[th].idle \in SUBSET Worker
    BY <1>b DEF Pass
  <2>. QED
    BY <1>a, <2>1, <2>2, RestKnows, GotoKnows
<1>7. ASSUME NEW th \in Thread, TickCount(th)
      PROVE  PassesKnow
  <2>1. TickGoto(th, [Rest(th) EXCEPT !.pc = "next", !.idle = tick[th].idle])
    BY <1>7 DEF TickCount
  <2>2. tick[th].idle \in SUBSET Worker
    BY <1>b DEF Pass
  <2>. QED
    BY <1>a, <2>1, <2>2, RestKnows, GotoKnows
<1>8. ASSUME NEW s \in Session, HandlePull(s)
      PROVE  PassesKnow
  <2>1. TickGoto(s, [Rest(s) EXCEPT !.pc = "list"]) /\ s \in Thread
    BY <1>8 DEF HandlePull, TickGoto, Thread
  <2>2. {} \in SUBSET Worker
    OBVIOUS
  <2>. QED
    BY <1>a, <2>1, <2>2, RestKnows, GotoKnows
<1>9. ASSUME ~(\/ \E th \in Thread : TickList(th)
               \/ \E th \in Thread : TickNext(th)
               \/ \E th \in Thread, w \in Worker : TickAssign(th, w)
               \/ \E th \in Thread : TickGetConn(th)
               \/ \E th \in Thread : TickWrite(th)
               \/ \E th \in Thread : TickUndo(th)
               \/ \E th \in Thread : TickCount(th)
               \/ \E s \in Session : HandlePull(s))
      PROVE  UNCHANGED tick
  <2>1. ASSUME NEW th \in Thread, TickStep(th) PROVE UNCHANGED tick
    BY <1>9, <2>1 DEF TickStep
  <2>2. ASSUME NEW s \in Session, HandlerStep(s) PROVE UNCHANGED tick
    BY <1>9, <2>2 DEF HandlerStep, HandleRegister, SetConn, Respond,
       HandleResult, DecrementRunningTasks, AckResult, Disconnect, Reassign,
       ResetRunningTasks
  <2>3. ASSUME NEW s \in Session, ReadLoop(s) PROVE UNCHANGED tick
    BY <1>9, <2>3 DEF ReadLoop, FinishRegistration, SkipReply, AcceptTask,
       RejectTask, StopClient
  <2>4. ASSUME NEW s \in Session, ReportLoop(s) PROVE UNCHANGED tick
    BY <1>9, <2>4 DEF ReportLoop, SendResult, ForgetTask, PullNext
  <2>5. ASSUME \/ \E t \in Task : Create(t) \/ Cancel(t)
               \/ \E s \in Session : BreakLink(s)
               \/ \E s \in Session, w \in Worker : StartClient(s, w)
               \/ \E s \in Session, t \in Task : RunnerStep(s, t) \/ RunnerHangs(s, t)
               \/ \E w \in Worker : MarkOffline(w)
        PROVE  UNCHANGED tick
    BY <1>9, <2>5 DEF RunnerStep, Create, Cancel, BreakLink, StartClient,
       RunnerEnds, RunnerHangs, MarkOffline
  <2>. QED
    BY <1>0, <2>1, <2>2, <2>3, <2>4, <2>5 DEF Next
<1>c. CASE UNCHANGED tick
  BY <1>a, <1>b, <1>c DEF PassesKnow, ReadyInv, PassReady, TypeOK, Pass
<1>. QED
  BY <1>1, <1>2, <1>3, <1>4, <1>5, <1>6, <1>7, <1>8, <1>9, <1>c

-----------------------------------------------------------------------------
(* The type of the rest of the state.                                      *)
RestTypeOK ==
    /\ online \in [Worker -> BOOLEAN]
    /\ running \in [Worker -> Nat]
    /\ conns \in [Worker -> Session \cup {NoSession}]
    /\ uuid \in [Session -> Worker \cup {NoWorker}]
    /\ link \in [Session -> {"none", "open", "closed"}]
    /\ muted \in [Session -> BOOLEAN]
    /\ handler \in [Session -> {"none", "read", "setconn", "respond", "decrement",
                                "ack", "reassign", "reset", "gone", "panicked"}]
    /\ named \in SUBSET Session
    /\ client \in [Session -> {"off", "registering", "up", "stopped"}]
    /\ report \in [Session -> [pc : {"poll", "sent", "deleted"},
                               task : Task \cup {NoTask}]]
    /\ faults \in 0 .. MaxFaults

LEMMA RestTypeStep ==
  ASSUME TypeOK, ReadyInv, Next
  PROVE  RestTypeOK'
<1>0. Next
  OBVIOUS
<1>a. RestTypeOK /\ MaxFaults \in Nat
  BY DispatchAssumption DEF TypeOK, RestTypeOK
<1>1. ASSUME NEW th \in Thread, TickCount(th)
      PROVE  RestTypeOK'
  BY <1>a, <1>1 DEF RestTypeOK, TickCount, ReadyInv, PassReady
<1>2. ASSUME NEW s \in Session, HandleRegister(s)
      PROVE  RestTypeOK'
  BY <1>a, <1>2 DEF RestTypeOK, HandleRegister, HandlerGoto, Reads, ReadyInv,
     PassReady
<1>3. ASSUME NEW s \in Session, SetConn(s)
      PROVE  RestTypeOK'
  BY <1>a, <1>3 DEF RestTypeOK, SetConn, HandlerGoto, ReadyInv, PassReady
<1>4. ASSUME NEW s \in Session, Respond(s)
      PROVE  RestTypeOK'
  BY <1>a, <1>4 DEF RestTypeOK, Respond, HandlerGoto
<1>5. ASSUME NEW s \in Session, HandleResult(s)
      PROVE  RestTypeOK'
  BY <1>a, <1>5 DEF RestTypeOK, HandleResult, HandlerGoto, Reads
<1>6. ASSUME NEW s \in Session, DecrementRunningTasks(s)
      PROVE  RestTypeOK'
  <2>1. \A n \in Nat : (IF n > 0 THEN n - 1 ELSE 0) \in Nat
    OBVIOUS
  <2>2. running' = [running EXCEPT ![uuid[s]] = IF running[uuid[s]] > 0 THEN running[uuid[s]] - 1 ELSE 0]
    BY <1>6 DEF DecrementRunningTasks
  <2>3. uuid[s] \in Worker => running[uuid[s]] \in Nat
    BY <1>a DEF RestTypeOK
  <2>4. running' \in [Worker -> Nat]
    BY <1>a, <2>1, <2>2, <2>3 DEF RestTypeOK
  <2>. QED
    BY <1>a, <1>6, <2>4 DEF RestTypeOK, DecrementRunningTasks, HandlerGoto
<1>7. ASSUME NEW s \in Session, AckResult(s)
      PROVE  RestTypeOK'
  BY <1>a, <1>7 DEF RestTypeOK, AckResult, HandlerGoto
<1>8. ASSUME NEW s \in Session, Disconnect(s)
      PROVE  RestTypeOK'
  <2>1. handler' \in [Session -> {"none", "read", "setconn", "respond", "decrement",
                                  "ack", "reassign", "reset", "gone", "panicked"}]
    BY <1>a, <1>8 DEF RestTypeOK, Disconnect, HandlerGoto
  <2>2. muted' \in [Session -> BOOLEAN]
    BY ZenonT(60), <1>a, <1>8 DEF RestTypeOK, Disconnect
  <2>3. online' \in [Worker -> BOOLEAN] /\ conns' \in [Worker -> Session \cup {NoSession}]
    BY <1>a, <1>8 DEF RestTypeOK, Disconnect
  <2>4. UNCHANGED <<running, uuid, link, named, client, report, faults>>
    BY <1>8 DEF Disconnect
  <2>. QED
    BY <1>a, <2>1, <2>2, <2>3, <2>4 DEF RestTypeOK
<1>9. ASSUME NEW s \in Session, Reassign(s)
      PROVE  RestTypeOK'
  BY <1>a, <1>9 DEF RestTypeOK, Reassign, HandlerGoto
<1>10. ASSUME NEW s \in Session, ResetRunningTasks(s)
      PROVE  RestTypeOK'
  BY <1>a, <1>10 DEF RestTypeOK, ResetRunningTasks, HandlerGoto
<1>11. ASSUME NEW s \in Session, NEW w \in Worker, StartClient(s, w)
      PROVE  RestTypeOK'
  BY <1>a, <1>11 DEF RestTypeOK, StartClient, ReadyInv, PassReady
<1>12. ASSUME NEW s \in Session, FinishRegistration(s)
      PROVE  RestTypeOK'
  BY <1>a, <1>12 DEF RestTypeOK, FinishRegistration
<1>13. ASSUME NEW s \in Session, StopClient(s)
      PROVE  RestTypeOK'
  BY <1>a, <1>13 DEF RestTypeOK, StopClient, Polling
<1>14. ASSUME NEW s \in Session, NEW t \in Task, SendResult(s, t)
      PROVE  RestTypeOK'
  BY <1>a, <1>14 DEF RestTypeOK, SendResult
<1>15. ASSUME NEW s \in Session, ForgetTask(s)
      PROVE  RestTypeOK'
  BY <1>a, <1>15 DEF RestTypeOK, ForgetTask
<1>16. ASSUME NEW s \in Session, PullNext(s)
      PROVE  RestTypeOK'
  BY <1>a, <1>16 DEF RestTypeOK, PullNext, Polling
<1>17. ASSUME NEW s \in Session, BreakLink(s)
      PROVE  RestTypeOK'
  BY <1>a, <1>17 DEF RestTypeOK, BreakLink, Fault
<1>18. ASSUME NEW w \in Worker, MarkOffline(w)
      PROVE  RestTypeOK'
  BY <1>a, <1>18 DEF RestTypeOK, MarkOffline, Fault
<1>19. ASSUME NEW s \in Session, NEW t \in Task, RunnerHangs(s, t)
      PROVE  RestTypeOK'
  BY <1>a, <1>19 DEF RestTypeOK, RunnerHangs, Fault
<1>20. ASSUME ~(\/ \E th \in Thread : TickCount(th)
                \/ \E s \in Session : HandleRegister(s)
                \/ \E s \in Session : SetConn(s)
                \/ \E s \in Session : Respond(s)
                \/ \E s \in Session : HandleResult(s)
                \/ \E s \in Session : DecrementRunningTasks(s)
                \/ \E s \in Session : AckResult(s)
                \/ \E s \in Session : Disconnect(s)
                \/ \E s \in Session : Reassign(s)
                \/ \E s \in Session : ResetRunningTasks(s)
                \/ \E s \in Session, w \in Worker : StartClient(s, w)
                \/ \E s \in Session : FinishRegistration(s)
                \/ \E s \in Session : StopClient(s)
                \/ \E s \in Session, t \in Task : SendResult(s, t)
                \/ \E s \in Session : ForgetTask(s)
                \/ \E s \in Session : PullNext(s)
                \/ \E s \in Session : BreakLink(s)
                \/ \E w \in Worker : MarkOffline(w)
                \/ \E s \in Session, t \in Task : RunnerHangs(s, t))
      PROVE  UNCHANGED <<online, running, conns, uuid, link, muted, handler, named, client, report, faults>>
  <2>1. ASSUME NEW th \in Thread, TickStep(th) PROVE UNCHANGED <<online, running, conns, uuid, link, muted, handler, named, client, report, faults>>
    BY <1>20, <2>1 DEF TickStep, TickList, TickNext, TickAssign, TickGetConn,
       TickWrite, TickUndo
  <2>2. ASSUME NEW s \in Session, HandlerStep(s) PROVE UNCHANGED <<online, running, conns, uuid, link, muted, handler, named, client, report, faults>>
    BY <1>20, <2>2 DEF HandlerStep, HandlePull
  <2>3. ASSUME NEW s \in Session, ReadLoop(s) PROVE UNCHANGED <<online, running, conns, uuid, link, muted, handler, named, client, report, faults>>
    BY <1>20, <2>3 DEF ReadLoop, SkipReply, AcceptTask, RejectTask
  <2>4. ASSUME NEW s \in Session, ReportLoop(s) PROVE UNCHANGED <<online, running, conns, uuid, link, muted, handler, named, client, report, faults>>
    BY <1>20, <2>4 DEF ReportLoop
  <2>5. ASSUME \/ \E t \in Task : Create(t) \/ Cancel(t)
               \/ \E s \in Session : BreakLink(s)
               \/ \E s \in Session, w \in Worker : StartClient(s, w)
               \/ \E s \in Session, t \in Task : RunnerStep(s, t) \/ RunnerHangs(s, t)
               \/ \E w \in Worker : MarkOffline(w)
        PROVE  UNCHANGED <<online, running, conns, uuid, link, muted, handler, named, client, report, faults>>
    BY <1>20, <2>5 DEF RunnerStep, Create, Cancel, RunnerEnds
  <2>. QED
    BY SMTT(120), <1>0, <2>1, <2>2, <2>3, <2>4, <2>5 DEF Next
<1>c. CASE UNCHANGED <<online, running, conns, uuid, link, muted, handler, named, client, report, faults>>
  BY <1>a, <1>c DEF RestTypeOK
<1>. QED
  BY <1>1, <1>2, <1>3, <1>4, <1>5, <1>6, <1>7, <1>8, <1>9, <1>10, <1>11, <1>12,
     <1>13, <1>14, <1>15, <1>16, <1>17, <1>18, <1>19, <1>20, <1>c

-----------------------------------------------------------------------------
(* The inductive invariant.                                                *)
DispatchInv == StoreInv /\ TypeOK /\ ReadyInv /\ TaskInv

LEMMA DispatchInvInit == Init => DispatchInv
<1>. SUFFICES ASSUME Init PROVE DispatchInv
  OBVIOUS
<1>1. StoreInv
  BY StoreInvInit DEF Init
<1>2. \A x \in Session : toMaster[x] = <<>> /\ toWorker[x] = <<>>
  BY DEF Init
<1>3. \A x \in Session : Contents(toMaster[x]) = {} /\ Contents(toWorker[x]) = {}
  <2>1. DOMAIN <<>> = {}
    OBVIOUS
  <2>. QED
    BY <1>2, <2>1 DEF Contents
<1>4. \A th \in Thread : Rest(th) \in Pass /\ PassReady(Rest(th), handedOut)
  BY RestKnows
<1>5. TypeOK
  <2>1. StoreTypeOK
    BY <1>1 DEF StoreInv
  <2>2. RestTypeOK
    BY DispatchAssumption DEF Init, RestTypeOK, Polling
  <2>3. tick \in [Thread -> Pass]
    BY <1>4 DEF Init
  <2>4. /\ toMaster \in [Session -> Seq(Message)]
        /\ toWorker \in [Session -> Seq(Message)]
        /\ runners \in [Session -> [Task -> {"none", "working", "completed", "failed", "hung"}]]
        /\ ran \in [Task -> {"never", "started", "completed"}]
    BY DEF Init, NoRunners
  <2>. QED
    BY <2>1, <2>2, <2>3, <2>4 DEF TypeOK, RestTypeOK, Pass
<1>6. ReadyInv
  BY <1>4 DEF Init, ReadyInv
<1>7. TaskInv
  BY <1>3 DEF Init, TaskInv, NoRunners
<1>. QED
  BY <1>1, <1>5, <1>6, <1>7 DEF DispatchInv

LEMMA DispatchInvStep == DispatchInv /\ [Next]_vars => DispatchInv'
<1>. SUFFICES ASSUME DispatchInv, [Next]_vars PROVE DispatchInv'
  OBVIOUS
<1>1. CASE Next
  <2>1. TypeOK /\ ReadyInv /\ TaskInv /\ StoreInv
    BY DEF DispatchInv
  <2>2. StoreInv'
    BY <1>1, <2>1, StoreSimulates, StoreInvStep
  <2>3. SentToWorkers /\ SentToMaster /\ RunnersMove /\ PassesKnow /\ RestTypeOK'
    BY <1>1, <2>1, WorkerMail, MasterMail, RunnerMoves, PassesStep, RestTypeStep
  <2>4. TypeOK'
    <3>1. StoreTypeOK'
      BY <2>2 DEF StoreInv
    <3>2. /\ toWorker' \in [Session -> Seq(Message)]
          /\ toMaster' \in [Session -> Seq(Message)]
          /\ tick' \in [Thread -> Pass]
      BY <2>3 DEF SentToWorkers, SentToMaster, PassesKnow
    <3>3. /\ runners' \in [Session -> [Task -> {"none", "working", "completed", "failed", "hung"}]]
          /\ ran' \in [Task -> {"never", "started", "completed"}]
      BY <2>3 DEF RunnersMove
    <3>. QED
      BY <2>3, <3>1, <3>2, <3>3 DEF TypeOK, RestTypeOK, Pass
  <2>5. ReadyInv'
    BY <1>1, <2>1, <2>3, HandlersStep DEF ReadyInv, PassesKnow
  <2>6. TaskInv'
    BY <1>1, <2>1, TaskInvStep
  <2>. QED
    BY <2>2, <2>4, <2>5, <2>6 DEF DispatchInv
<1>2. CASE UNCHANGED vars
  <2>1. StoreInv'
    BY <1>2, StoreInvStep DEF DispatchInv, vars
  <2>2. TypeOK'
    BY <1>2 DEF DispatchInv, vars, TypeOK, StoreTypeOK
  <2>3. ReadyInv' /\ TaskInv'
    BY <1>2 DEF DispatchInv, vars, ReadyInv, PassReady, TaskInv
  <2>. QED
    BY <2>1, <2>2, <2>3 DEF DispatchInv
<1>. QED
  BY <1>1, <1>2

LEMMA DispatchInvariant == Spec => []DispatchInv
<1>. QED
  BY DispatchInvInit, DispatchInvStep, PTL DEF Spec

-----------------------------------------------------------------------------
(* The dispatcher never leaves its type.                                   *)
THEOREM DispatchTypeCorrect == Spec => []TypeOK
<1>1. DispatchInv => TypeOK
  BY DEF DispatchInv
<1>. QED
  BY <1>1, DispatchInvariant, PTL

(* However many scheduling passes, handlers and clients interleave, they   *)
(* use the task store only as StoreSpec allows.                            *)
THEOREM ImplementsStoreHolds == Spec => ImplementsStore
<1>1. Init => StoreInit
  BY DEF Init
<1>2. DispatchInv /\ [Next]_vars => [StoreNext]_storeVars
  BY StoreSimulates DEF DispatchInv, vars
<1>. QED
  BY <1>1, <1>2, DispatchInvariant, PTL DEF Spec, ImplementsStore, StoreSpec

(* A step that makes a task "completed" is a handler storing a result that *)
(* says so; only a runner that scanned the task ever sent one.             *)
LEMMA CompletedStep ==
  DispatchInv /\ [Next]_vars /\ CompletedMeansRun => CompletedMeansRun'
<1>. SUFFICES ASSUME DispatchInv, [Next]_vars, CompletedMeansRun,
                     NEW t \in Task, status'[t] = "completed"
              PROVE  ran'[t] = "completed"
  BY DEF CompletedMeansRun
<1>0. status \in [Task -> Status] /\ ran \in [Task -> {"never", "started", "completed"}]
  BY DEF DispatchInv, TypeOK, StoreTypeOK
<1>1. ran[t] = "completed" => ran'[t] = "completed"
  <2>1. CASE Next
    BY <2>1, RunnerMoves DEF DispatchInv, RunnersMove
  <2>2. CASE UNCHANGED vars
    BY <2>2 DEF vars
  <2>. QED
    BY <2>1, <2>2
<1>2. CASE status[t] = "completed"
  BY <1>1, <1>2 DEF CompletedMeansRun
<1>3. CASE status[t] # "completed" /\ Next
  <2>1. ASSUME NEW s \in Session, HandleResult(s) PROVE ran[t] = "completed"
    <3>1. PICK u \in Task, o \in {"completed", "failed"} :
             Reads(s, ResultMsg(u, o)) /\ StoreResult(u, o)
      BY <2>1 DEF HandleResult
    <3>2. u = t /\ o = "completed"
      BY <1>0, <1>3, <3>1 DEF StoreResult, CompleteTask, FailTask, Finish, Known
    <3>3. ResultMsg(t, "completed") \in Contents(toMaster[s])
      BY <3>1, <3>2, ReadsDrops DEF DispatchInv
    <3>. QED
      BY <3>3, MessageKinds DEF DispatchInv, TaskInv
  <2>2. ASSUME NEW u \in Task, Create(u) \/ Cancel(u) PROVE FALSE
    BY <1>0, <1>3, <2>2 DEF Create, Cancel, CreateTask, CancelTask
  <2>3. ASSUME NEW th \in Thread, NEW w \in Worker, TickAssign(th, w) PROVE FALSE
    BY <1>0, <1>3, <2>3 DEF TickAssign, AssignTask
  <2>4. ASSUME NEW th \in Thread, TickUndo(th) PROVE FALSE
    BY <1>0, <1>3, <2>4 DEF TickUndo, ReassignTask
  <2>5. ASSUME NEW s \in Session, Reassign(s) PROVE FALSE
    BY <1>0, <1>3, <2>5 DEF Reassign, ReassignWorkerTasks
  <2>6. ASSUME ~(\/ \E u \in Task : Create(u) \/ Cancel(u)
                 \/ \E th \in Thread, w \in Worker : TickAssign(th, w)
                 \/ \E th \in Thread : TickUndo(th)
                 \/ \E s \in Session : HandleResult(s)
                 \/ \E s \in Session : Reassign(s))
        PROVE  UNCHANGED status
    <3>1. ASSUME NEW th \in Thread, TickStep(th) PROVE UNCHANGED status
      BY <2>6, <3>1 DEF TickStep, TickList, TickNext, TickGetConn, TickWrite, TickCount
    <3>2. ASSUME NEW s \in Session, HandlerStep(s) PROVE UNCHANGED status
      BY <2>6, <3>2 DEF HandlerStep, HandleRegister, SetConn, Respond,
         DecrementRunningTasks, AckResult, HandlePull, Disconnect, ResetRunningTasks
    <3>3. ASSUME \/ \E s \in Session : ReadLoop(s) \/ ReportLoop(s) \/ BreakLink(s)
                 \/ \E s \in Session, w \in Worker : StartClient(s, w)
                 \/ \E s \in Session, u \in Task : RunnerStep(s, u) \/ RunnerHangs(s, u)
                 \/ \E w \in Worker : MarkOffline(w)
          PROVE  UNCHANGED status
      BY <3>3 DEF ReadLoop, ReportLoop, RunnerStep, BreakLink, StartClient, RunnerEnds,
         RunnerHangs, MarkOffline, FinishRegistration, SkipReply, AcceptTask, RejectTask,
         StopClient, SendResult, ForgetTask, PullNext
    <3>. QED
      BY <1>3, <2>6, <3>1, <3>2, <3>3 DEF Next
  <2>. QED
    BY <1>1, <1>3, <2>1, <2>2, <2>3, <2>4, <2>5, <2>6
<1>. QED
  BY <1>2, <1>3 DEF vars

(* Whatever is rejected, lost, scanned twice or reported late: a task that *)
(* is shown as completed was scanned to its end by some runner.            *)
THEOREM CompletedMeansRunHolds == Spec => []CompletedMeansRun
<1>1. Init => CompletedMeansRun
  BY DEF Init, StoreInit, CompletedMeansRun
<1>. QED
  BY <1>1, CompletedStep, DispatchInvariant, PTL DEF Spec

-----------------------------------------------------------------------------
(* No task is left with a worker that is gone.                             *)

(* Where the handler of a worker's connection is before it disconnects.    *)
Serving == {"read", "setconn", "respond", "decrement", "ack"}

(* A session that has not started has no handler, and a handler that is    *)
(* about to enter its connection has read the name of its worker.          *)
OffInv ==
    \A s \in Session :
        /\ client[s] = "off" => handler[s] = "none"
        /\ handler[s] = "setconn" => s \in named

(* A connection that the worker store knows for a worker is the worker's   *)
(* own, and its handler will still come to OnWorkerDisconnect.             *)
ConnInv ==
    \A w \in Worker :
        conns[w] # NoSession =>
            /\ uuid[conns[w]] = w
            /\ conns[w] \in named
            /\ handler[conns[w]] \in Serving

(* Why a task that is assigned to a worker will not be forgotten: the      *)
(* worker has a connection, whose handler puts its tasks back when it      *)
(* ends; or such a handler is about to; or the pass that assigned the task *)
(* is still to look for a connection, or to take the assignment back.      *)
Connected(w) == conns[w] # NoSession
Leaving(w) == \E s \in Session : uuid[s] = w /\ handler[s] = "reassign"
Assigning(t, w) ==
    \E th \in Thread :
        tick[th].task = t /\ tick[th].worker = w /\ tick[th].pc \in {"conn", "undo"}

KeptInv ==
    \A t \in Task, w \in Worker :
        assignedTo[t] = w /\ status[t] = "assigned" =>
            Connected(w) \/ Leaving(w) \/ Assigning(t, w)

OrphanInv == OffInv /\ ConnInv /\ KeptInv

(* The steps of handlers and clients that touch connections.  A late       *)
(* heartbeat breaks ConnInv: it takes a connection away whose handler then *)
(* panics when it acknowledges a result.                                   *)
LEMMA ConnStep ==
  ASSUME DispatchInv, OffInv, ConnInv, Next, "late" \notin Faults
  PROVE  OffInv' /\ ConnInv'
<1>0. Next
  OBVIOUS
<1>a. RestTypeOK /\ NoSession \notin Session
  BY DispatchAssumption DEF DispatchInv, TypeOK, RestTypeOK
<1>b. \A s \in Session : handler[s] # "none" => uuid[s] \in Worker
  BY DEF DispatchInv, ReadyInv
<1>1. ASSUME NEW s \in Session, HandleRegister(s)
      PROVE  OffInv' /\ ConnInv'
  <2>1. /\ UNCHANGED <<conns, uuid, client>>
        /\ handler[s] = "read" /\ handler'[s] = "setconn" /\ s \in named'
        /\ named \subseteq named'
        /\ \A x \in Session \ {s} : handler'[x] = handler[x]
    BY <1>a, <1>1 DEF HandleRegister, HandlerGoto, Reads, RestTypeOK
  <2>2. OffInv'
    BY <1>a, <2>1 DEF OffInv, RestTypeOK
  <2>3. ASSUME NEW w \in Worker, conns'[w] # NoSession
        PROVE  uuid'[conns'[w]] = w /\ conns'[w] \in named' /\ handler'[conns'[w]] \in Serving
    <3>1. uuid[conns[w]] = w /\ conns[w] \in named /\ conns[w] \in Session
          /\ handler[conns[w]] \in Serving
      BY <1>a, <2>1, <2>3 DEF ConnInv, RestTypeOK
    <3>. QED
      BY <2>1, <3>1 DEF Serving
  <2>. QED
    BY <2>2, <2>3 DEF ConnInv
<1>2. ASSUME NEW s \in Session, SetConn(s)
      PROVE  OffInv' /\ ConnInv'
  BY <1>a, <1>b, <1>2 DEF SetConn, HandlerGoto, OffInv, ConnInv, RestTypeOK, Serving
<1>3. ASSUME NEW s \in Session,
             Respond(s) \/ HandleResult(s) \/ DecrementRunningTasks(s) \/ ResetRunningTasks(s)
             \/ Reassign(s)
      PROVE  OffInv' /\ ConnInv'
  <2>1. /\ UNCHANGED <<conns, uuid, client, named>>
        /\ handler[s] # "none"
        /\ handler'[s] # "setconn"
        /\ handler[s] \in Serving => handler'[s] \in Serving
        /\ \A x \in Session \ {s} : handler'[x] = handler[x]
    <3>1. CASE Respond(s) \/ HandleResult(s) \/ DecrementRunningTasks(s)
      BY <1>a, <3>1 DEF Respond, HandleResult, DecrementRunningTasks, HandlerGoto, Reads,
         RestTypeOK, Serving
    <3>2. CASE ResetRunningTasks(s) \/ Reassign(s)
      BY <1>a, <3>2 DEF ResetRunningTasks, Reassign, HandlerGoto, RestTypeOK, Serving
    <3>. QED
      BY <1>3, <3>1, <3>2
  <2>. QED
    BY <1>a, <2>1 DEF OffInv, ConnInv, RestTypeOK
<1>4. ASSUME NEW s \in Session, AckResult(s)
      PROVE  OffInv' /\ ConnInv'
  <2>1. /\ UNCHANGED <<conns, uuid, client, named>>
        /\ handler[s] = "ack" /\ uuid[s] \in Worker
        /\ handler'[s] # "setconn"
        /\ conns[uuid[s]] # NoSession => handler'[s] = "read"
        /\ \A x \in Session \ {s} : handler'[x] = handler[x]
    BY <1>a, <1>b, <1>4 DEF AckResult, HandlerGoto, RestTypeOK
  <2>. QED
    BY <1>a, <2>1 DEF OffInv, ConnInv, RestTypeOK, Serving
<1>5. ASSUME NEW s \in Session, Disconnect(s)
      PROVE  OffInv' /\ ConnInv'
  <2>1. /\ UNCHANGED <<uuid, client, named>>
        /\ handler[s] = "read" /\ handler'[s] # "setconn" /\ uuid[s] \in Worker
        /\ \A x \in Session \ {s} : handler'[x] = handler[x]
        /\ \A w \in Worker : conns'[w] = conns[w] \/ conns'[w] = NoSession
    BY <1>a, <1>b, <1>5 DEF Disconnect, HandlerGoto, RestTypeOK
  <2>2. s \in named => conns'[uuid[s]] = NoSession
    BY <1>a, <2>1, <1>5 DEF Disconnect, RestTypeOK
  <2>. QED
    BY SMTT(60), <1>a, <2>1, <2>2 DEF OffInv, ConnInv, RestTypeOK
<1>6. ASSUME NEW s \in Session, NEW w \in Worker, StartClient(s, w)
      PROVE  OffInv' /\ ConnInv'
  BY <1>a, <1>6 DEF StartClient, OffInv, ConnInv, RestTypeOK, Serving
<1>7. ASSUME NEW s \in Session, FinishRegistration(s) \/ StopClient(s)
      PROVE  OffInv' /\ ConnInv'
  BY <1>a, <1>7 DEF FinishRegistration, StopClient, OffInv, ConnInv, RestTypeOK
<1>8. ASSUME NEW w \in Worker, MarkOffline(w)
      PROVE  FALSE
  BY <1>8 DEF MarkOffline, Fault
<1>9. ASSUME ~(\/ \E s \in Session : HandleRegister(s)
               \/ \E s \in Session : SetConn(s)
               \/ \E s \in Session : Respond(s) \/ HandleResult(s) \/ DecrementRunningTasks(s)
                                     \/ ResetRunningTasks(s) \/ Reassign(s)
               \/ \E s \in Session : AckResult(s)
               \/ \E s \in Session : Disconnect(s)
               \/ \E s \in Session, w \in Worker : StartClient(s, w)
               \/ \E s \in Session : FinishRegistration(s) \/ StopClient(s)
               \/ \E w \in Worker : MarkOffline(w))
      PROVE  UNCHANGED <<conns, uuid, handler, named, client>>
  <2>1. ASSUME NEW th \in Thread, TickStep(th)
        PROVE  UNCHANGED <<conns, uuid, handler, named, client>>
    <3>1. ASSUME NEW w \in Worker, TickAssign(th, w)
          PROVE  UNCHANGED <<conns, uuid, handler, named, client>>
      BY <3>1 DEF TickAssign
    <3>2. CASE TickWrite(th)
      BY <3>2 DEF TickWrite
    <3>3. CASE TickList(th) \/ TickNext(th) \/ TickGetConn(th) \/ TickUndo(th) \/ TickCount(th)
      BY <3>3 DEF TickList, TickNext, TickGetConn, TickUndo, TickCount
    <3>. QED
      BY <2>1, <3>1, <3>2, <3>3 DEF TickStep
  <2>2. ASSUME NEW s \in Session, HandlerStep(s)
        PROVE  UNCHANGED <<conns, uuid, handler, named, client>>
    <3>1. HandlePull(s)
      BY <1>9, <2>2 DEF HandlerStep
    <3>. QED
      BY <3>1 DEF HandlePull
  <2>3. ASSUME NEW s \in Session, ReadLoop(s) \/ ReportLoop(s)
        PROVE  UNCHANGED <<conns, uuid, handler, named, client>>
    BY <1>9, <2>3 DEF ReadLoop, ReportLoop, SkipReply, AcceptTask, RejectTask, SendResult,
       ForgetTask, PullNext
  <2>4. ASSUME \/ \E t \in Task : Create(t) \/ Cancel(t)
               \/ \E s \in Session : BreakLink(s)
               \/ \E s \in Session, t \in Task : RunnerStep(s, t) \/ RunnerHangs(s, t)
        PROVE  UNCHANGED <<conns, uuid, handler, named, client>>
    BY <2>4 DEF Create, Cancel, BreakLink, RunnerStep, RunnerEnds, RunnerHangs
  <2>. QED
    BY <1>0, <1>9, <2>1, <2>2, <2>3, <2>4 DEF Next
<1>c. CASE UNCHANGED <<conns, uuid, handler, named, client>>
  BY <1>c DEF OffInv, ConnInv
<1>. QED
  BY <1>1, <1>2, <1>3, <1>4, <1>5, <1>6, <1>7, <1>8, <1>9, <1>c

(* A task that becomes assigned is kept by the pass that assigned it; that *)
(* pass lets go of it only when it has seen a connection or has taken the  *)
(* assignment back; and a connection goes only with a handler that then    *)
(* puts back everything the worker had.                                    *)
LEMMA KeptStep ==
  ASSUME DispatchInv, OrphanInv, Next, "late" \notin Faults
  PROVE  KeptInv'
<1>0. Next
  OBVIOUS
<1>. SUFFICES ASSUME NEW t \in Task, NEW w \in Worker,
                     assignedTo'[t] = w, status'[t] = "assigned"
              PROVE  Connected(w)' \/ Leaving(w)' \/ Assigning(t, w)'
  BY DEF KeptInv
<1>a. /\ RestTypeOK /\ NoSession \notin Session
      /\ status \in [Task -> Status] /\ assignedTo \in [Task -> Worker \cup {NoWorker}]
      /\ tick \in [Thread -> Pass] /\ Session \subseteq Thread
  BY DispatchAssumption DEF DispatchInv, TypeOK, StoreTypeOK, RestTypeOK, Pass, Thread
<1>b. /\ \A s \in Session : handler[s] # "none" => uuid[s] \in Worker
      /\ \A th \in Thread : PassReady(tick[th], handedOut)
  BY DEF DispatchInv, ReadyInv
<1>c. assignedTo[t] = w /\ status[t] = "assigned" => Connected(w) \/ Leaving(w) \/ Assigning(t, w)
  BY DEF OrphanInv, KeptInv
<1>1. ASSUME NEW th \in Thread, NEW v \in Worker, TickAssign(th, v)
      PROVE  Connected(w)' \/ Leaving(w)' \/ Assigning(t, w)'
  <2>1. /\ tick[th].task \in Task /\ tick[th].pc = "assign"
        /\ UNCHANGED <<conns, uuid, handler>>
        /\ AssignTask(tick[th].task, v)
    BY <1>b, <1>1 DEF TickAssign, PassReady
  <2>2. \A x \in Thread \ {th} : tick'[x] = tick[x]
    BY <1>a, <1>1 DEF TickAssign, TickGoto
  <2>3. CASE tick[th].task = t /\ status[t] = "pending"
    <3>1. v = w
      BY <1>a, <2>1, <2>3 DEF AssignTask
    <3>2. tick'[th] = [tick[th] EXCEPT !.pc = "conn", !.idle = @ \ {v}, !.worker = v]
      BY <1>a, <1>1, <2>3 DEF TickAssign, TickGoto
    <3>3. tick[th] \in Pass
      BY <1>a
    <3>4. tick'[th].task = t /\ tick'[th].worker = w /\ tick'[th].pc = "conn"
      BY <2>3, <3>1, <3>2, <3>3 DEF Pass
    <3>. QED
      BY <3>4 DEF Assigning
  <2>4. CASE ~(tick[th].task = t /\ status[t] = "pending")
    <3>1. assignedTo[t] = w /\ status[t] = "assigned"
      BY <1>a, <2>1, <2>4 DEF AssignTask
    <3>. QED
      BY <1>c, <2>1, <2>2, <3>1 DEF Connected, Leaving, Assigning
  <2>. QED
    BY <2>3, <2>4
<1>2. ASSUME NEW th \in Thread, TickGetConn(th)
      PROVE  Connected(w)' \/ Leaving(w)' \/ Assigning(t, w)'
  <2>1. /\ tick[th].pc = "conn" /\ tick[th] \in Pass
        /\ UNCHANGED <<conns, uuid, handler, status, assignedTo>>
        /\ \A x \in Thread \ {th} : tick'[x] = tick[x]
        /\ conns[tick[th].worker] = NoSession => tick'[th] = [tick[th] EXCEPT !.pc = "undo"]
    BY <1>a, <1>2 DEF TickGetConn, TickGoto
  <2>2. CASE tick[th].worker = w /\ conns[w] # NoSession
    BY <2>1, <2>2 DEF Connected
  <2>3. CASE tick[th].worker = w /\ conns[w] = NoSession
    <3>1. tick'[th].task = tick[th].task /\ tick'[th].worker = w /\ tick'[th].pc = "undo"
      BY <2>1, <2>3 DEF Pass
    <3>. QED
      BY <1>c, <2>1, <3>1 DEF Connected, Leaving, Assigning
  <2>4. CASE tick[th].worker # w
    BY <1>c, <2>1, <2>4 DEF Connected, Leaving, Assigning
  <2>. QED
    BY <2>2, <2>3, <2>4
<1>3. ASSUME NEW th \in Thread, TickUndo(th)
      PROVE  Connected(w)' \/ Leaving(w)' \/ Assigning(t, w)'
  <2>1. /\ tick[th].task \in Task
        /\ UNCHANGED <<conns, uuid, handler>>
        /\ \A x \in Thread \ {th} : tick'[x] = tick[x]
        /\ ReassignTask(tick[th].task)
    BY <1>a, <1>b, <1>3 DEF TickUndo, TickGoto, PassReady
  <2>2. tick[th].task # t /\ assignedTo[t] = w /\ status[t] = "assigned"
    BY <1>a, <2>1 DEF ReassignTask, Active
  <2>. QED
    BY <1>c, <2>1, <2>2 DEF Connected, Leaving, Assigning
<1>4. ASSUME NEW th \in Thread, TickList(th) \/ TickNext(th) \/ TickWrite(th) \/ TickCount(th)
      PROVE  Connected(w)' \/ Leaving(w)' \/ Assigning(t, w)'
  <2>1. /\ tick[th].pc \notin {"conn", "undo"}
        /\ UNCHANGED <<conns, uuid, handler, status, assignedTo>>
        /\ \A x \in Thread \ {th} : tick'[x] = tick[x]
    <3>1. CASE TickWrite(th)
      BY <1>a, <3>1 DEF TickWrite, TickGoto
    <3>2. CASE TickList(th) \/ TickNext(th) \/ TickCount(th)
      BY <1>a, <3>2 DEF TickList, TickNext, TickCount, TickGoto
    <3>. QED
      BY <1>4, <3>1, <3>2
  <2>. QED
    BY <1>c, <2>1 DEF Connected, Leaving, Assigning
<1>5. ASSUME NEW s \in Session, SetConn(s)
      PROVE  Connected(w)' \/ Leaving(w)' \/ Assigning(t, w)'
  BY <1>a, <1>b, <1>c, <1>5
     DEF SetConn, HandlerGoto, RestTypeOK, Connected, Leaving, Assigning
<1>6. ASSUME NEW s \in Session, Disconnect(s)
      PROVE  Connected(w)' \/ Leaving(w)' \/ Assigning(t, w)'
  <2>1. /\ handler[s] = "read" /\ uuid[s] \in Worker
        /\ UNCHANGED <<uuid, tick, status, assignedTo>>
        /\ \A x \in Session \ {s} : handler'[x] = handler[x]
    BY <1>a, <1>b, <1>6 DEF Disconnect, HandlerGoto, RestTypeOK
  <2>2. CASE s \in named /\ uuid[s] = w
    <3>1. handler'[s] = "reassign"
      BY <1>a, <1>6, <2>2 DEF Disconnect, HandlerGoto, RestTypeOK
    <3>. QED
      BY <2>1, <2>2, <3>1 DEF Leaving
  <2>3. CASE ~(s \in named /\ uuid[s] = w)
    <3>1. conns'[w] = conns[w]
      BY <1>a, <1>6, <2>3 DEF Disconnect, RestTypeOK
    <3>. QED
      BY <1>c, <2>1, <3>1 DEF Connected, Leaving, Assigning
  <2>. QED
    BY <2>2, <2>3
<1>7. ASSUME NEW s \in Session, Reassign(s)
      PROVE  Connected(w)' \/ Leaving(w)' \/ Assigning(t, w)'
  <2>1. /\ UNCHANGED <<conns, uuid, tick>>
        /\ \A x \in Session \ {s} : handler'[x] = handler[x]
    BY <1>a, <1>7 DEF Reassign, HandlerGoto, RestTypeOK
  <2>2. PICK young \in InGrace(uuid[s]) :
           LET back == WorkerTasks(uuid[s]) \ young IN
           /\ status' = [u \in Task |-> IF u \in back THEN "pending" ELSE status[u]]
           /\ assignedTo' = [u \in Task |-> IF u \in back THEN NoWorker ELSE assignedTo[u]]
    BY <1>7 DEF Reassign, ReassignWorkerTasks
  <2>3. t \notin WorkerTasks(uuid[s]) \ young /\ status[t] = "assigned" /\ assignedTo[t] = w
    BY <2>2
  <2>4. t \notin young
    BY <2>3 DEF InGrace
  <2>5. uuid[s] # w
    BY <2>3, <2>4 DEF WorkerTasks, Active
  <2>. QED
    BY <1>c, <2>1, <2>3, <2>5 DEF Connected, Leaving, Assigning
<1>8. ASSUME NEW s \in Session, HandleResult(s)
      PROVE  Connected(w)' \/ Leaving(w)' \/ Assigning(t, w)'
  <2>1. /\ handler[s] = "read"
        /\ UNCHANGED <<conns, uuid, tick, assignedTo>>
        /\ \A x \in Session \ {s} : handler'[x] = handler[x]
    BY <1>a, <1>8 DEF HandleResult, StoreResult, CompleteTask, FailTask, Finish, Reads,
       HandlerGoto, RestTypeOK
  <2>2. status[t] = "assigned"
    BY <1>a, <1>8 DEF HandleResult, StoreResult, CompleteTask, FailTask, Finish, Known
  <2>. QED
    BY <1>c, <2>1, <2>2 DEF Connected, Leaving, Assigning
<1>9. ASSUME NEW s \in Session,
             HandleRegister(s) \/ Respond(s) \/ DecrementRunningTasks(s) \/ AckResult(s)
             \/ ResetRunningTasks(s)
      PROVE  Connected(w)' \/ Leaving(w)' \/ Assigning(t, w)'
  <2>1. /\ handler[s] # "reassign"
        /\ UNCHANGED <<conns, uuid, tick, status, assignedTo>>
        /\ \A x \in Session \ {s} : handler'[x] = handler[x]
    BY <1>a, <1>9 DEF HandleRegister, Respond, DecrementRunningTasks, AckResult,
       ResetRunningTasks, Reads, HandlerGoto, RestTypeOK
  <2>. QED
    BY <1>c, <2>1 DEF Connected, Leaving, Assigning
<1>10. ASSUME NEW s \in Session, HandlePull(s)
       PROVE  Connected(w)' \/ Leaving(w)' \/ Assigning(t, w)'
  <2>1. /\ tick[s].pc = "off"
        /\ UNCHANGED <<conns, uuid, handler, status, assignedTo>>
        /\ \A x \in Thread \ {s} : tick'[x] = tick[x]
    BY <1>a, <1>10 DEF HandlePull, Reads
  <2>. QED
    BY <1>a, <1>c, <2>1 DEF Connected, Leaving, Assigning
<1>11. ASSUME NEW s \in Session, NEW v \in Worker, StartClient(s, v)
       PROVE  Connected(w)' \/ Leaving(w)' \/ Assigning(t, w)'
  <2>1. /\ handler[s] = "none"
        /\ UNCHANGED <<conns, tick, status, assignedTo>>
        /\ \A x \in Session \ {s} : handler'[x] = handler[x] /\ uuid'[x] = uuid[x]
    BY <1>a, <1>11 DEF StartClient, OrphanInv, OffInv, RestTypeOK
  <2>. QED
    BY <1>c, <2>1 DEF Connected, Leaving, Assigning
<1>12. ASSUME NEW u \in Task, Create(u) \/ Cancel(u)
       PROVE  Connected(w)' \/ Leaving(w)' \/ Assigning(t, w)'
  <2>1. UNCHANGED <<conns, uuid, handler, tick, assignedTo>>
    BY <1>12 DEF Create, Cancel, CreateTask, CancelTask
  <2>2. status[t] = "assigned"
    BY <1>a, <1>12 DEF Create, Cancel, CreateTask, CancelTask
  <2>. QED
    BY <1>c, <2>1, <2>2 DEF Connected, Leaving, Assigning
<1>13. ASSUME NEW v \in Worker, MarkOffline(v)
       PROVE  FALSE
  BY <1>13 DEF MarkOffline, Fault
<1>14. ASSUME \/ \E s \in Session : ReadLoop(s) \/ ReportLoop(s) \/ BreakLink(s)
              \/ \E s \in Session, u \in Task : RunnerStep(s, u) \/ RunnerHangs(s, u)
       PROVE  Connected(w)' \/ Leaving(w)' \/ Assigning(t, w)'
  <2>1. UNCHANGED <<conns, uuid, handler, tick, status, assignedTo>>
    BY <1>14 DEF ReadLoop, ReportLoop, BreakLink, RunnerStep, RunnerEnds, RunnerHangs,
       FinishRegistration, SkipReply, AcceptTask, RejectTask, StopClient, SendResult,
       ForgetTask, PullNext
  <2>. QED
    BY <1>c, <2>1 DEF Connected, Leaving, Assigning
<1>15. ASSUME NEW th \in Thread, TickStep(th)
       PROVE  Connected(w)' \/ Leaving(w)' \/ Assigning(t, w)'
  BY <1>1, <1>2, <1>3, <1>4, <1>15 DEF TickStep
<1>16. ASSUME NEW s \in Session, HandlerStep(s)
       PROVE  Connected(w)' \/ Leaving(w)' \/ Assigning(t, w)'
  BY <1>5, <1>6, <1>7, <1>8, <1>9, <1>10, <1>16 DEF HandlerStep
<1>. QED
  BY <1>0, <1>11, <1>12, <1>13, <1>14, <1>15, <1>16 DEF Next

(* A worker whose last handler is gone, and that no pass is on its way to, *)
(* has no task left: OnWorkerDisconnect put every one of them back, also   *)
(* those that a concurrent pass was assigning meanwhile.  The heartbeats   *)
(* are assumed to come in time.                                            *)
THEOREM NoOrphanHolds ==
  ASSUME "late" \notin Faults
  PROVE  Spec => []NoOrphan
<1>1. Init => OrphanInv
  BY DEF Init, StoreInit, OrphanInv, OffInv, ConnInv, KeptInv
<1>2. DispatchInv /\ OrphanInv /\ [Next]_vars => OrphanInv'
  <2>1. CASE Next
    BY <2>1, ConnStep, KeptStep DEF OrphanInv
  <2>2. CASE UNCHANGED vars
    BY <2>2 DEF vars, OrphanInv, OffInv, ConnInv, KeptInv, Connected, Leaving, Assigning
  <2>. QED
    BY <2>1, <2>2
<1>3. DispatchInv /\ OrphanInv => NoOrphan
  <2>1. SUFFICES ASSUME DispatchInv, OrphanInv, NEW t \in Task, NEW w \in Worker,
                        assignedTo[t] = w, status[t] = "assigned"
                 PROVE  Attended(w)
    BY DEF NoOrphan
  <2>2. conns[w] \in Session \cup {NoSession}
    BY <2>1 DEF DispatchInv, TypeOK
  <2>3. CASE Connected(w)
    BY <2>1, <2>2, <2>3 DEF Connected, OrphanInv, ConnInv, Serving, Attended
  <2>4. CASE Leaving(w)
    BY <2>4 DEF Leaving, Attended
  <2>5. CASE Assigning(t, w)
    BY <2>5 DEF Assigning, Attended
  <2>. QED
    BY <2>1, <2>3, <2>4, <2>5 DEF OrphanInv, KeptInv
<1>. QED
  BY <1>1, <1>2, <1>3, DispatchInvariant, PTL DEF Spec

-----------------------------------------------------------------------------
(* Without broken connections no task is at two places.                    *)

(* The places where a task can be once it is assigned: with the pass that  *)
(* assigned it, until that pass has written it or taken it back; at        *)
(* position i of what was sent to a session; or with a runner of one.      *)
Kind == {"pass", "mail", "run"}

At(t, k, x, i) ==
    \/ /\ k = "pass" /\ i = 0
       /\ tick[x].task = t /\ tick[x].pc \in {"conn", "write", "undo"}
    \/ /\ k = "mail" /\ x \in Session
       /\ i \in DOMAIN toWorker[x] /\ toWorker[x][i] = AssignMsg(t)
    \/ /\ k = "run" /\ i = 0 /\ x \in Session
       /\ runners[x][t] # "none"

(* It is at one of them, and at none while the scheduler may assign it.    *)
OneAt(t) ==
    \A k, l \in Kind, x, y \in Thread, i, j \in Nat :
        At(t, k, x, i) /\ At(t, l, y, j) =>
            k = l /\ x = y /\ i = j /\ status[t] \notin {"none", "pending"}

(* No connection ends.                                                     *)
WholeInv ==
    \A s \in Session :
        /\ link[s] # "closed"
        /\ ~muted[s]
        /\ handler[s] \notin {"reassign", "reset"}

HolderInv == WholeInv /\ \A t \in Task : OneAt(t)

(* Nothing closes a connection but a fault.                                *)
LEMMA WholeStep ==
  ASSUME DispatchInv, WholeInv, Next, "break" \notin Faults
  PROVE  WholeInv'
<1>0. Next
  OBVIOUS
<1>a. RestTypeOK
  BY DispatchAssumption DEF DispatchInv, TypeOK, RestTypeOK
<1>1. ASSUME NEW s \in Session, NEW w \in Worker, StartClient(s, w)
      PROVE  WholeInv'
  BY <1>a, <1>1 DEF StartClient, WholeInv, RestTypeOK
<1>2. ASSUME NEW s \in Session, BreakLink(s) \/ StopClient(s) \/ Disconnect(s)
                                \/ Reassign(s) \/ ResetRunningTasks(s)
      PROVE  FALSE
  BY <1>2 DEF BreakLink, Fault, StopClient, Disconnect, Reassign, ResetRunningTasks, WholeInv
<1>3. ASSUME NEW s \in Session, HandleRegister(s) \/ SetConn(s) \/ Respond(s) \/ HandleResult(s)
                                \/ DecrementRunningTasks(s)
      PROVE  WholeInv'
  <2>1. UNCHANGED <<link, muted>>
        /\ \E pc \in {"setconn", "respond", "read", "decrement", "ack"} : HandlerGoto(s, pc)
    BY <1>3 DEF HandleRegister, SetConn, Respond, HandleResult, DecrementRunningTasks
  <2>. QED
    BY <1>a, <2>1 DEF HandlerGoto, WholeInv, RestTypeOK
<1>4. ASSUME NEW s \in Session, AckResult(s)
      PROVE  WholeInv'
  <2>1. UNCHANGED <<link, muted>>
        /\ \E pc \in {"read", "panicked"} : HandlerGoto(s, pc)
    BY <1>4 DEF AckResult
  <2>. QED
    BY <1>a, <2>1 DEF HandlerGoto, WholeInv, RestTypeOK
<1>5. ASSUME NEW s \in Session, HandlePull(s)
      PROVE  WholeInv'
  BY <1>5 DEF HandlePull, WholeInv
<1>6. ASSUME NEW th \in Thread, TickStep(th)
      PROVE  WholeInv'
  <2>1. ASSUME NEW w \in Worker, TickAssign(th, w)
        PROVE  UNCHANGED <<link, muted, handler>>
    BY <2>1 DEF TickAssign
  <2>2. CASE TickWrite(th)
    BY <2>2 DEF TickWrite, WholeInv
  <2>3. CASE TickList(th) \/ TickNext(th) \/ TickGetConn(th) \/ TickUndo(th) \/ TickCount(th)
    BY <2>3 DEF TickList, TickNext, TickGetConn, TickUndo, TickCount, WholeInv
  <2>. QED
    BY <1>6, <2>1, <2>2, <2>3 DEF TickStep, WholeInv
<1>7. ASSUME NEW s \in Session, ReadLoop(s) \/ ReportLoop(s)
      PROVE  WholeInv'
  <2>1. UNCHANGED <<link, muted, handler>>
    BY <1>2, <1>7 DEF ReadLoop, ReportLoop, FinishRegistration, SkipReply, AcceptTask, RejectTask,
       SendResult, ForgetTask, PullNext
  <2>. QED
    BY <2>1 DEF WholeInv
<1>8. ASSUME \/ \E u \in Task : Create(u) \/ Cancel(u)
             \/ \E w \in Worker : MarkOffline(w)
             \/ \E s \in Session, u \in Task : RunnerStep(s, u) \/ RunnerHangs(s, u)
      PROVE  WholeInv'
  <2>1. UNCHANGED <<link, muted, handler>>
    BY <1>8 DEF Create, Cancel, MarkOffline, RunnerStep, RunnerEnds, RunnerHangs
  <2>. QED
    BY <2>1 DEF WholeInv
<1>. QED
  BY <1>0, <1>1, <1>2, <1>3, <1>4, <1>5, <1>6, <1>7, <1>8 DEF Next, HandlerStep

(* A reply is not an assignment.                                           *)
LEMMA RepliesAssignNothing ==
  ASSUME TypeOK, NEW c, NEW ok, MasterWrites(c, ReplyMsg, ok),
         NEW x \in Session, NEW t \in Task, NEW i \in DOMAIN toWorker'[x],
         toWorker'[x][i] = AssignMsg(t)
  PROVE  i \in DOMAIN toWorker[x] /\ toWorker[x][i] = AssignMsg(t)
<1>1. toWorker[x] \in Seq(Message) /\ ReplyMsg \in Message
  BY PlainKinds DEF TypeOK
<1>2. CASE toWorker'[x] = toWorker[x]
  BY <1>2
<1>3. CASE toWorker'[x] = Append(toWorker[x], ReplyMsg)
  <2>1. /\ DOMAIN Append(toWorker[x], ReplyMsg) = 1 .. Len(toWorker[x]) + 1
        /\ DOMAIN toWorker[x] = 1 .. Len(toWorker[x]) /\ Len(toWorker[x]) \in Nat
        /\ \A n \in 1 .. Len(toWorker[x]) : Append(toWorker[x], ReplyMsg)[n] = toWorker[x][n]
        /\ Append(toWorker[x], ReplyMsg)[Len(toWorker[x]) + 1] = ReplyMsg
    BY <1>1
  <2>2. ReplyMsg # AssignMsg(t)
    BY DEF ReplyMsg, AssignMsg
  <2>. QED
    BY <1>3, <2>1, <2>2
<1>4. toWorker'[x] = toWorker[x] \/ toWorker'[x] = Append(toWorker[x], ReplyMsg)
  BY DEF MasterWrites, TypeOK
<1>. QED
  BY <1>2, <1>3, <1>4

(* What a client reads moves the rest up.                                  *)
LEMMA ReadShifts ==
  ASSUME TypeOK, NEW s \in Session, ClientReads(s)
  PROVE  /\ \A x \in Session \ {s} : toWorker'[x] = toWorker[x]
         /\ \A i \in DOMAIN toWorker'[s] :
               /\ i \in Nat /\ i > 0
               /\ i + 1 \in DOMAIN toWorker[s]
               /\ toWorker'[s][i] = toWorker[s][i + 1]
         /\ 1 \in DOMAIN toWorker[s] /\ toWorker[s][1] = Head(toWorker[s])
<1>1. /\ toWorker[s] \in Seq(Message) /\ toWorker[s] # <<>>
      /\ toWorker'[s] = Tail(toWorker[s])
      /\ \A x \in Session \ {s} : toWorker'[x] = toWorker[x]
  BY DEF ClientReads, TypeOK
<1>2. /\ DOMAIN Tail(toWorker[s]) = 1 .. Len(toWorker[s]) - 1
      /\ \A i \in 1 .. Len(toWorker[s]) - 1 : Tail(toWorker[s])[i] = toWorker[s][i + 1]
      /\ Head(toWorker[s]) = toWorker[s][1]
      /\ DOMAIN toWorker[s] = 1 .. Len(toWorker[s])
      /\ Len(toWorker[s]) \in Nat /\ Len(toWorker[s]) > 0
  BY <1>1
<1>. QED
  BY <1>1, <1>2

(* Nowhere is t that it was not before.                                    *)
Settled(t) ==
    \A k \in Kind, x \in Thread, i \in Nat : At(t, k, x, i)' => At(t, k, x, i)

LEMMA SettledIsOne ==
  ASSUME NEW t \in Task, OneAt(t), Settled(t),
         status'[t] \in {"none", "pending"} => status[t] \in {"none", "pending"}
  PROVE  OneAt(t)'
BY DEF OneAt, Settled

(* The scheduling passes.  Two of them may pick the same task, and only    *)
(* one AssignTask succeeds; from there on the task goes with its pass,     *)
(* until it is written to one connection or is put back.                   *)
LEMMA PassMoves ==
  ASSUME DispatchInv, HolderInv, NEW th \in Thread, TickStep(th), NEW t \in Task
  PROVE  OneAt(t)'
<1>a. /\ RestTypeOK /\ TypeOK
      /\ status \in [Task -> Status]
      /\ \A x \in Thread : tick[x] \in Pass
      /\ Session \subseteq Thread
  BY DispatchAssumption DEF DispatchInv, TypeOK, StoreTypeOK, RestTypeOK, Pass, Thread
<1>b. PassReady(tick[th], handedOut)
  BY DEF DispatchInv, ReadyInv
<1>c. OneAt(t)
  BY DEF HolderInv
<1>d. tick \in [Thread -> Pass]
  BY DEF DispatchInv, TypeOK, Pass
<1>1. CASE TickList(th) \/ TickNext(th) \/ TickCount(th)
  <2>1. /\ UNCHANGED <<runners, toWorker, status>>
        /\ tick'[th].pc \notin {"conn", "write", "undo"}
        /\ \A x \in Thread \ {th} : tick'[x] = tick[x]
    <3>1. CASE TickList(th)
      BY <1>d, <3>1 DEF TickList, TickGoto, Rest
    <3>2. CASE TickNext(th)
      BY <1>a, <1>d, <3>2 DEF TickNext, TickGoto, Rest, Pass
    <3>3. CASE TickCount(th)
      BY <1>d, <3>3 DEF TickCount, TickGoto, Rest
    <3>. QED
      BY <1>1, <3>1, <3>2, <3>3
  <2>. QED
    BY <1>c, <2>1, SettledIsOne DEF Settled, At
<1>2. ASSUME NEW w \in Worker, TickAssign(th, w)
      PROVE  OneAt(t)'
  <2>1. /\ tick[th].task \in Task
        /\ UNCHANGED <<runners, toWorker>>
        /\ AssignTask(tick[th].task, w)
        /\ \A x \in Thread \ {th} : tick'[x] = tick[x]
    BY <1>b, <1>d, <1>2 DEF TickAssign, TickGoto, PassReady
  <2>2. CASE tick[th].task = t /\ status[t] = "pending"
    <3>1. \A k \in Kind, x \in Thread, i \in Nat : ~At(t, k, x, i)
      BY <1>c, <2>2 DEF OneAt
    <3>2. \A k \in Kind, x \in Thread, i \in Nat :
             At(t, k, x, i)' => k = "pass" /\ x = th /\ i = 0
      BY <2>1, <3>1 DEF At
    <3>3. status'[t] = "assigned"
      BY <1>a, <2>1, <2>2 DEF AssignTask
    <3>. QED
      BY <3>2, <3>3 DEF OneAt
  <2>3. CASE tick[th].task # t
    <3>1. tick'[th].task # t \/ tick'[th].pc = "next"
      BY <1>a, <1>d, <1>2, <2>3 DEF TickAssign, TickGoto, Rest, Pass
    <3>2. status'[t] = status[t]
      BY <1>a, <2>1, <2>3 DEF AssignTask
    <3>. QED
      BY <1>c, <2>1, <3>1, <3>2, SettledIsOne DEF Settled, At
  <2>4. CASE tick[th].task = t /\ status[t] # "pending"
    <3>1. tick'[th].pc = "next"
      BY <1>d, <1>2, <2>4 DEF TickAssign, TickGoto, Rest
    <3>2. status' = status
      BY <2>1, <2>4 DEF AssignTask
    <3>. QED
      BY <1>c, <2>1, <3>1, <3>2, SettledIsOne DEF Settled, At
  <2>. QED
    BY <2>2, <2>3, <2>4
<1>3. CASE TickGetConn(th)
  <2>1. /\ UNCHANGED <<runners, toWorker, status>>
        /\ tick[th].pc = "conn" /\ tick'[th].task = tick[th].task
        /\ \A x \in Thread \ {th} : tick'[x] = tick[x]
    BY <1>a, <1>d, <1>3 DEF TickGetConn, TickGoto, Pass
  <2>. QED
    BY <1>c, <2>1, SettledIsOne DEF Settled, At
<1>4. CASE TickUndo(th)
  <2>1. /\ tick[th].task \in Task /\ tick[th].pc = "undo" /\ tick'[th].pc = "next"
        /\ UNCHANGED <<runners, toWorker>>
        /\ ReassignTask(tick[th].task)
        /\ \A x \in Thread \ {th} : tick'[x] = tick[x]
    BY <1>b, <1>d, <1>4 DEF TickUndo, TickGoto, Rest, PassReady
  <2>2. Settled(t)
    BY <2>1 DEF Settled, At
  <2>3. CASE tick[th].task = t
    <3>1. At(t, "pass", th, 0)
      BY <2>1, <2>3 DEF At
    <3>2. ~At(t, "pass", th, 0)'
      BY <2>1 DEF At
    <3>3. \A k \in Kind, x \in Thread, i \in Nat : ~At(t, k, x, i)'
      BY <1>c, <2>2, <3>1, <3>2 DEF OneAt, Settled, Kind
    <3>. QED
      BY <3>3 DEF OneAt
  <2>4. CASE tick[th].task # t
    <3>1. status'[t] = status[t]
      BY <1>a, <2>1, <2>4 DEF ReassignTask
    <3>. QED
      BY <1>c, <2>2, <3>1, SettledIsOne
  <2>. QED
    BY <2>3, <2>4
<1>5. CASE TickWrite(th)
  <2>. DEFINE u == tick[th].task  c == tick[th].conn
  <2>1. PICK ok \in BOOLEAN :
            /\ MasterWrites(c, AssignMsg(u), ok)
            /\ TickGoto(th, [tick[th] EXCEPT !.pc = IF ok THEN "count" ELSE "undo",
                                             !.conn = NoSession])
    BY <1>5 DEF TickWrite
  <2>2. /\ tick[th].pc = "write" /\ u \in Task /\ c \in Session
        /\ UNCHANGED <<runners, status>>
    BY <1>b, <1>5 DEF TickWrite, PassReady
  <2>3. ok /\ toWorker' = [toWorker EXCEPT ![c] = Append(@, AssignMsg(u))]
    BY <2>1, <2>2 DEF MasterWrites, HolderInv, WholeInv
  <2>4. /\ tick'[th].pc = "count"
        /\ \A x \in Thread \ {th} : tick'[x] = tick[x]
    BY <1>a, <1>d, <2>1, <2>3 DEF TickGoto, Pass
  <2>5. /\ AssignMsg(u) \in Message /\ toWorker[c] \in Seq(Message)
        /\ toWorker'[c] = Append(toWorker[c], AssignMsg(u))
        /\ \A x \in Session \ {c} : toWorker'[x] = toWorker[x]
    BY <1>a, <2>2, <2>3, MessageKinds DEF TypeOK
  <2>6. /\ DOMAIN toWorker'[c] = 1 .. Len(toWorker[c]) + 1
        /\ DOMAIN toWorker[c] = 1 .. Len(toWorker[c]) /\ Len(toWorker[c]) \in Nat
        /\ \A n \in 1 .. Len(toWorker[c]) : toWorker'[c][n] = toWorker[c][n]
        /\ toWorker'[c][Len(toWorker[c]) + 1] = AssignMsg(u)
    BY <2>5
  <2>. HIDE DEF c, u
  <2>9. \A x \in Session : \A i \in DOMAIN toWorker'[x] :
           \/ i \in DOMAIN toWorker[x] /\ toWorker'[x][i] = toWorker[x][i]
           \/ x = c /\ i = Len(toWorker[c]) + 1 /\ toWorker'[x][i] = AssignMsg(u)
    BY SMTT(60), <2>5, <2>6
  <2>7. CASE u # t
    <3>1. AssignMsg(u) # AssignMsg(t)
      BY <2>7 DEF AssignMsg
    <3>2. Settled(t)
      BY <2>2, <2>4, <2>9, <3>1 DEF Settled, At
    <3>. QED
      BY <1>c, <2>2, <3>2, SettledIsOne
  <2>8. CASE u = t
    <3>1. At(t, "pass", th, 0) /\ 0 \in Nat /\ "pass" \in Kind
      BY <2>2, <2>8 DEF At, Kind, u
    <3>2. /\ status[t] \notin {"none", "pending"}
          /\ \A k \in Kind, x \in Thread, i \in Nat :
                At(t, k, x, i) => k = "pass" /\ x = th /\ i = 0
      BY <1>c, <3>1 DEF OneAt
    <3>3. \A k \in Kind, x \in Thread, i \in Nat :
             At(t, k, x, i)' =>
                At(t, k, x, i) \/ (k = "mail" /\ x = c /\ i = Len(toWorker[c]) + 1)
      <4>1. ASSUME NEW x \in Thread, NEW i \in Nat, At(t, "mail", x, i)'
            PROVE  At(t, "mail", x, i) \/ (x = c /\ i = Len(toWorker[c]) + 1)
        BY <2>9, <4>1 DEF At
      <4>2. ASSUME NEW x \in Thread, NEW i \in Nat, NEW k \in {"pass", "run"}, At(t, k, x, i)'
            PROVE  At(t, k, x, i)
        BY <2>2, <2>4, <4>2 DEF At
      <4>. QED
        BY <4>1, <4>2 DEF Kind
    <3>4. ~At(t, "pass", th, 0)'
      BY <2>4 DEF At
    <3>5. \A k \in Kind, x \in Thread, i \in Nat :
             At(t, k, x, i)' => k = "mail" /\ x = c /\ i = Len(toWorker[c]) + 1
      BY <3>2, <3>3, <3>4
    <3>. QED
      BY <2>2, <3>2, <3>5 DEF OneAt
  <2>. QED
    BY <2>7, <2>8
<1>. QED
  BY <1>1, <1>2, <1>3, <1>4, <1>5 DEF TickStep

(* The client that reads an assignment starts it, refuses it or - while it *)
(* waits for the answer to its registration - loses it.                    *)
LEMMA ReaderMoves ==
  ASSUME DispatchInv, HolderInv, NEW s \in Session, ReadLoop(s), NEW t \in Task
  PROVE  OneAt(t)'
<1>a. /\ TypeOK /\ s \in Thread
      /\ runners \in [Session -> [Task -> {"none", "working", "completed", "failed", "hung"}]]
  BY DEF DispatchInv, TypeOK, Thread
<1>b. OneAt(t)
  BY DEF HolderInv
<1>1. CASE FinishRegistration(s) \/ SkipReply(s) \/ \E u \in Task : RejectTask(s, u)
  <2>1. ClientReads(s) /\ UNCHANGED <<tick, runners, status>>
    BY <1>1 DEF FinishRegistration, SkipReply, RejectTask
  <2>2. \A x \in Thread, i \in Nat :
           /\ At(t, "pass", x, i)' => At(t, "pass", x, i)
           /\ At(t, "run", x, i)' => At(t, "run", x, i)
           /\ x # s /\ At(t, "mail", x, i)' => At(t, "mail", x, i)
           /\ At(t, "mail", s, i)' => At(t, "mail", s, i + 1)
    BY <1>a, <2>1, ReadShifts DEF At
  <2>. QED
    BY <1>a, <1>b, <2>1, <2>2 DEF OneAt, Kind
<1>2. ASSUME NEW u \in Task, AcceptTask(s, u)
      PROVE  OneAt(t)'
  <2>1. /\ ClientReads(s) /\ UNCHANGED <<tick, status>>
        /\ Head(toWorker[s]) = AssignMsg(u)
        /\ \A x \in Session : \A v \in Task : <<x, v>> # <<s, u>> => runners'[x][v] = runners[x][v]
    BY <1>a, <1>2 DEF AcceptTask
  <2>2. CASE u # t
    <3>1. \A x \in Thread, i \in Nat :
             /\ At(t, "pass", x, i)' => At(t, "pass", x, i)
             /\ At(t, "run", x, i)' => At(t, "run", x, i)
             /\ x # s /\ At(t, "mail", x, i)' => At(t, "mail", x, i)
             /\ At(t, "mail", s, i)' => At(t, "mail", s, i + 1)
      BY <1>a, <2>1, <2>2, ReadShifts DEF At
    <3>. QED
      BY <1>a, <1>b, <2>1, <3>1 DEF OneAt, Kind
  <2>3. CASE u = t
    <3>1. At(t, "mail", s, 1) /\ 1 \in Nat /\ "mail" \in Kind
      BY <1>a, <2>1, <2>3, ReadShifts DEF At, Kind
    <3>2. /\ status[t] \notin {"none", "pending"}
          /\ \A k \in Kind, x \in Thread, i \in Nat :
                At(t, k, x, i) => k = "mail" /\ x = s /\ i = 1
      BY <1>a, <1>b, <3>1 DEF OneAt
    <3>3. \A x \in Thread, i \in Nat : ~At(t, "pass", x, i)'
      <4>1. \A x \in Thread, i \in Nat : At(t, "pass", x, i)' => At(t, "pass", x, i)
        BY <2>1 DEF At
      <4>. QED
        BY <3>2, <4>1 DEF Kind
    <3>4. \A x \in Thread, i \in Nat : ~At(t, "mail", x, i)'
      <4>1. \A x \in Thread, i \in Nat :
               /\ x # s /\ At(t, "mail", x, i)' => At(t, "mail", x, i)
               /\ At(t, "mail", s, i)' => At(t, "mail", s, i + 1) /\ i > 0
        BY <1>a, <2>1, ReadShifts DEF At
      <4>. QED
        BY <1>a, <3>2, <4>1 DEF Kind
    <3>5. \A x \in Thread, i \in Nat : At(t, "run", x, i)' => x = s /\ i = 0
      <4>1. \A x \in Thread, i \in Nat :
               At(t, "run", x, i)' => i = 0 /\ (x = s \/ At(t, "run", x, i))
        BY <2>1 DEF At
      <4>. QED
        BY <3>2, <4>1 DEF Kind
    <3>. QED
      BY <2>1, <3>2, <3>3, <3>4, <3>5 DEF OneAt, Kind
  <2>. QED
    BY <2>2, <2>3
<1>3. CASE StopClient(s)
  BY <1>3 DEF StopClient, HolderInv, WholeInv
<1>. QED
  BY <1>1, <1>2, <1>3 DEF ReadLoop

(* Nothing else brings a task to a new place.                              *)
LEMMA HolderStep ==
  ASSUME DispatchInv, HolderInv, Next, "break" \notin Faults, NEW t \in Task
  PROVE  OneAt(t)'
<1>0. Next
  OBVIOUS
<1>a. /\ TypeOK /\ Session \subseteq Thread
      /\ status \in [Task -> Status]
      /\ tick \in [Thread -> Pass]
      /\ runners \in [Session -> [Task -> {"none", "working", "completed", "failed", "hung"}]]
      /\ \A s \in Session : report[s].pc \in {"poll", "sent", "deleted"}
  BY DEF DispatchInv, TypeOK, StoreTypeOK, Thread, Pass
<1>b. OneAt(t)
  BY DEF HolderInv
<1>1. ASSUME NEW u \in Task, Create(u) \/ Cancel(u)
      PROVE  OneAt(t)'
  <2>1. UNCHANGED <<tick, runners, toWorker>>
    BY <1>1 DEF Create, Cancel
  <2>2. status'[t] \in {"none", "pending"} => status[t] \in {"none", "pending"}
    BY <1>a, <1>1 DEF Create, Cancel, CreateTask, CancelTask, Known
  <2>. QED
    BY <1>b, <2>1, <2>2, SettledIsOne DEF Settled, At
<1>2. ASSUME NEW s \in Session,
             HandleRegister(s) \/ SetConn(s) \/ DecrementRunningTasks(s)
      PROVE  OneAt(t)'
  <2>1. UNCHANGED <<tick, runners, toWorker, status>>
    BY <1>2 DEF HandleRegister, SetConn, DecrementRunningTasks
  <2>. QED
    BY <1>b, <2>1, SettledIsOne DEF Settled, At
<1>3. ASSUME NEW s \in Session, Respond(s) \/ AckResult(s)
      PROVE  OneAt(t)'
  <2>1. /\ UNCHANGED <<tick, runners, status>>
        /\ \/ UNCHANGED toWorker
           \/ \E c, ok : MasterWrites(c, ReplyMsg, ok)
    BY <1>3 DEF Respond, AckResult, MasterReplies
  <2>2. \A x \in Session : \A i \in DOMAIN toWorker'[x] :
           toWorker'[x][i] = AssignMsg(t) =>
              i \in DOMAIN toWorker[x] /\ toWorker[x][i] = AssignMsg(t)
    BY <1>a, <2>1, RepliesAssignNothing
  <2>. QED
    BY <1>b, <2>1, <2>2, SettledIsOne DEF Settled, At
<1>4. ASSUME NEW s \in Session, HandleResult(s)
      PROVE  OneAt(t)'
  <2>1. UNCHANGED <<tick, runners, toWorker>>
    BY <1>4 DEF HandleResult
  <2>2. status'[t] \in {"none", "pending"} => status[t] \in {"none", "pending"}
    BY <1>a, <1>4 DEF HandleResult, StoreResult, CompleteTask, FailTask, Finish
  <2>. QED
    BY <1>b, <2>1, <2>2, SettledIsOne DEF Settled, At
<1>5. ASSUME NEW s \in Session, HandlePull(s)
      PROVE  OneAt(t)'
  <2>1. /\ UNCHANGED <<runners, toWorker, status>>
        /\ tick'[s].pc = "list"
        /\ \A x \in Thread \ {s} : tick'[x] = tick[x]
    BY <1>a, <1>5 DEF HandlePull, Rest
  <2>. QED
    BY <1>b, <2>1, SettledIsOne DEF Settled, At
<1>6. ASSUME NEW s \in Session, Disconnect(s) \/ Reassign(s) \/ ResetRunningTasks(s) \/ BreakLink(s)
      PROVE  FALSE
  BY <1>6 DEF Disconnect, Reassign, ResetRunningTasks, BreakLink, Fault, HolderInv, WholeInv
<1>7. ASSUME NEW s \in Session, ReportLoop(s)
      PROVE  OneAt(t)'
  <2>1. /\ UNCHANGED <<tick, toWorker, status>>
        /\ \A x \in Session : runners'[x][t] # "none" => runners[x][t] # "none"
    BY <1>a, <1>7 DEF ReportLoop, SendResult, ForgetTask, PullNext
  <2>. QED
    BY <1>b, <2>1, SettledIsOne DEF Settled, At
<1>8. ASSUME NEW s \in Session, NEW u \in Task, RunnerStep(s, u) \/ RunnerHangs(s, u)
      PROVE  OneAt(t)'
  <2>1. /\ UNCHANGED <<tick, toWorker, status>>
        /\ \A x \in Session : runners'[x][t] # "none" => runners[x][t] # "none"
    BY <1>a, <1>8 DEF RunnerStep, RunnerEnds, RunnerHangs
  <2>. QED
    BY <1>b, <2>1, SettledIsOne DEF Settled, At
<1>9. ASSUME \/ \E s \in Session, w \in Worker : StartClient(s, w)
             \/ \E w \in Worker : MarkOffline(w)
      PROVE  OneAt(t)'
  <2>1. UNCHANGED <<tick, runners, toWorker, status>>
    BY <1>9 DEF StartClient, MarkOffline
  <2>. QED
    BY <1>b, <2>1, SettledIsOne DEF Settled, At
<1>10. ASSUME NEW s \in Session, HandlerStep(s)
       PROVE  OneAt(t)'
  BY <1>2, <1>3, <1>4, <1>5, <1>6, <1>10 DEF HandlerStep
<1>. QED
  BY <1>0, <1>1, <1>6, <1>7, <1>8, <1>9, <1>10, PassMoves, ReaderMoves DEF Next

(* However many scheduling passes go over the queue at the same time, and  *)
(* however late heartbeats are, a task that is assigned is with one worker *)
(* or on its way to one: two workers never scan the same shard as long as  *)
(* no connection breaks.                                                   *)
THEOREM OneHolderHolds ==
  ASSUME "break" \notin Faults
  PROVE  Spec => []OneHolder
<1>1. Init => HolderInv
  BY DEF Init, StoreInit, NoRunners, Rest, HolderInv, WholeInv, OneAt, At
<1>2. DispatchInv /\ HolderInv /\ [Next]_vars => HolderInv'
  <2>1. CASE Next
    BY <2>1, WholeStep, HolderStep DEF HolderInv
  <2>2. CASE UNCHANGED vars
    BY <2>2 DEF vars, HolderInv, WholeInv, OneAt, At
  <2>. QED
    BY <2>1, <2>2
<1>3. HolderInv => OneHolder
  <2>1. SUFFICES ASSUME HolderInv, NEW t \in Task
                 PROVE  Cardinality(Holders(t)) <= 1
    BY DEF OneHolder
  <2>2. OneAt(t) /\ Session \subseteq Thread
    BY <2>1 DEF HolderInv, Thread
  <2>3. ASSUME NEW a \in Holders(t), NEW b \in Holders(t)
        PROVE  a = b
    <3>1. ASSUME NEW h \in Holders(t)
          PROVE  \/ h \in Session /\ At(t, "run", h, 0)
                 \/ /\ h = <<h[1], h[2]>> /\ h[1] \in Session /\ h[2] \in Nat
                    /\ At(t, "mail", h[1], h[2])
      <4>1. CASE h \in InFlight(t)
        BY <2>2, <4>1 DEF InFlight, At
      <4>2. CASE h \in Session /\ runners[h][t] # "none"
        BY <4>2 DEF At
      <4>. QED
        BY <4>1, <4>2 DEF Holders
    <3>. QED
      BY <2>2, <3>1 DEF OneAt, Kind
  <2>4. CASE Holders(t) = {}
    BY <2>4, FS_EmptySet
  <2>5. ASSUME NEW h \in Holders(t) PROVE Cardinality(Holders(t)) <= 1
    <3>1. Holders(t) = {h}
      BY <2>3
    <3>. QED
      BY <3>1, FS_Singleton
  <2>. QED
    BY <2>4, <2>5
<1>. QED
  BY <1>1, <1>2, <1>3, DispatchInvariant, PTL DEF Spec

=============================================================================
