------------------------------- MODULE Dispatch -------------------------------
(***************************************************************************)
(* How the shared library's master hands tasks to its workers              *)
(* (internal/master/task_scheduler.go, worker_store.go, handler.go and     *)
(* internal/worker/client.go).  It composes the task store of module       *)
(* TaskStore with                                                          *)
(*   - the worker store: who is online, how many tasks each worker is      *)
(*     counted to run, and the connection that reaches it;                 *)
(*   - the scheduler: Tick runs in the scheduler's own loop and, at the    *)
(*     same time, in every connection handler that serves a pull; it locks *)
(*     one store call at a time, so each call is a step;                   *)
(*   - one handler goroutine per WebSocket, and the client at its other    *)
(*     end with its read loop, report loop and task runners.               *)
(* A session is one Client value with its socket and its handler.  A       *)
(* worker that restarts or reconnects does so in a new session under the   *)
(* same UUID.  Progress reports, heartbeats and the dashboard change only  *)
(* what is displayed and are left out.                                     *)
(***************************************************************************)
EXTENDS TaskStore

CONSTANTS
    Session,        \* sessions that may ever start
    NoSession,      \* no connection
    NoTask,         \* no task
    Loop,           \* the scheduler's own thread
    MaxTasks,       \* WorkerCapabilities.MaxTasks
    Ops,            \* optional operator calls: "cancel"
    Faults,         \* faults that may happen: "break", "late", "hang"
    MaxFaults       \* how many of them

ASSUME DispatchAssumption ==
    /\ IsFiniteSet(Session)
    /\ NoSession \notin Session
    /\ Loop \notin Session
    /\ NoTask \notin Task
    /\ MaxTasks \in Nat \ {0}
    /\ MaxFaults \in Nat

VARIABLES
    online,     \* WorkerInfo.Online
    running,    \* WorkerInfo.RunningTasks
    conns,      \* WorkerStore.conns
    uuid,       \* the worker of a session, NoWorker before it starts
    link,       \* the socket: "none", "open", "closed"
    muted,      \* SafeConn.closed: writes succeed and go nowhere
    toMaster,   \* what the client wrote and the handler has not read
    toWorker,   \* what the master wrote and the client has not read
    handler,    \* where a handler goroutine is
    named,      \* sessions whose handler knows its worker's UUID
    tick,       \* the scheduling pass each thread is in
    client,     \* "off", "registering", "up", "stopped"
    runners,    \* Client.tasks, with what each runner is doing
    report,     \* where a client's report loop is
    ran,        \* history: how far any runner ever got with a task
    faults      \* how many faults happened

storeState   == <<online, running, conns>>
netState     == <<link, muted, toMaster, toWorker>>
clientState  == <<client, runners, report>>
handlerState == <<handler, named>>
vars == <<storeVars, storeState, uuid, netState, handlerState, tick,
          clientState, ran, faults>>

Thread == Session \cup {Loop}

\* Messages.  Of the master's replies only those that a client can read as the
\* answer to its registration matter; a running client skips every reply.
RegisterMsg == [type |-> "register"]
PullMsg == [type |-> "pull"]
ReplyMsg == [type |-> "reply"]
ResultMsg(t, o) == [type |-> "result", task |-> t, outcome |-> o]
AssignMsg(t) == [type |-> "assign", task |-> t]

\* Thread Loop rests at the top of a pass; a handler rests outside of one.
Rest(th) == [pc |-> IF th = Loop THEN "list" ELSE "off",
             idle |-> {}, task |-> NoTask, worker |-> NoWorker,
             conn |-> NoSession]

Polling == [pc |-> "poll", task |-> NoTask]
NoRunners == [t \in Task |-> "none"]

\* Client.tasks
TasksOf(s) == {t \in Task : runners[s][t] # "none"}

-----------------------------------------------------------------------------
Init ==
    /\ StoreInit
    /\ online = [w \in Worker |-> FALSE]
    /\ running = [w \in Worker |-> 0]
    /\ conns = [w \in Worker |-> NoSession]
    /\ uuid = [s \in Session |-> NoWorker]
    /\ link = [s \in Session |-> "none"]
    /\ muted = [s \in Session |-> FALSE]
    /\ toMaster = [s \in Session |-> <<>>]
    /\ toWorker = [s \in Session |-> <<>>]
    /\ handler = [s \in Session |-> "none"]
    /\ named = {}
    /\ tick = [th \in Thread |-> Rest(th)]
    /\ client = [s \in Session |-> "off"]
    /\ runners = [s \in Session |-> NoRunners]
    /\ report = [s \in Session |-> Polling]
    /\ ran = [t \in Task |-> "never"]
    /\ faults = 0

\* A client's write to a broken socket fails, and no caller looks at the error.
ClientSends(s, m) ==
    toMaster' = [toMaster EXCEPT ![s] = IF link[s] = "open" THEN Append(@, m)
                                                            ELSE @]

\* SafeConn.Write; ok is whether it returned nil.
MasterWrites(s, m, ok) ==
    \/ /\ muted[s] /\ ok
       /\ UNCHANGED toWorker
    \/ /\ ~muted[s] /\ link[s] = "open" /\ ok
       /\ toWorker' = [toWorker EXCEPT ![s] = Append(@, m)]
    \/ /\ ~muted[s] /\ link[s] = "closed" /\ ok \in BOOLEAN
       /\ UNCHANGED toWorker

\* A reply to a client that is past its registration would be skipped.
MasterReplies(s) ==
    IF client[s] = "registering"
    THEN \E ok \in BOOLEAN : MasterWrites(s, ReplyMsg, ok)
    ELSE UNCHANGED toWorker

-----------------------------------------------------------------------------
(***************************************************************************)
(* The operator: creates tasks and cancels them in the store.              *)
(***************************************************************************)
Create(t) ==
    /\ CreateTask(t)
    /\ UNCHANGED <<storeState, uuid, netState, handlerState, tick, clientState,
                   ran, faults>>

\* Mutant: a finished task is cancelled as well.
CancelFinished(t) ==
    /\ "cancel" \in Ops
    /\ Known(t)
    /\ status' = [status EXCEPT ![t] = "cancelled"]
    /\ pendingQ' = Without(pendingQ, t)
    /\ UNCHANGED <<assignedTo, handedOut, taken, storeState, uuid, netState,
                   handlerState, tick, clientState, ran, faults>>

Cancel(t) ==
    /\ "cancel" \in Ops
    /\ CancelTask(t)
    /\ UNCHANGED <<storeState, uuid, netState, handlerState, tick, clientState,
                   ran, faults>>

-----------------------------------------------------------------------------
(***************************************************************************)
(* TaskScheduler.Tick in thread th.                                        *)
(***************************************************************************)
TickGoto(th, r) == tick' = [tick EXCEPT ![th] = r]

TickUnchanged == UNCHANGED <<uuid, link, muted, toMaster, handlerState,
                             clientState, ran, faults>>

\* getIdleWorkers copies the list under the lock; the copy ages from here on.
IdleWorkers == {w \in Worker : online[w] /\ running[w] < MaxTasks}

TickList(th) ==
    /\ tick[th].pc = "list"
    /\ TickGoto(th, IF IdleWorkers = {} THEN Rest(th)
                    ELSE [Rest(th) EXCEPT !.pc = "next", !.idle = IdleWorkers])
    /\ TickUnchanged
    /\ UNCHANGED <<storeVars, storeState, toWorker>>

\* GetPending reads the head of the queue whatever its status is.
TickNext(th) ==
    /\ tick[th].pc = "next"
    /\ TickGoto(th, IF pendingQ = <<>> \/ tick[th].idle = {} THEN Rest(th)
                    ELSE [tick[th] EXCEPT !.pc = "assign",
                                          !.task = Head(pendingQ)])
    /\ TickUnchanged
    /\ UNCHANGED <<storeVars, storeState, toWorker>>

\* Mutant: the answer of AssignTask is not looked at.
TickAssignUnchecked(th, w) ==
    /\ tick[th].pc = "assign"
    /\ w \in tick[th].idle
    /\ AssignTask(tick[th].task, w)
    /\ TickGoto(th, [tick[th] EXCEPT !.pc = "conn", !.idle = @ \ {w},
                                     !.worker = w])
    /\ TickUnchanged
    /\ UNCHANGED <<storeState, toWorker>>

\* The idle worker is used up even when AssignTask returns nil.
TickAssign(th, w) ==
    /\ tick[th].pc = "assign"
    /\ w \in tick[th].idle
    /\ AssignTask(tick[th].task, w)
    /\ LET rest == tick[th].idle \ {w} IN
       TickGoto(th, IF status[tick[th].task] = "pending"
                    THEN [tick[th] EXCEPT !.pc = "conn", !.idle = rest,
                                          !.worker = w]
                    ELSE [Rest(th) EXCEPT !.pc = "next", !.idle = rest])
    /\ TickUnchanged
    /\ UNCHANGED <<storeState, toWorker>>

TickGetConn(th) ==
    /\ tick[th].pc = "conn"
    /\ LET c == conns[tick[th].worker] IN
       TickGoto(th, IF c = NoSession
                    THEN [tick[th] EXCEPT !.pc = "undo"]
                    ELSE [tick[th] EXCEPT !.pc = "write", !.conn = c])
    /\ TickUnchanged
    /\ UNCHANGED <<storeVars, storeState, toWorker>>

TickWrite(th) ==
    /\ tick[th].pc = "write"
    /\ \E ok \in BOOLEAN :
        /\ MasterWrites(tick[th].conn, AssignMsg(tick[th].task), ok)
        /\ TickGoto(th, [tick[th] EXCEPT !.pc = IF ok THEN "count" ELSE "undo",
                                         !.conn = NoSession])
    /\ TickUnchanged
    /\ UNCHANGED <<storeVars, storeState>>

\* Mutant: a task that could not be sent is not put back.
TickGiveUp(th) ==
    /\ tick[th].pc = "undo"
    /\ TickGoto(th, [Rest(th) EXCEPT !.pc = "next", !.idle = tick[th].idle])
    /\ TickUnchanged
    /\ UNCHANGED <<storeVars, storeState, toWorker>>

\* Mutant: the task is queued again whoever has it now.
TickRequeue(th) ==
    /\ tick[th].pc = "undo"
    /\ status' = [status EXCEPT ![tick[th].task] = "pending"]
    /\ assignedTo' = [assignedTo EXCEPT ![tick[th].task] = NoWorker]
    /\ pendingQ' = Append(pendingQ, tick[th].task)
    /\ TickGoto(th, [Rest(th) EXCEPT !.pc = "next", !.idle = tick[th].idle])
    /\ TickUnchanged
    /\ UNCHANGED <<handedOut, taken, storeState, toWorker>>

TickUndo(th) ==
    /\ tick[th].pc = "undo"
    /\ ReassignTask(tick[th].task)
    /\ TickGoto(th, [Rest(th) EXCEPT !.pc = "next", !.idle = tick[th].idle])
    /\ TickUnchanged
    /\ UNCHANGED <<storeState, toWorker>>

\* Mutant: the worker is marked busy, not counted.
TickMarkBusy(th) ==
    /\ tick[th].pc = "count"
    /\ running' = [running EXCEPT ![tick[th].worker] = 1]
    /\ TickGoto(th, [Rest(th) EXCEPT !.pc = "next", !.idle = tick[th].idle])
    /\ TickUnchanged
    /\ UNCHANGED <<storeVars, online, conns, toWorker>>

\* IncrementRunningTasks.  The fields set just before it are those of a copy.
TickCount(th) ==
    /\ tick[th].pc = "count"
    /\ running' = [running EXCEPT ![tick[th].worker] = @ + 1]
    /\ TickGoto(th, [Rest(th) EXCEPT !.pc = "next", !.idle = tick[th].idle])
    /\ TickUnchanged
    /\ UNCHANGED <<storeVars, online, conns, toWorker>>

TickStep(th) ==
    \/ TickList(th)
    \/ TickNext(th)
    \/ \E w \in Worker : TickAssign(th, w)
    \/ TickGetConn(th)
    \/ TickWrite(th)
    \/ TickUndo(th)
    \/ TickCount(th)

-----------------------------------------------------------------------------
(***************************************************************************)
(* The handler goroutine of session s.                                     *)
(***************************************************************************)
HandlerGoto(s, pc) == handler' = [handler EXCEPT ![s] = pc]

\* A message is read only when the handler is between messages: a pull's
\* scheduling pass runs inside the handler.
Reads(s, m) ==
    /\ handler[s] = "read"
    /\ tick[s].pc = "off"
    /\ toMaster[s] # <<>>
    /\ m = Head(toMaster[s])
    /\ toMaster' = [toMaster EXCEPT ![s] = Tail(@)]

HandlerUnchanged == UNCHANGED <<uuid, link, clientState, ran, faults>>

HandleRegister(s) ==
    /\ Reads(s, RegisterMsg)
    /\ online' = [online EXCEPT ![uuid[s]] = TRUE]
    /\ running' = [running EXCEPT ![uuid[s]] = 0]
    /\ named' = named \cup {s}
    /\ HandlerGoto(s, "setconn")
    /\ HandlerUnchanged
    /\ UNCHANGED <<storeVars, conns, muted, toWorker, tick>>

SetConn(s) ==
    /\ handler[s] = "setconn"
    /\ conns' = [conns EXCEPT ![uuid[s]] = s]
    /\ HandlerGoto(s, "respond")
    /\ HandlerUnchanged
    /\ UNCHANGED <<storeVars, online, running, muted, toMaster, toWorker, named,
                   tick>>

\* The rest of handleRegister.  OnWorkerConnect finds an empty event queue:
\* nothing in the library ever fills one.
Respond(s) ==
    /\ handler[s] = "respond"
    /\ \E ok \in BOOLEAN : MasterWrites(s, ReplyMsg, ok)
    /\ HandlerGoto(s, "read")
    /\ HandlerUnchanged
    /\ UNCHANGED <<storeVars, storeState, muted, toMaster, named, tick>>

\* Mutant: every result completes its task.
CompleteAlways(t, o) == CompleteTask(t)

StoreResult(t, o) == IF o = "completed" THEN CompleteTask(t) ELSE FailTask(t)

HandleResult(s) ==
    \E t \in Task, o \in {"completed", "failed"} :
        /\ Reads(s, ResultMsg(t, o))
        /\ StoreResult(t, o)
        /\ HandlerGoto(s, "decrement")
        /\ HandlerUnchanged
        /\ UNCHANGED <<storeState, muted, toWorker, named, tick>>

\* Mutant: the count goes below zero.
DecrementUnclamped(s) ==
    /\ handler[s] = "decrement"
    /\ running' = [running EXCEPT ![uuid[s]] = @ - 1]
    /\ HandlerGoto(s, "ack")
    /\ HandlerUnchanged
    /\ UNCHANGED <<storeVars, online, conns, muted, toMaster, toWorker, named,
                   tick>>

DecrementRunningTasks(s) ==
    /\ handler[s] = "decrement"
    /\ running' = [running EXCEPT ![uuid[s]] = IF @ > 0 THEN @ - 1 ELSE 0]
    /\ HandlerGoto(s, "ack")
    /\ HandlerUnchanged
    /\ UNCHANGED <<storeVars, online, conns, muted, toMaster, toWorker, named,
                   tick>>

\* The acknowledgement goes to the connection the store has for the worker
\* now.  When it has none, the write through a nil *SafeConn panics: net/http
\* recovers the goroutine, whose read loop and its disconnect never run again.
AckResult(s) ==
    /\ handler[s] = "ack"
    /\ LET c == conns[uuid[s]] IN
       IF c = NoSession
       THEN /\ HandlerGoto(s, "panicked")
            /\ UNCHANGED toWorker
       ELSE /\ MasterReplies(c)
            /\ HandlerGoto(s, "read")
    /\ HandlerUnchanged
    /\ UNCHANGED <<storeVars, storeState, muted, toMaster, named, tick>>

\* handlePull runs Tick in the handler's own goroutine.
HandlePull(s) ==
    /\ Reads(s, PullMsg)
    /\ tick' = [tick EXCEPT ![s] = [Rest(s) EXCEPT !.pc = "list"]]
    /\ HandlerUnchanged
    /\ UNCHANGED <<storeVars, storeState, muted, toWorker, handlerState>>

\* ReadMessage fails: WorkerStore.Disconnect, then the two store calls of
\* OnWorkerDisconnect.  They name the worker, not the connection.
Disconnect(s) ==
    /\ handler[s] = "read"
    /\ tick[s].pc = "off"
    /\ link[s] = "closed"
    /\ toMaster[s] = <<>>
    /\ IF s \in named
       THEN LET c == conns[uuid[s]] IN
            /\ online' = [online EXCEPT ![uuid[s]] = FALSE]
            /\ conns' = [conns EXCEPT ![uuid[s]] = NoSession]
            /\ muted' = [i \in Session |-> muted[i] \/ i = c]
            /\ HandlerGoto(s, "reassign")
       ELSE /\ muted' = [muted EXCEPT ![s] = TRUE]
            /\ HandlerGoto(s, "gone")
            /\ UNCHANGED <<online, conns>>
    /\ HandlerUnchanged
    /\ UNCHANGED <<storeVars, running, toMaster, toWorker, named, tick>>

\* Mutant: the tasks of the worker are left alone.
KeepTasks(s) ==
    /\ handler[s] = "reassign"
    /\ HandlerGoto(s, "reset")
    /\ HandlerUnchanged
    /\ UNCHANGED <<storeVars, storeState, muted, toMaster, toWorker, named, tick>>

Reassign(s) ==
    /\ handler[s] = "reassign"
    /\ ReassignWorkerTasks(uuid[s])
    /\ HandlerGoto(s, "reset")
    /\ HandlerUnchanged
    /\ UNCHANGED <<storeState, muted, toMaster, toWorker, named, tick>>

ResetRunningTasks(s) ==
    /\ handler[s] = "reset"
    /\ running' = [running EXCEPT ![uuid[s]] = 0]
    /\ muted' = [muted EXCEPT ![s] = TRUE]
    /\ HandlerGoto(s, "gone")
    /\ HandlerUnchanged
    /\ UNCHANGED <<storeVars, online, conns, toMaster, toWorker, named, tick>>

HandlerStep(s) ==
    \/ HandleRegister(s)
    \/ SetConn(s)
    \/ Respond(s)
    \/ HandleResult(s)
    \/ DecrementRunningTasks(s)
    \/ AckResult(s)
    \/ HandlePull(s)
    \/ Disconnect(s)
    \/ Reassign(s)
    \/ ResetRunningTasks(s)

-----------------------------------------------------------------------------
(***************************************************************************)
(* The client of session s.                                                *)
(***************************************************************************)
ClientUnchanged == UNCHANGED <<storeVars, storeState, muted, handlerState, tick>>

\* Client.Run up to the wait for the answer to the registration.  A worker
\* runs one client at a time.
StartClient(s, w) ==
    /\ client[s] = "off"
    /\ \A other \in Session : uuid[other] = w => client[other] = "stopped"
    /\ uuid' = [uuid EXCEPT ![s] = w]
    /\ link' = [link EXCEPT ![s] = "open"]
    /\ handler' = [handler EXCEPT ![s] = "read"]
    /\ client' = [client EXCEPT ![s] = "registering"]
    /\ toMaster' = [toMaster EXCEPT ![s] = <<RegisterMsg>>]
    /\ UNCHANGED <<storeVars, storeState, muted, toWorker, named, tick, runners,
                   report, ran, faults>>

ClientReads(s) ==
    /\ toWorker[s] # <<>>
    /\ toWorker' = [toWorker EXCEPT ![s] = Tail(@)]

\* register takes whatever comes first for the answer, then Run pulls.
FinishRegistration(s) ==
    /\ client[s] = "registering"
    /\ ClientReads(s)
    /\ client' = [client EXCEPT ![s] = "up"]
    /\ ClientSends(s, PullMsg)
    /\ ClientUnchanged
    /\ UNCHANGED <<uuid, link, runners, report, ran, faults>>

SkipReply(s) ==
    /\ client[s] = "up"
    /\ ClientReads(s)
    /\ Head(toWorker[s]) = ReplyMsg
    /\ ClientUnchanged
    /\ UNCHANGED <<uuid, link, toMaster, clientState, ran, faults>>

HasCapacity(s) == Cardinality(TasksOf(s)) < MaxTasks

AcceptTask(s, t) ==
    /\ client[s] = "up"
    /\ ClientReads(s)
    /\ Head(toWorker[s]) = AssignMsg(t)
    /\ HasCapacity(s)
    /\ runners' = [runners EXCEPT ![s][t] = "working"]
    /\ ran' = [ran EXCEPT ![t] = IF @ = "never" THEN "started" ELSE @]
    /\ ClientUnchanged
    /\ UNCHANGED <<uuid, link, toMaster, client, report, faults>>

RejectTask(s, t) ==
    /\ client[s] = "up"
    /\ ClientReads(s)
    /\ Head(toWorker[s]) = AssignMsg(t)
    /\ ~HasCapacity(s)
    /\ ClientSends(s, ResultMsg(t, "failed"))
    /\ ClientUnchanged
    /\ UNCHANGED <<uuid, link, clientState, ran, faults>>

\* TaskRunner.run ends with a result in its channel.
RunnerEnds(s, t, o) ==
    /\ runners[s][t] = "working"
    /\ runners' = [runners EXCEPT ![s][t] = o]
    /\ ran' = [ran EXCEPT ![t] = IF o = "completed" THEN o ELSE @]
    /\ ClientUnchanged
    /\ UNCHANGED <<uuid, link, toMaster, toWorker, client, report, faults>>

\* The report loop sends the result, then forgets the task, then pulls.
SendResult(s, t) ==
    /\ report[s].pc = "poll"
    /\ runners[s][t] \in {"completed", "failed"}
    /\ ClientSends(s, ResultMsg(t, runners[s][t]))
    /\ report' = [report EXCEPT ![s] = [pc |-> "sent", task |-> t]]
    /\ ClientUnchanged
    /\ UNCHANGED <<uuid, link, toWorker, client, runners, ran, faults>>

ForgetTask(s) ==
    /\ report[s].pc = "sent"
    /\ runners' = [runners EXCEPT ![s][report[s].task] = "none"]
    /\ report' = [report EXCEPT ![s] = [pc |-> "deleted", task |-> NoTask]]
    /\ ClientUnchanged
    /\ UNCHANGED <<uuid, link, toMaster, toWorker, client, ran, faults>>

PullNext(s) ==
    /\ report[s].pc = "deleted"
    /\ ClientSends(s, PullMsg)
    /\ report' = [report EXCEPT ![s] = Polling]
    /\ ClientUnchanged
    /\ UNCHANGED <<uuid, link, toWorker, client, runners, ran, faults>>

\* The read loop's error stops the client and every runner it has.
StopClient(s) ==
    /\ client[s] \in {"registering", "up"}
    /\ link[s] = "closed"
    /\ toWorker[s] = <<>>
    /\ client' = [client EXCEPT ![s] = "stopped"]
    /\ runners' = [runners EXCEPT ![s] = NoRunners]
    /\ report' = [report EXCEPT ![s] = Polling]
    /\ ClientUnchanged
    /\ UNCHANGED <<uuid, link, toMaster, toWorker, ran, faults>>

ReadLoop(s) ==
    \/ FinishRegistration(s)
    \/ SkipReply(s)
    \/ \E t \in Task : AcceptTask(s, t) \/ RejectTask(s, t)
    \/ StopClient(s)

ReportLoop(s) ==
    \/ \E t \in Task : SendResult(s, t)
    \/ ForgetTask(s)
    \/ PullNext(s)

RunnerStep(s, t) == \E o \in {"completed", "failed"} : RunnerEnds(s, t, o)

-----------------------------------------------------------------------------
(***************************************************************************)
(* Faults.                                                                 *)
(***************************************************************************)
Fault(f) ==
    /\ f \in Faults
    /\ faults < MaxFaults
    /\ faults' = faults + 1

Prefixes(q) == {SubSeq(q, 1, n) : n \in 0 .. Len(q)}

\* A socket breaks, or the process at its end dies: what was sent last is lost.
BreakLink(s) ==
    /\ Fault("break")
    /\ link[s] = "open"
    /\ link' = [link EXCEPT ![s] = "closed"]
    /\ \E q \in Prefixes(toMaster[s]) : toMaster' = [toMaster EXCEPT ![s] = q]
    /\ \E q \in Prefixes(toWorker[s]) : toWorker' = [toWorker EXCEPT ![s] = q]
    /\ ClientUnchanged
    /\ UNCHANGED <<uuid, clientState, ran>>

\* offlineDetector: the heartbeats of 45 seconds did not arrive.
MarkOffline(w) ==
    /\ Fault("late")
    /\ online[w]
    /\ online' = [online EXCEPT ![w] = FALSE]
    /\ conns' = [conns EXCEPT ![w] = NoSession]
    /\ UNCHANGED <<storeVars, running, uuid, netState, handlerState, tick,
                   clientState, ran>>

\* masscan fails on every range: run returns without a result.
RunnerHangs(s, t) ==
    /\ Fault("hang")
    /\ runners[s][t] = "working"
    /\ runners' = [runners EXCEPT ![s][t] = "hung"]
    /\ ClientUnchanged
    /\ UNCHANGED <<uuid, link, toMaster, toWorker, client, report, ran>>

-----------------------------------------------------------------------------
Next ==
    \/ \E t \in Task : Create(t) \/ Cancel(t)
    \/ \E th \in Thread : TickStep(th)
    \/ \E s \in Session : \/ HandlerStep(s)
                          \/ ReadLoop(s)
                          \/ ReportLoop(s)
                          \/ BreakLink(s)
    \/ \E s \in Session, w \in Worker : StartClient(s, w)
    \/ \E s \in Session, t \in Task : RunnerStep(s, t) \/ RunnerHangs(s, t)
    \/ \E w \in Worker : MarkOffline(w)

Spec == Init /\ [][Next]_vars

\* Every goroutine that can take a step takes one in the end: the scheduler's
\* ticker, each handler and each client loop.  A scan ends in the end, too.
\* The operator and the starting of workers are under no obligation.
Fairness ==
    /\ \A th \in Thread : WF_vars(TickStep(th))
    /\ \A s \in Session : /\ WF_vars(HandlerStep(s))
                          /\ WF_vars(ReadLoop(s))
                          /\ WF_vars(ReportLoop(s))
    /\ \A s \in Session, t \in Task : WF_vars(RunnerStep(s, t))

FairSpec == Spec /\ Fairness
-----------------------------------------------------------------------------
(* The type of the dispatcher's state.                                     *)
Message == {RegisterMsg, PullMsg, ReplyMsg}
           \cup {ResultMsg(t, o) : t \in Task, o \in {"completed", "failed"}}
           \cup {AssignMsg(t) : t \in Task}

TypeOK ==
    /\ StoreTypeOK
    /\ online \in [Worker -> BOOLEAN]
    /\ running \in [Worker -> Nat]
    /\ conns \in [Worker -> Session \cup {NoSession}]
    /\ uuid \in [Session -> Worker \cup {NoWorker}]
    /\ link \in [Session -> {"none", "open", "closed"}]
    /\ muted \in [Session -> BOOLEAN]
    /\ toMaster \in [Session -> Seq(Message)]
    /\ toWorker \in [Session -> Seq(Message)]
    /\ handler \in [Session -> {"none", "read", "setconn", "respond", "decrement",
                                "ack", "reassign", "reset", "gone", "panicked"}]
    /\ named \in SUBSET Session
    /\ tick \in [Thread ->
                   [pc : {"off", "list", "next", "assign", "conn", "write",
                          "undo", "count"},
                    idle : SUBSET Worker, task : Task \cup {NoTask},
                    worker : Worker \cup {NoWorker},
                    conn : Session \cup {NoSession}]]
    /\ client \in [Session -> {"off", "registering", "up", "stopped"}]
    /\ runners \in [Session -> [Task -> {"none", "working", "completed",
                                         "failed", "hung"}]]
    /\ report \in [Session -> [pc : {"poll", "sent", "deleted"},
                               task : Task \cup {NoTask}]]
    /\ ran \in [Task -> {"never", "started", "completed"}]
    /\ faults \in 0 .. MaxFaults

(* The scheduler, the handlers and the operator call the store only as     *)
(* StoreSpec allows: in particular every result that reaches it is for a   *)
(* task it had handed out.  What TaskStore_proofs shows of the queue and   *)
(* of the recorded status thus holds of them in the composed system; which *)
(* worker really has a task it does not say.                               *)
ImplementsStore == StoreSpec

(* A task is shown as completed only when a runner scanned it to its end:  *)
(* not when it was rejected, lost with its connection, or reported failed  *)
(* by one of two workers that had it.                                      *)
CompletedMeansRun ==
    \A t \in Task : status[t] = "completed" => ran[t] = "completed"

(* Unless a connection breaks, no task is at two places: it is in flight   *)
(* to one worker, or held by one runner, and never both, although several  *)
(* scheduling passes go over the same queue at the same time.              *)
InFlight(t) ==
    {p \in Session \X (1 .. Cardinality(Session) + Cardinality(Task)) :
        p[2] \in DOMAIN toWorker[p[1]] /\ toWorker[p[1]][p[2]] = AssignMsg(t)}

Holders(t) == {s \in Session : runners[s][t] # "none"} \cup InFlight(t)

OneHolder == \A t \in Task : Cardinality(Holders(t)) <= 1

(* When a worker has no connection left, its last handler is gone and no   *)
(* scheduling pass is on its way to it, no task is left assigned to it     *)
(* (task_scheduler.go:107, "OnWorkerDisconnect handles Worker              *)
(* disconnection: reassigns tasks and resets load").                       *)
Attended(w) ==
    \/ \E s \in Session :
           /\ uuid[s] = w
           /\ link[s] = "open" \/ handler[s] \notin {"gone", "panicked"}
    \/ \E th \in Thread : tick[th].worker = w

NoOrphan ==
    \A t \in Task, w \in Worker :
        assignedTo[t] = w /\ status[t] = "assigned" => Attended(w)

(* What worker w still owes the count in RunningTasks: the assignments it  *)
(* will read, the tasks it runs, and the results that are on their way.    *)
OfType(queue, mine, type) ==
    {p \in mine \X (1 .. 2 * Cardinality(Task) + 2) :
        p[2] \in DOMAIN queue[p[1]] /\ queue[p[1]][p[2]].type = type}

Owed(w) ==
    LET mine == {s \in Session : uuid[s] = w} IN
    Cardinality(OfType(toWorker, mine, "assign"))
    + Cardinality(OfType(toMaster, mine, "result"))
    + Cardinality(
        {p \in mine \X Task :
             /\ runners[p[1]][p[2]] \in {"working", "completed", "failed"}
             /\ report[p[1]] # [pc |-> "sent", task |-> p[2]]})
    + Cardinality({s \in mine : handler[s] = "decrement"})

(* As long as no connection has closed, RunningTasks is never below what   *)
(* the worker still owes, but for the assignments that a pass has sent and *)
(* is about to count: whatever order the passes, the results and the       *)
(* registration come in, no later pass takes a full worker for idle.       *)
Counting(w) == {th \in Thread : tick[th].pc = "count" /\ tick[th].worker = w}

CountCovers ==
    (\A s \in Session : link[s] # "closed")
        => \A w \in Worker : Owed(w) <= running[w] + Cardinality(Counting(w))

(* The count stays above what the worker will ever report: nothing lowers  *)
(* it to where the scheduler would call the worker idle again.             *)
Leaked(w) == running[w] > Owed(w)

(* Without faults, a task that waits while a worker is online is finished  *)
(* in the end.  The one exception is a worker whose RunningTasks was left  *)
(* too high: TickCount ran after the result it should have been counted    *)
(* before, or FinishRegistration swallowed the assignment.                 *)
FinishesUnlessLeaked ==
    \A t \in Task :
        (status[t] = "pending" /\ \E w \in Worker : online[w])
            ~> (Finished(t) \/ faults > 0 \/ \E w \in Worker : Leaked(w))

(* client.go:366: a worker at its limit sends a failure "so master         *)
(* reassigns".  Then a task that no runner ever started is not failed.     *)
FailedMeansRun ==
    \A t \in Task : status[t] = "failed" => ran[t] # "never"
=============================================================================
