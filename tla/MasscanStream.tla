---------------------------- MODULE MasscanStream ----------------------------
(***************************************************************************)
(* Phase 1 on one worker of the v2 system: the masscan process, the        *)
(* goroutine of RunStreaming that reads masscan's output file while it     *)
(* grows (internal/masscan/masscan.go), and the goroutine of the worker    *)
(* that stores what the stream delivers (v2/cmd/worker/main.go).           *)
(*                                                                         *)
(* masscan writes its file through a buffer, so the end of the file may    *)
(* lie inside a line.  A line is one open port of one host; what of it can *)
(* be in the file is abstracted to what a reader would make of it:         *)
(*   "none"  nothing                                                       *)
(*   "short" fewer than four fields: skipped                               *)
(*   "bad"   four fields, the last a truncated address: taken as it is     *)
(*   "full"  four fields with the whole address, no end of line yet        *)
(* Whatever remains of a line whose beginning was read before does not     *)
(* start with "open" and is skipped.                                       *)
(***************************************************************************)
EXTENDS Naturals, Sequences, FiniteSets

CONSTANTS
    Host,           \* addresses masscan may find
    Port,           \* MasscanJob.Ports
    BatchSize,      \* 500 in the code
    ChanSize,       \* 10 in the code
    MaxFails        \* bound on inserts that fail

ASSUME StreamAssumption ==
    /\ BatchSize \in Nat \ {0}
    /\ ChanSize \in Nat \ {0}
    /\ MaxFails \in Nat

VARIABLES
    targets,        \* the hosts in the input file
    masscan,        \* the process: "none", "running", "exited"
    out,            \* the lines masscan has written, to its buffer or the file
    file,           \* what the file holds of them: lines, and a piece of the next
    reader,         \* the program counter of RunStreaming's goroutine
    done,           \* its variable done
    pos,            \* its offset: lines, and the piece of the next it has passed
    seen,
    batch,
    chan,           \* the channel of StreamBatch
    worker,         \* the goroutine of the NATS handler
    stored,         \* rows of masscan_results
    cut,            \* history: hosts whose line was read in two pieces
    unsaved,        \* history: addresses of batches that could not be inserted
    fails           \* how many inserts failed

streamVars == <<targets, masscan, out, file, reader, done, pos, seen, batch,
                chan, worker, stored, cut, unsaved, fails>>
processVars == <<targets, masscan, out, file>>
workerVars == <<worker, stored, unsaved, fails>>

Line == [host : Host, port : Port]
Address == [host : Host, whole : BOOLEAN]
Found == [ip : Address, port : Port]

\* The address of a host, and what is left of it when its line is cut there.
Addr(h) == [host |-> h, whole |-> TRUE]
Bad(h) == [host |-> h, whole |-> FALSE]

AsFound(l) == [ip |-> Addr(l.host), port |-> l.port]
AsBad(l) == [ip |-> Bad(l.host), port |-> l.port]
Ips(found) == {found[i].ip : i \in DOMAIN found}

\* How much of a line a piece holds.
PieceNo == [none |-> 0, short |-> 1, bad |-> 2, full |-> 3]
Piece == DOMAIN PieceNo

\* StreamBatch{Done: true}
DoneBatch == <<>>

StreamInit ==
    /\ targets = {}
    /\ masscan = "none"
    /\ out = <<>>
    /\ file = [made |-> FALSE, lines |-> 0, piece |-> "none"]
    /\ reader = "off"
    /\ done = FALSE
    /\ pos = [lines |-> 0, piece |-> "none"]
    /\ seen = {}
    /\ batch = <<>>
    /\ chan = <<>>
    /\ worker = "idle"
    /\ stored = {}
    /\ cut = {}
    /\ unsaved = {}
    /\ fails = 0

\* The handler of masscan.<job>.<worker>.  Without a CIDR, or without masscan,
\* RunStreaming returns an error and the chunk is reported as done.
StartMasscan(hosts) ==
    /\ worker = "idle"
    /\ targets' = hosts
    /\ \/ /\ hosts # {}
          /\ masscan' = "running"
          /\ reader' = "check"
          /\ worker' = "receiving"
       \/ /\ worker' = "marked"
          /\ UNCHANGED <<masscan, reader>>
    /\ UNCHANGED <<out, file, done, pos, seen, batch, chan, stored, cut,
                   unsaved, fails>>

-----------------------------------------------------------------------------
(***************************************************************************)
(* The masscan process.                                                    *)
(***************************************************************************)
ProcessUnchanged ==
    UNCHANGED <<targets, reader, done, pos, seen, batch, chan, workerVars, cut>>

FindPort(h, p) ==
    /\ masscan = "running"
    /\ h \in targets
    /\ \A i \in DOMAIN out : out[i] # [host |-> h, port |-> p]
    /\ out' = Append(out, [host |-> h, port |-> p])
    /\ ProcessUnchanged
    /\ UNCHANGED <<masscan, file>>

\* A write to the file may end anywhere; the first one creates the file.
Flush ==
    /\ masscan = "running"
    /\ \E n \in file.lines .. Len(out), p \in Piece :
        /\ n = Len(out) => p = "none"
        /\ n = file.lines => PieceNo[p] >= PieceNo[file.piece]
        /\ file' = [made |-> TRUE, lines |-> n, piece |-> p]
        /\ file' # file
    /\ ProcessUnchanged
    /\ UNCHANGED <<masscan, out>>

\* masscan ends, having written everything, or dies with what the file has.
Exit ==
    /\ masscan = "running"
    /\ masscan' = "exited"
    /\ \/ file' = [made |-> file.made \/ out # <<>>, lines |-> Len(out),
                   piece |-> "none"]
       \/ UNCHANGED file
    /\ ProcessUnchanged
    /\ UNCHANGED out

-----------------------------------------------------------------------------
(***************************************************************************)
(* RunStreaming's goroutine.                                               *)
(***************************************************************************)
ReaderGoto(pc) == reader' = pc

\* Mutant: cmd.ProcessState is asked, which stays nil until cmd.Wait.
NeverExited == FALSE

HasExited == masscan = "exited"

CheckExit ==
    /\ reader = "check"
    /\ done' = (done \/ HasExited)
    /\ ReaderGoto("open")
    /\ UNCHANGED <<processVars, workerVars, pos, seen, batch, chan, cut>>

OpenFile ==
    /\ reader = "open"
    /\ ReaderGoto(IF file.made THEN "scan" ELSE "missed")
    /\ UNCHANGED <<processVars, workerVars, done, pos, seen, batch, chan, cut>>

\* Without a file the goroutine looks again later, unless masscan has exited.
LookAgain ==
    /\ reader = "missed"
    /\ done' = (done \/ HasExited)
    /\ ReaderGoto(IF done' THEN "rest" ELSE "check")
    /\ UNCHANGED <<processVars, workerVars, pos, seen, batch, chan, cut>>

\* Mutant: an address is taken whenever it is seen.
TakeAgain(f) ==
    /\ seen' = seen \cup {f.ip}
    /\ batch' = Append(batch, f)

\* An address is taken once, with the port it is first seen with.
Take(f) ==
    IF f.ip \in seen
    THEN UNCHANGED <<seen, batch>>
    ELSE /\ seen' = seen \cup {f.ip}
         /\ batch' = Append(batch, f)

AfterTake(pc) == ReaderGoto(IF Len(batch') >= BatchSize THEN "send" ELSE pc)

\* A line of the file, in a pass or in the final read; what is left of a
\* line whose beginning was read before is skipped.
ReadLine ==
    /\ pos.lines < file.lines
    /\ pos' = [lines |-> pos.lines + 1, piece |-> "none"]
    /\ IF pos.piece = "none" THEN Take(AsFound(out[pos.lines + 1]))
                             ELSE UNCHANGED <<seen, batch>>
    /\ UNCHANGED cut

\* The end of the file: a piece of a line counts as a line.
ReadPiece ==
    /\ pos.lines = file.lines
    /\ pos' = [pos EXCEPT !.piece = file.piece]
    /\ LET l == out[pos.lines + 1]
           fresh == pos.piece = "none" /\ file.piece # "none"
       IN /\ IF fresh /\ file.piece = "full" THEN Take(AsFound(l))
             ELSE IF fresh /\ file.piece = "bad"
             THEN Take(AsBad(l))
             ELSE UNCHANGED <<seen, batch>>
          /\ cut' = IF fresh /\ file.piece # "full" THEN cut \cup {l.host}
                                                    ELSE cut

ScanLine ==
    /\ reader = "scan"
    /\ ReadLine
    /\ AfterTake("scan")
    /\ UNCHANGED <<processVars, workerVars, done, chan>>

EndPass ==
    /\ reader = "scan"
    /\ ReadPiece
    /\ AfterTake(IF done THEN "rest" ELSE "check")
    /\ UNCHANGED <<processVars, workerVars, done, chan>>

Sends(b) ==
    /\ Len(chan) < ChanSize
    /\ chan' = Append(chan, b)

SendBatch ==
    /\ reader = "send"
    /\ Sends(batch)
    /\ batch' = <<>>
    /\ ReaderGoto("scan")
    /\ UNCHANGED <<processVars, workerVars, done, pos, seen, cut>>

SendRest ==
    /\ reader = "rest"
    /\ IF batch = <<>> THEN UNCHANGED chan ELSE Sends(batch)
    /\ batch' = <<>>
    /\ ReaderGoto("final")
    /\ UNCHANGED <<processVars, workerVars, done, pos, seen, cut>>

\* The final read, of a file that no longer changes: masscan has exited.
\* It gathers one batch, of any length.
FinalLine ==
    /\ reader = "final"
    /\ ReadLine
    /\ UNCHANGED <<processVars, workerVars, reader, done, chan>>

\* Mutant: the file is not read once more.
NoFinalRead ==
    /\ reader = "final"
    /\ ReaderGoto("last")
    /\ UNCHANGED <<processVars, workerVars, done, pos, seen, batch, chan, cut>>

FinalEnd ==
    /\ reader = "final"
    /\ ReadPiece
    /\ ReaderGoto("last")
    /\ UNCHANGED <<processVars, workerVars, done, chan>>

SendLast ==
    /\ reader = "last"
    /\ IF batch = <<>> THEN UNCHANGED chan ELSE Sends(batch)
    /\ batch' = <<>>
    /\ ReaderGoto("done")
    /\ UNCHANGED <<processVars, workerVars, done, pos, seen, cut>>

SendDone ==
    /\ reader = "done"
    /\ Sends(DoneBatch)
    /\ ReaderGoto("closed")
    /\ UNCHANGED <<processVars, workerVars, done, pos, seen, batch, cut>>

ReaderStep ==
    \/ CheckExit
    \/ OpenFile
    \/ LookAgain
    \/ ScanLine
    \/ EndPass
    \/ SendBatch
    \/ SendRest
    \/ FinalLine
    \/ FinalEnd
    \/ SendLast
    \/ SendDone

-----------------------------------------------------------------------------
(***************************************************************************)
(* The worker's goroutine.                                                 *)
(***************************************************************************)
WorkerUnchanged == UNCHANGED <<processVars, reader, done, pos, seen, batch, cut>>

\* InsertMasscanResults gives every address of a batch the port of its first.
StoreBatch ==
    /\ worker = "receiving"
    /\ chan # <<>>
    /\ Head(chan) # DoneBatch
    /\ chan' = Tail(chan)
    /\ LET ips == Ips(Head(chan)) IN
       \/ /\ stored' = stored \cup {[ip |-> a, port |-> Head(chan)[1].port] : a \in ips}
          /\ UNCHANGED <<unsaved, fails>>
       \/ /\ fails < MaxFails
          /\ fails' = fails + 1
          /\ unsaved' = unsaved \cup ips
          /\ UNCHANGED stored
    /\ WorkerUnchanged
    /\ UNCHANGED worker

\* The loop ends at Done; cmd.Wait was called before and returns at once.
MarkPhase1Done ==
    /\ worker = "receiving"
    /\ chan # <<>>
    /\ Head(chan) = DoneBatch
    /\ chan' = Tail(chan)
    /\ worker' = "marked"
    /\ WorkerUnchanged
    /\ UNCHANGED <<stored, unsaved, fails>>

WorkerStep == StoreBatch \/ MarkPhase1Done

ProcessStep ==
    \/ \E h \in Host, p \in Port : FindPort(h, p)
    \/ Flush
    \/ Exit

StreamNext == ProcessStep \/ ReaderStep \/ WorkerStep
=============================================================================
