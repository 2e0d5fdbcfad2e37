-------------------------------- MODULE Phase1 --------------------------------
(***************************************************************************)
(* Phase 1 of a job of the v2 system from the list of CIDRs to the rows of *)
(* masscan_results: the master cuts the list (CidrSplit) and a worker      *)
(* scans its chunk (MasscanStream).  The workers share nothing in this     *)
(* phase but the table, to which each adds rows of its own, so one of      *)
(* them, any one, is followed.  A CIDR has one host that may be open: more *)
(* hosts are as good as more CIDRs.  Those of a chunk are numbered from 1. *)
(***************************************************************************)
EXTENDS CidrSplit, MasscanStream

CONSTANT MaxChunk   \* bound on the chunk of the worker that is followed

ASSUME Phase1Assumption == MaxChunk \in Nat /\ Host = 1 .. MaxChunk

vars == <<splitVars, streamVars>>

Init == SplitInit /\ StreamInit

Split == SplitNext /\ UNCHANGED streamVars

\* Worker i gets its message; a lost one is a matter of module JobPipeline.
\* The goroutine that cut the list is over, and its variables with it.
Receive(i) ==
    /\ phase = "sent"
    /\ chunks[i].to - chunks[i].from <= MaxChunk
    /\ StartMasscan(1 .. (chunks[i].to - chunks[i].from))
    /\ phase' = "over"
    /\ cidrs' = 0 /\ rates' = <<>> /\ totalRate' = 0
    /\ turn' = 0 /\ offset' = 0 /\ chunks' = <<>>

Stream == StreamNext /\ UNCHANGED splitVars

Next ==
    \/ Split
    \/ \E i \in DOMAIN chunks : Receive(i)
    \/ Stream

\* The goroutines are scheduled, and a masscan of finitely many hosts ends.
Fairness ==
    /\ WF_vars(Exit /\ UNCHANGED splitVars)
    /\ WF_vars(ReaderStep /\ UNCHANGED splitVars)
    /\ WF_vars(WorkerStep /\ UNCHANGED splitVars)

Spec == Init /\ [][Next]_vars /\ Fairness
-----------------------------------------------------------------------------
(* The type of the state of phase 1.                                       *)
TypeOK ==
    /\ cidrs \in 0 .. MaxCidrs
    /\ offset \in 0 .. cidrs
    /\ Len(chunks) <= Len(rates)
    /\ targets \in SUBSET Host
    /\ masscan \in {"none", "running", "exited"}
    /\ out \in Seq(Line)
    /\ file \in [made : BOOLEAN, lines : 0 .. Len(out), piece : Piece]
    /\ file.piece # "none" => file.lines < Len(out)
    /\ reader \in {"off", "check", "open", "missed", "scan", "send", "rest",
                   "final", "last", "done", "closed"}
    /\ pos \in [lines : 0 .. file.lines, piece : Piece]
    /\ seen \in SUBSET Address
    /\ batch \in Seq(Found)
    /\ Len(chan) <= ChanSize
    /\ \A i \in DOMAIN chan : chan[i] \in Seq(Found)
    /\ worker \in {"idle", "receiving", "marked"}
    /\ stored \in SUBSET Found
    /\ cut \in SUBSET Host
    /\ unsaved \in SUBSET Address
    /\ fails \in 0 .. MaxFails

(* When the worker reports its chunk as done, every host whose line is in  *)
(* masscan's file has its row, although the file was read while it grew.   *)
(* The exceptions are a batch whose insert failed, and a line that a pass  *)
(* of the reader saw only the beginning of: no later pass puts it together *)
(* (masscan.go:300, "Final read to catch last lines", catches it neither). *)
FoundIsStored ==
    worker = "marked" =>
        \A i \in 1 .. file.lines :
            \/ \E r \in stored : r.ip = Addr(out[i].host)
            \/ Addr(out[i].host) \in unsaved
            \/ out[i].host \in cut

(* An address is delivered once, whatever ports it has open and however    *)
(* often the file is read (masscan.go:145, "Dedup by IP (keep first seen   *)
(* port)"): phase 2 would scan it twice.                                   *)
OneRowPerAddress ==
    /\ \A r, q \in stored : r.ip = q.ip => r = q
    /\ \A i, j \in DOMAIN chan : i # j => Ips(chan[i]) \cap Ips(chan[j]) = {}
    /\ \A i \in DOMAIN chan :
          /\ Ips(chan[i]) \cap {r.ip : r \in stored} = {}
          /\ Cardinality(Ips(chan[i])) = Len(chan[i])

(* A worker that received a chunk reports it as done in the end: the end   *)
(* of masscan is noticed and no send blocks for ever (masscan.go:227,      *)
(* "Detect masscan exit independently").                                   *)
ChunkIsReported == worker = "receiving" ~> worker = "marked"
=============================================================================
