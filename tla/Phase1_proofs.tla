---------------------------- MODULE Phase1_proofs ----------------------------
(***************************************************************************)
(* Phase 1 for every list of CIDRs, any rates, hosts and ports and any     *)
(* sizes of batch and channel: what masscan's file holds is stored, once,  *)
(* although three goroutines and a process work on it at the same time.    *)
(* StreamMove is what phase 1 does to the variables of MasscanStream; the  *)
(* invariants of the stream are proved of it one upon the other: the type, *)
(* where the reader and the worker stand (Control), where an address that  *)
(* was seen is (Delivered), what was read of the file (Followed), and that *)
(* no address is in two places (Once).                                     *)
(***************************************************************************)
EXTENDS Phase1, CidrSplit_proofs, FiniteSetTheorems

StreamMove == StreamNext \/ \E hosts \in SUBSET Host : StartMasscan(hosts)

StreamTypes ==
    /\ targets \in SUBSET Host
    /\ masscan \in {"none", "running", "exited"}
    /\ out \in Seq(Line)
    /\ file \in [made : BOOLEAN, lines : Nat, piece : Piece]
    /\ file.lines <= Len(out)
    /\ file.piece # "none" => file.lines < Len(out)
    /\ reader \in {"off", "check", "open", "missed", "scan", "send", "rest",
                   "final", "last", "done", "closed"}
    /\ done \in BOOLEAN
    /\ pos \in [lines : Nat, piece : Piece]
    /\ pos.lines <= file.lines
    /\ pos.piece # "none" => pos.lines < Len(out)
    /\ seen \in SUBSET Address
    /\ batch \in Seq(Found)
    /\ chan \in Seq(Seq(Found))
    /\ Len(chan) <= ChanSize
    /\ worker \in {"idle", "receiving", "marked"}
    /\ stored \in SUBSET Found
    /\ cut \in SUBSET Host
    /\ unsaved \in SUBSET Address
    /\ fails \in 0 .. MaxFails

Reading == ReadLine \/ ReadPiece

\* What a read of the file makes of what it sees: nothing, or one address
\* that was not seen before.
Gathers ==
    \/ UNCHANGED <<seen, batch>>
    \/ \E f \in Found :
          /\ f.ip \notin seen
          /\ seen' = seen \cup {f.ip}
          /\ batch' = Append(batch, f)

LEMMA NoneYet == \A S : <<>> \in Seq(S) /\ Len(<<>>) = 0
  OBVIOUS

LEMMA ElementOf ==
    ASSUME NEW S, NEW s \in Seq(S), NEW i \in 1 .. Len(s)
    PROVE  s[i] \in S
  OBVIOUS

LEMMA PieceSet == Piece = {"none", "short", "bad", "full"}
  BY DEF Piece, PieceNo

LEMMA LineFound ==
    ASSUME NEW l \in Line
    PROVE  /\ AsFound(l) \in Found /\ AsFound(l).ip = Addr(l.host)
           /\ AsBad(l) \in Found /\ AsBad(l).ip = Bad(l.host)
           /\ l.host \in Host
  BY DEF Line, AsFound, AsBad, Found, Address, Addr, Bad

LEMMA TakeGathers ==
    ASSUME NEW f \in Found, Take(f)
    PROVE  Gathers /\ f.ip \in seen' /\ seen \subseteq seen'
  BY DEF Take, Gathers

LEMMA GathersTypes ==
    ASSUME StreamTypes, Gathers
    PROVE  seen' \in SUBSET Address /\ batch' \in Seq(Found) /\ seen \subseteq seen'
<1>1. CASE UNCHANGED <<seen, batch>>
  BY <1>1 DEF StreamTypes
<1>2. ASSUME NEW f \in Found, f.ip \notin seen, seen' = seen \cup {f.ip}, batch' = Append(batch, f)
      PROVE  seen' \in SUBSET Address /\ batch' \in Seq(Found) /\ seen \subseteq seen'
  <2>1. f.ip \in Address
    BY DEF Found
  <2> QED
    BY <1>2, <2>1 DEF StreamTypes
<1> QED
  BY <1>1, <1>2 DEF Gathers

\* A read moves pos on and loses no line but those in cut.
LEMMA ReadingFacts ==
    ASSUME StreamTypes, Reading
    PROVE  /\ Gathers
           /\ pos' \in [lines : Nat, piece : Piece]
           /\ pos'.lines <= file.lines
           /\ pos'.piece # "none" => pos'.lines < Len(out)
           /\ cut' \in SUBSET Host /\ cut \subseteq cut'
<1>1. CASE ReadLine
  <2>1. pos.lines + 1 \in 1 .. Len(out) /\ pos' = [lines |-> pos.lines + 1, piece |-> "none"]
        /\ pos.lines + 1 <= file.lines /\ pos.lines + 1 \in Nat
    BY <1>1 DEF ReadLine, StreamTypes
  <2>2. out[pos.lines + 1] \in Line
    BY <2>1 DEF StreamTypes
  <2>3. Gathers
    <3>1. CASE pos.piece = "none"
      BY <1>1, <2>2, <3>1, LineFound, TakeGathers DEF ReadLine
    <3>2. CASE pos.piece # "none"
      BY <1>1, <3>2 DEF ReadLine, Gathers
    <3> QED
      BY <3>1, <3>2
  <2> QED
    BY <1>1, <2>1, <2>3, PieceSet DEF ReadLine, StreamTypes
<1>2. CASE ReadPiece
  <2>1. /\ pos.lines = file.lines /\ pos' = [pos EXCEPT !.piece = file.piece]
        /\ pos'.lines = pos.lines /\ pos'.piece = file.piece /\ pos.lines \in Nat
    BY <1>2 DEF ReadPiece, StreamTypes
  <2>2. CASE pos.piece = "none" /\ file.piece # "none"
    <3>1. out[pos.lines + 1] \in Line
      BY <2>1, <2>2 DEF StreamTypes
    <3> DEFINE l == out[pos.lines + 1]
    <3>2. Gathers
      <4>1. CASE file.piece = "full"
        <5>1. Take(AsFound(l))
          BY <1>2, <2>2, <4>1 DEF ReadPiece
        <5> QED
          BY <3>1, <5>1, LineFound, TakeGathers
      <4>2. CASE file.piece = "bad"
        <5>1. Take(AsBad(l))
          BY <1>2, <2>2, <4>2 DEF ReadPiece
        <5> QED
          BY <3>1, <5>1, LineFound, TakeGathers
      <4>3. CASE file.piece \notin {"full", "bad"}
        BY <1>2, <4>3 DEF ReadPiece, Gathers
      <4> QED
        BY <4>1, <4>2, <4>3
    <3>3. cut' \in SUBSET Host /\ cut \subseteq cut'
      BY <1>2, <3>1, LineFound DEF ReadPiece, StreamTypes
    <3> QED
      BY <2>1, <3>2, <3>3 DEF StreamTypes
  <2>3. CASE ~(pos.piece = "none" /\ file.piece # "none")
    <3>1. UNCHANGED <<seen, batch, cut>>
      BY <1>2, <2>3 DEF ReadPiece
    <3> QED
      BY <2>1, <3>1 DEF StreamTypes, Gathers
  <2> QED
    BY <2>2, <2>3
<1> QED
  BY <1>1, <1>2 DEF Reading

LEMMA StreamTypesInit == StreamInit => StreamTypes
<1> SUFFICES ASSUME StreamInit PROVE StreamTypes
  OBVIOUS
<1>1. ChanSize \in Nat /\ MaxFails \in Nat
  BY StreamAssumption
<1>2. /\ out \in Seq(Line) /\ batch \in Seq(Found) /\ chan \in Seq(Seq(Found))
      /\ Len(out) = 0 /\ Len(chan) = 0
  BY DEF StreamInit
<1>3. file \in [made : BOOLEAN, lines : Nat, piece : Piece] /\ pos \in [lines : Nat, piece : Piece]
  BY PieceSet DEF StreamInit
<1>4. /\ file.lines = 0 /\ pos.lines = 0 /\ file.piece = "none" /\ pos.piece = "none"
  BY DEF StreamInit
<1>5. fails \in 0 .. MaxFails
  BY <1>1 DEF StreamInit
<1>6. done \in BOOLEAN
  BY DEF StreamInit
<1>7. /\ targets \in SUBSET Host /\ seen \in SUBSET Address /\ stored \in SUBSET Found
      /\ cut \in SUBSET Host /\ unsaved \in SUBSET Address
  BY DEF StreamInit
<1>8. masscan = "none" /\ reader = "off" /\ worker = "idle"
  BY DEF StreamInit
<1> QED
  BY <1>1, <1>2, <1>3, <1>4, <1>5, <1>6, <1>7, <1>8 DEF StreamTypes

LEMMA StreamTypesProcess == StreamTypes /\ ProcessStep => StreamTypes'
<1> SUFFICES ASSUME StreamTypes, ProcessStep PROVE StreamTypes'
  OBVIOUS
<1> USE DEF StreamTypes
<1>1. ASSUME NEW h \in Host, NEW p \in Port, FindPort(h, p) PROVE StreamTypes'
  <2>1. /\ out' = Append(out, [host |-> h, port |-> p]) /\ UNCHANGED file
        /\ UNCHANGED masscan
    BY <1>1 DEF FindPort
  <2>2. out' \in Seq(Line) /\ Len(out') = Len(out) + 1
    BY <2>1 DEF Line
  <2> QED
    BY <1>1, <2>1, <2>2 DEF FindPort, ProcessUnchanged, workerVars
<1>2. CASE Flush
  <2>1. PICK n \in file.lines .. Len(out), p \in Piece :
           /\ n = Len(out) => p = "none"
           /\ file' = [made |-> TRUE, lines |-> n, piece |-> p]
    BY <1>2 DEF Flush
  <2>2. /\ file' \in [made : BOOLEAN, lines : Nat, piece : Piece]
        /\ file'.lines = n /\ file'.piece = p /\ n \in Nat /\ n <= Len(out) /\ file.lines <= n
    BY <2>1
  <2> QED
    BY <1>2, <2>1, <2>2 DEF Flush, ProcessUnchanged, workerVars
<1>3. CASE Exit
  <2>1. /\ file' \in [made : BOOLEAN, lines : Nat, piece : Piece]
        /\ file'.lines <= Len(out) /\ file.lines <= file'.lines
        /\ file'.piece # "none" => file'.lines < Len(out)
    <3>1. CASE file' = [made |-> file.made \/ out # <<>>, lines |-> Len(out), piece |-> "none"]
      <4>1. (file.made \/ out # <<>>) \in BOOLEAN /\ Len(out) \in Nat /\ "none" \in Piece
        BY PieceSet
      <4> QED
        BY <3>1, <4>1
    <3>2. CASE UNCHANGED file
      BY <3>2
    <3> QED
      BY <1>3, <3>1, <3>2 DEF Exit
  <2> QED
    BY <1>3, <2>1 DEF Exit, ProcessUnchanged, workerVars
<1> QED
  BY <1>1, <1>2, <1>3 DEF ProcessStep

LEMMA StreamTypesReader == StreamTypes /\ ReaderStep => StreamTypes'
<1> SUFFICES ASSUME StreamTypes, ReaderStep PROVE StreamTypes'
  OBVIOUS
<1>1. CASE CheckExit \/ OpenFile \/ LookAgain
  <2>1. done' \in BOOLEAN
    BY <1>1 DEF CheckExit, OpenFile, LookAgain, HasExited, StreamTypes
  <2>2. reader' \in {"open", "scan", "missed", "rest", "check"}
    BY <1>1 DEF CheckExit, OpenFile, LookAgain, ReaderGoto
  <2> QED
    BY <1>1, <2>1, <2>2 DEF CheckExit, OpenFile, LookAgain, processVars, workerVars, StreamTypes
<1>2. CASE ScanLine \/ EndPass \/ FinalLine \/ FinalEnd
  <2>1. Reading /\ UNCHANGED <<processVars, workerVars, done, chan>>
    BY <1>2 DEF ScanLine, EndPass, FinalLine, FinalEnd, Reading
  <2>2. reader' \in {"scan", "send", "rest", "check", "final", "last"}
    BY <1>2 DEF ScanLine, EndPass, FinalLine, FinalEnd, AfterTake, ReaderGoto
  <2>3. /\ pos' \in [lines : Nat, piece : Piece]
        /\ pos'.lines <= file.lines
        /\ pos'.piece # "none" => pos'.lines < Len(out)
        /\ cut' \in SUBSET Host
        /\ seen' \in SUBSET Address /\ batch' \in Seq(Found)
    BY <2>1, ReadingFacts, GathersTypes
  <2> QED
    BY <2>1, <2>2, <2>3 DEF processVars, workerVars, StreamTypes
<1>3. CASE SendBatch \/ SendRest \/ SendLast \/ SendDone
  <2>1. /\ UNCHANGED <<processVars, workerVars, done, pos, seen, cut>>
        /\ batch' = <<>> \/ UNCHANGED batch
        /\ UNCHANGED chan \/ \E b \in {batch, DoneBatch} : Sends(b)
    BY <1>3 DEF SendBatch, SendRest, SendLast, SendDone
  <2>2. reader' \in {"scan", "final", "done", "closed"}
    BY <1>3 DEF SendBatch, SendRest, SendLast, SendDone, ReaderGoto
  <2>3. batch' \in Seq(Found)
    <3>1. batch \in Seq(Found)
      BY DEF StreamTypes
    <3> QED
      BY <2>1, <3>1, NoneYet
  <2>4. chan' \in Seq(Seq(Found)) /\ Len(chan') <= ChanSize
    <3>1. CASE UNCHANGED chan
      BY <3>1 DEF StreamTypes
    <3>2. ASSUME NEW b \in {batch, DoneBatch}, Sends(b)
          PROVE  chan' \in Seq(Seq(Found)) /\ Len(chan') <= ChanSize
      <4>0. batch \in Seq(Found) /\ chan \in Seq(Seq(Found))
        BY DEF StreamTypes
      <4>1. b \in Seq(Found) /\ chan \in Seq(Seq(Found))
        BY <4>0, NoneYet DEF DoneBatch
      <4>2. chan' = Append(chan, b) /\ Len(chan) < ChanSize /\ ChanSize \in Nat
        BY <3>2, StreamAssumption DEF Sends
      <4>3. chan' \in Seq(Seq(Found)) /\ Len(chan') = Len(chan) + 1 /\ Len(chan) \in Nat
        BY <4>1, <4>2
      <4> QED
        BY <4>2, <4>3
    <3> QED
      BY <2>1, <3>1, <3>2
  <2> QED
    BY <2>1, <2>2, <2>3, <2>4 DEF processVars, workerVars, StreamTypes
<1> QED
  BY <1>1, <1>2, <1>3 DEF ReaderStep

LEMMA IpsAre ==
    ASSUME NEW b \in Seq(Found)
    PROVE  /\ Ips(b) = {b[i].ip : i \in 1 .. Len(b)}
           /\ Ips(b) \in SUBSET Address
<1>1. DOMAIN b = 1 .. Len(b)
  OBVIOUS
<1>2. ASSUME NEW i \in 1 .. Len(b) PROVE b[i].ip \in Address
  <2>1. b[i] \in Found
    OBVIOUS
  <2> QED
    BY <2>1 DEF Found
<1> QED
  BY <1>1, <1>2 DEF Ips

\* What the worker takes from the channel, when it stores or loses it.
LEMMA HeadTail ==
    ASSUME NEW S, NEW s \in Seq(S), s # <<>>
    PROVE  /\ Head(s) = s[1] /\ Head(s) \in S
           /\ Tail(s) \in Seq(S) /\ Len(Tail(s)) = Len(s) - 1
           /\ \A i \in 1 .. Len(s) - 1 : Tail(s)[i] = s[i + 1]
           /\ Len(s) \in Nat /\ Len(s) >= 1
  OBVIOUS

LEMMA StreamTypesWorker == StreamTypes /\ WorkerStep => StreamTypes'
<1> SUFFICES ASSUME StreamTypes, WorkerStep PROVE StreamTypes'
  OBVIOUS
<1>0. chan \in Seq(Seq(Found)) /\ Len(chan) <= ChanSize /\ ChanSize \in Nat /\ MaxFails \in Nat
      /\ stored \in SUBSET Found /\ unsaved \in SUBSET Address /\ fails \in 0 .. MaxFails
  BY StreamAssumption DEF StreamTypes
<1>1. chan # <<>> /\ chan' = Tail(chan) /\ WorkerUnchanged
  BY DEF WorkerStep, StoreBatch, MarkPhase1Done
<1>2. chan' \in Seq(Seq(Found)) /\ Len(chan') <= ChanSize
  BY <1>0, <1>1, HeadTail
<1>3. CASE StoreBatch
  <2> DEFINE b == Head(chan)
  <2>1. b \in Seq(Found) /\ b # <<>>
    BY <1>0, <1>1, <1>3, HeadTail DEF StoreBatch, DoneBatch
  <2> HIDE DEF b
  <2>2. b[1] \in Found /\ b[1].port \in Port /\ Ips(b) \in SUBSET Address
    <3>1. b[1] \in Found
      BY <2>1
    <3> QED
      BY <2>1, <3>1, IpsAre DEF Found
  <2>3. \/ /\ stored' = stored \cup {[ip |-> a, port |-> b[1].port] : a \in Ips(b)}
           /\ UNCHANGED <<unsaved, fails>>
        \/ /\ fails < MaxFails /\ fails' = fails + 1
           /\ unsaved' = unsaved \cup Ips(b) /\ UNCHANGED stored
    BY <1>3 DEF StoreBatch, b
  <2>4. stored' \in SUBSET Found
    <3>1. \A a \in Ips(b) : [ip |-> a, port |-> b[1].port] \in Found
      BY <2>2 DEF Found
    <3> QED
      BY <1>0, <2>3, <3>1
  <2>5. unsaved' \in SUBSET Address /\ fails' \in 0 .. MaxFails
    BY <1>0, <2>2, <2>3
  <2>6. worker' = worker
    BY <1>3 DEF StoreBatch
  <2> QED
    BY <1>1, <1>2, <2>4, <2>5, <2>6 DEF WorkerUnchanged, processVars, StreamTypes
<1>4. CASE MarkPhase1Done
  BY <1>1, <1>2, <1>4 DEF MarkPhase1Done, WorkerUnchanged, processVars, StreamTypes
<1> QED
  BY <1>3, <1>4 DEF WorkerStep

LEMMA StreamTypesStep == StreamTypes /\ [StreamMove]_streamVars => StreamTypes'
<1> SUFFICES ASSUME StreamTypes, [StreamMove]_streamVars PROVE StreamTypes'
  OBVIOUS
<1>1. ASSUME NEW hosts \in SUBSET Host, StartMasscan(hosts) PROVE StreamTypes'
  BY <1>1 DEF StartMasscan, StreamTypes
<1>2. CASE UNCHANGED streamVars
  BY <1>2 DEF streamVars, StreamTypes
<1> QED
  BY <1>1, <1>2, StreamTypesProcess, StreamTypesReader, StreamTypesWorker DEF StreamMove, StreamNext

\* Where the process, the reader and the worker stand.  Once the reader
\* knows that masscan has exited, the file no longer changes.
Control ==
    /\ worker = "idle" => masscan = "none"
    /\ masscan = "none" =>
          reader = "off" /\ out = <<>> /\ file.lines = 0 /\ batch = <<>> /\ chan = <<>>
    /\ done => masscan = "exited"
    /\ reader \in {"rest", "final", "last", "done", "closed"} => done
    /\ reader = "send" => batch # <<>>
    /\ reader \in {"last", "done", "closed"} => pos.lines = file.lines
    /\ reader \in {"done", "closed"} => batch = <<>>
    /\ \A i \in 1 .. Len(chan) :
          chan[i] = DoneBatch => i = Len(chan) /\ reader = "closed"
    /\ worker = "marked" => masscan = "none" \/ (reader = "closed" /\ chan = <<>>)

LEMMA ControlProcess == StreamTypes /\ Control /\ ProcessStep => Control'
<1> SUFFICES ASSUME StreamTypes, Control, ProcessStep PROVE Control'
  OBVIOUS
<1>1. masscan = "running" /\ masscan' # "none"
      /\ UNCHANGED <<reader, done, pos, batch, chan, worker>>
  BY DEF ProcessStep, FindPort, Flush, Exit, ProcessUnchanged, workerVars
<1> QED
  BY <1>1 DEF Control

LEMMA ControlReader == StreamTypes /\ Control /\ ReaderStep => Control'
<1> SUFFICES ASSUME StreamTypes, Control, ReaderStep PROVE Control'
  OBVIOUS
<1>1. reader # "off" /\ masscan # "none" /\ UNCHANGED <<masscan, out, file, worker>>
  BY DEF ReaderStep, CheckExit, OpenFile, LookAgain, ScanLine, EndPass, FinalLine,
         FinalEnd, SendBatch, SendRest, SendLast, SendDone, processVars, workerVars, Control
<1>2. worker # "idle" /\ (worker = "marked" => reader = "closed")
  BY <1>1 DEF Control
<1>3. CASE CheckExit \/ OpenFile \/ LookAgain
  <2>1. /\ UNCHANGED <<pos, batch, chan>> /\ reader # "closed"
        /\ reader' \in {"open", "scan", "missed", "rest", "check"}
    BY <1>3 DEF CheckExit, OpenFile, LookAgain, ReaderGoto
  <2>2. done' => masscan = "exited"
    <3>1. CASE CheckExit \/ LookAgain
      BY <3>1, Zenon DEF CheckExit, LookAgain, HasExited, Control
    <3>2. CASE OpenFile
      BY <3>2, Zenon DEF OpenFile, Control
    <3> QED
      BY <1>3, <3>1, <3>2
  <2>3. reader' = "rest" => done'
    BY <1>3, SMT DEF CheckExit, OpenFile, LookAgain, ReaderGoto
  <2> QED
    BY <1>1, <1>2, <2>1, <2>2, <2>3 DEF Control
<1>4. CASE ScanLine \/ EndPass
  <2>1. /\ reader = "scan" /\ UNCHANGED <<chan, done>>
        /\ reader' \in {"send", "scan", "rest", "check"}
        /\ reader' = "rest" => done
        /\ reader' = "send" => Len(batch') >= BatchSize
    BY <1>4 DEF ScanLine, EndPass, AfterTake, ReaderGoto
  <2>2. reader' = "send" => batch' # <<>>
    BY <2>1, StreamAssumption
  <2> QED
    BY <1>1, <1>2, <2>1, <2>2 DEF Control
<1>5. CASE FinalLine \/ FinalEnd
  <2>1. /\ reader = "final" /\ UNCHANGED <<chan, done>>
        /\ reader' \in {"final", "last"}
        /\ reader' = "last" => pos'.lines = file.lines
    BY <1>5 DEF FinalLine, FinalEnd, ReadPiece, ReaderGoto, StreamTypes
  <2> QED
    BY <1>1, <1>2, <2>1 DEF Control
<1>6. CASE SendBatch \/ SendRest \/ SendLast \/ SendDone
  <2>0. chan \in Seq(Seq(Found)) /\ batch \in Seq(Found) /\ UNCHANGED <<done, pos>>
    BY <1>6 DEF SendBatch, SendRest, SendLast, SendDone, StreamTypes
  <2>1. /\ reader # "closed" /\ reader' \in {"scan", "final", "done", "closed"}
        /\ reader' \in {"final", "done", "closed"} => done
        /\ reader' \in {"done", "closed"} => pos.lines = file.lines /\ batch' = <<>>
    BY <1>6 DEF SendBatch, SendRest, SendLast, SendDone, ReaderGoto, Control
  <2>2. \A i \in 1 .. Len(chan) : chan[i] # DoneBatch
    BY <2>1 DEF Control
  <2>3. \/ UNCHANGED chan
        \/ Sends(batch) /\ batch # DoneBatch
        \/ Sends(DoneBatch) /\ reader' = "closed"
    BY <1>6 DEF SendBatch, SendRest, SendLast, SendDone, ReaderGoto, Control, DoneBatch
  <2>4. ASSUME NEW i \in 1 .. Len(chan'), chan'[i] = DoneBatch
        PROVE  i = Len(chan') /\ reader' = "closed"
    <3>1. CASE UNCHANGED chan
      BY <2>2, <2>4, <3>1
    <3>2. ASSUME NEW b \in Seq(Found), Sends(b), b # DoneBatch \/ reader' = "closed"
          PROVE  i = Len(chan') /\ reader' = "closed"
      <4>1. chan' = Append(chan, b)
        BY <3>2 DEF Sends
      <4>2. /\ Len(chan') = Len(chan) + 1 /\ chan'[Len(chan) + 1] = b
            /\ \A j \in 1 .. Len(chan) : chan'[j] = chan[j]
        BY <2>0, <4>1
      <4> QED
        BY SMTT(120), <2>0, <2>2, <2>4, <3>2, <4>2
    <3>3. DoneBatch \in Seq(Found)
      BY NoneYet DEF DoneBatch
    <3> QED
      BY <2>0, <2>3, <3>1, <3>2, <3>3
  <2> QED
    BY <1>1, <1>2, <2>0, <2>1, <2>4 DEF Control
<1> QED
  BY <1>3, <1>4, <1>5, <1>6 DEF ReaderStep

LEMMA ControlWorker == StreamTypes /\ Control /\ WorkerStep => Control'
<1> SUFFICES ASSUME StreamTypes, Control, WorkerStep PROVE Control'
  OBVIOUS
<1>1. /\ chan \in Seq(Seq(Found)) /\ chan # <<>> /\ chan' = Tail(chan)
      /\ UNCHANGED <<masscan, out, file, reader, done, pos, batch>>
  BY DEF WorkerStep, StoreBatch, MarkPhase1Done, WorkerUnchanged, processVars, StreamTypes
<1>2. /\ Head(chan) = chan[1] /\ Len(Tail(chan)) = Len(chan) - 1 /\ Len(chan) \in Nat
      /\ Len(chan) >= 1 /\ \A i \in 1 .. Len(chan) - 1 : Tail(chan)[i] = chan[i + 1]
  BY <1>1, HeadTail
<1>3. \A i \in 1 .. Len(chan) : chan[i] = DoneBatch => i = Len(chan) /\ reader = "closed"
  BY DEF Control
<1>4. ASSUME NEW i \in 1 .. Len(chan'), chan'[i] = DoneBatch
      PROVE  i = Len(chan') /\ reader = "closed"
  <2>1. i \in 1 .. Len(chan) - 1 /\ i + 1 \in 1 .. Len(chan) /\ chan'[i] = chan[i + 1]
    BY <1>1, <1>2
  <2>2. chan[i + 1] = DoneBatch
    BY <1>4, <2>1, Zenon
  <2>3. i + 1 = Len(chan) /\ reader = "closed"
    BY <1>3, <2>1, <2>2
  <2>4. Len(chan') = Len(chan) - 1
    BY <1>1, <1>2
  <2> QED
    BY <1>2, <2>3, <2>4
<1>5. masscan # "none"
  BY <1>1 DEF Control
<1>6. CASE StoreBatch
  BY <1>1, <1>4, <1>5, <1>6 DEF StoreBatch, Control
<1>7. CASE MarkPhase1Done
  <2>1. chan[1] = DoneBatch
    BY <1>2, <1>7 DEF MarkPhase1Done
  <2>2. Len(chan) = 1 /\ reader = "closed"
    <3>1. 1 \in 1 .. Len(chan)
      BY <1>2
    <3> QED
      BY <1>3, <2>1, <3>1
  <2>3. chan' = <<>>
    <3>1. Len(chan') = 0 /\ chan' \in Seq(Seq(Found))
      BY <1>1, <1>2, <2>2, HeadTail
    <3> QED
      BY <3>1
  <2>4. \A i \in 1 .. Len(chan') : chan'[i] # DoneBatch
    BY <2>3, NoneYet
  <2>5. worker' = "marked"
    BY <1>7 DEF MarkPhase1Done
  <2> QED
    BY <1>1, <1>5, <2>2, <2>3, <2>4, <2>5 DEF Control
<1> QED
  BY <1>6, <1>7 DEF WorkerStep

LEMMA ControlStep == StreamTypes /\ Control /\ [StreamMove]_streamVars => Control'
<1> SUFFICES ASSUME StreamTypes, Control, [StreamMove]_streamVars PROVE Control'
  OBVIOUS
<1>1. ASSUME NEW hosts \in SUBSET Host, StartMasscan(hosts) PROVE Control'
  BY <1>1 DEF StartMasscan, Control
<1>2. CASE UNCHANGED streamVars
  BY <1>2 DEF streamVars, Control
<1> QED
  BY <1>1, <1>2, ControlProcess, ControlReader, ControlWorker DEF StreamMove, StreamNext

-----------------------------------------------------------------------------
(* An address that was seen is in the batch, in the channel, in the table  *)
(* or lost with a failed insert, and in one of the first three only once.  *)
Rows == {r.ip : r \in stored}

Delivered ==
    \A a \in seen :
        \/ a \in Ips(batch)
        \/ \E i \in 1 .. Len(chan) : a \in Ips(chan[i])
        \/ a \in Rows
        \/ a \in unsaved

\* No address is twice in a batch.
Single(b) == IsFiniteSet(Ips(b)) /\ Cardinality(Ips(b)) = Len(b)

Once ==
    /\ Ips(batch) \subseteq seen /\ Rows \subseteq seen
    /\ Ips(batch) \cap Rows = {}
    /\ Single(batch)
    /\ \A r, q \in stored : r.ip = q.ip => r = q
    /\ \A i \in 1 .. Len(chan) :
          /\ Ips(chan[i]) \subseteq seen
          /\ Ips(chan[i]) \cap Rows = {}
          /\ Ips(chan[i]) \cap Ips(batch) = {}
          /\ Single(chan[i])
    /\ \A i, j \in 1 .. Len(chan) : i # j => Ips(chan[i]) \cap Ips(chan[j]) = {}

\* The reader puts its batch into the channel; an empty one only at the end.
Ships ==
    /\ batch' = <<>>
    /\ chan' = Append(chan, batch) \/ (batch = <<>> /\ UNCHANGED chan)
    /\ UNCHANGED <<seen, stored, unsaved>>

\* The worker takes one from it.
Consumes ==
    /\ chan # <<>> /\ chan' = Tail(chan)
    /\ \/ /\ \E q \in Port :
                stored' = stored \cup {[ip |-> a, port |-> q] : a \in Ips(Head(chan))}
          /\ UNCHANGED unsaved
       \/ unsaved' = unsaved \cup Ips(Head(chan)) /\ UNCHANGED stored
    /\ UNCHANGED <<seen, batch>>

LEMMA NoIps == Ips(<<>>) = {} /\ Single(<<>>)
<1>1. Ips(<<>>) = {}
  BY DEF Ips
<1> QED
  BY <1>1, FS_EmptySet DEF Single

LEMMA IpsAppend ==
    ASSUME NEW b \in Seq(Found), NEW f \in Found
    PROVE  /\ Ips(Append(b, f)) = Ips(b) \cup {f.ip}
           /\ Single(b) /\ f.ip \notin Ips(b) => Single(Append(b, f))
<1> DEFINE c == Append(b, f)
<1>1. /\ c \in Seq(Found) /\ Len(c) = Len(b) + 1 /\ c[Len(b) + 1] = f /\ Len(b) \in Nat
      /\ \A i \in 1 .. Len(b) : c[i] = b[i]
  OBVIOUS
<1> HIDE DEF c
<1>2. Ips(c) = {c[i].ip : i \in 1 .. Len(b) + 1} /\ Ips(b) = {b[i].ip : i \in 1 .. Len(b)}
  BY <1>1, IpsAre
<1>3. Ips(c) = Ips(b) \cup {f.ip}
  <2>1. ASSUME NEW a \in Ips(c) PROVE a \in Ips(b) \cup {f.ip}
    <3>1. PICK i \in 1 .. Len(b) + 1 : a = c[i].ip
      BY <1>2
    <3>2. i \in 1 .. Len(b) \/ i = Len(b) + 1
      BY <1>1
    <3> QED
      BY <1>1, <1>2, <3>1, <3>2
  <2>2. ASSUME NEW a \in Ips(b) PROVE a \in Ips(c)
    <3>1. PICK i \in 1 .. Len(b) : a = b[i].ip
      BY <1>2
    <3>2. i \in 1 .. Len(b) + 1 /\ c[i] = b[i]
      BY <1>1
    <3> QED
      BY <1>2, <3>1, <3>2
  <2>3. f.ip \in Ips(c)
    <3>1. Len(b) + 1 \in 1 .. Len(b) + 1
      BY <1>1
    <3> QED
      BY <1>1, <1>2, <3>1
  <2> QED
    BY <2>1, <2>2, <2>3
<1>4. ASSUME Single(b), f.ip \notin Ips(b) PROVE Single(c)
  <2>1. IsFiniteSet(Ips(b)) /\ Cardinality(Ips(b)) = Len(b)
    BY <1>4 DEF Single
  <2>2. /\ IsFiniteSet(Ips(b) \cup {f.ip})
        /\ Cardinality(Ips(b) \cup {f.ip}) = Cardinality(Ips(b)) + 1
    BY <1>4, <2>1, FS_AddElement
  <2>3. IsFiniteSet(Ips(c)) /\ Cardinality(Ips(c)) = Len(b) + 1
    BY <1>3, <2>1, <2>2, Zenon
  <2> QED
    BY <1>1, <2>3 DEF Single
<1> QED
  BY <1>3, <1>4 DEF c

\* Whatever process steps, this is all that happens to the addresses.
LEMMA DataMoves ==
    ASSUME StreamTypes, Control, [StreamMove]_streamVars
    PROVE  \/ UNCHANGED <<seen, batch, chan, stored, unsaved>>
           \/ Gathers /\ UNCHANGED <<chan, stored, unsaved>>
           \/ Ships
           \/ Consumes
<1>1. CASE ProcessStep
  BY <1>1 DEF ProcessStep, FindPort, Flush, Exit, ProcessUnchanged, workerVars
<1>2. CASE ReaderStep
  <2>1. CASE CheckExit \/ OpenFile \/ LookAgain
    BY <2>1 DEF CheckExit, OpenFile, LookAgain, workerVars
  <2>2. CASE ScanLine \/ EndPass \/ FinalLine \/ FinalEnd
    <3>1. Reading /\ UNCHANGED <<chan, stored, unsaved>>
      BY <2>2 DEF ScanLine, EndPass, FinalLine, FinalEnd, Reading, workerVars
    <3> QED
      BY <3>1, ReadingFacts
  <2>3. CASE SendBatch \/ SendRest \/ SendLast \/ SendDone
    <3>1. CASE SendBatch \/ SendRest \/ SendLast
      BY <3>1 DEF SendBatch, SendRest, SendLast, Sends, Ships, workerVars
    <3>2. CASE SendDone
      <4>1. batch = <<>> /\ batch' = batch
        BY <3>2 DEF SendDone, Control
      <4>2. chan' = Append(chan, batch)
        BY <3>2, <4>1 DEF SendDone, Sends, DoneBatch
      <4> QED
        BY <3>2, <4>1, <4>2 DEF SendDone, Ships, workerVars
    <3> QED
      BY <2>3, <3>1, <3>2
  <2> QED
    BY <1>2, <2>1, <2>2, <2>3 DEF ReaderStep
<1>3. CASE WorkerStep
  <2>1. chan # <<>> /\ chan' = Tail(chan) /\ UNCHANGED <<seen, batch>>
        /\ chan \in Seq(Seq(Found))
    BY <1>3 DEF WorkerStep, StoreBatch, MarkPhase1Done, WorkerUnchanged, StreamTypes
  <2>2. Head(chan) \in Seq(Found)
    BY <2>1, HeadTail
  <2>3. CASE StoreBatch
    <3>1. Head(chan)[1].port \in Port
      <4>1. Head(chan) # <<>>
        BY <2>3 DEF StoreBatch, DoneBatch
      <4>2. Head(chan)[1] \in Found
        BY <2>2, <4>1
      <4> QED
        BY <4>2 DEF Found
    <3> QED
      BY <2>1, <2>3, <3>1 DEF StoreBatch, Consumes
  <2>4. CASE MarkPhase1Done
    <3>1. Ips(Head(chan)) = {} /\ UNCHANGED <<stored, unsaved>>
      BY <2>4, NoIps DEF MarkPhase1Done, DoneBatch
    <3> QED
      BY <2>1, <3>1 DEF Consumes
  <2> QED
    BY <1>3, <2>3, <2>4 DEF WorkerStep
<1>4. ASSUME NEW hosts \in SUBSET Host, StartMasscan(hosts)
      PROVE  UNCHANGED <<seen, batch, chan, stored, unsaved>>
  BY <1>4 DEF StartMasscan
<1> QED
  BY <1>1, <1>2, <1>3, <1>4 DEF StreamMove, StreamNext, streamVars

LEMMA ShipsFacts ==
    ASSUME StreamTypes, Ships, chan' # chan
    PROVE  /\ Len(chan) \in Nat /\ Len(chan') = Len(chan) + 1
           /\ chan'[Len(chan) + 1] = batch
           /\ \A i \in 1 .. Len(chan) : chan'[i] = chan[i]
<1>1. chan \in Seq(Seq(Found)) /\ batch \in Seq(Found) /\ chan' = Append(chan, batch)
  BY DEF StreamTypes, Ships
<1> QED
  BY <1>1

LEMMA ConsumesFacts ==
    ASSUME StreamTypes, Consumes
    PROVE  /\ Len(chan) \in Nat /\ Len(chan) >= 1 /\ Len(chan') = Len(chan) - 1
           /\ Head(chan) = chan[1]
           /\ \A i \in 1 .. Len(chan') : i + 1 \in 2 .. Len(chan) /\ chan'[i] = chan[i + 1]
<1>1. chan \in Seq(Seq(Found)) /\ chan # <<>> /\ chan' = Tail(chan)
  BY DEF StreamTypes, Consumes
<1> QED
  BY <1>1, HeadTail

LEMMA DeliveredStep ==
    ASSUME StreamTypes, Control, Delivered, [StreamMove]_streamVars
    PROVE  Delivered'
<1> SUFFICES ASSUME NEW a \in seen'
             PROVE  \/ a \in Ips(batch')
                    \/ \E i \in 1 .. Len(chan') : a \in Ips(chan'[i])
                    \/ a \in Rows'
                    \/ a \in unsaved'
  BY DEF Delivered
<1>0. chan \in Seq(Seq(Found)) /\ batch \in Seq(Found)
  BY DEF StreamTypes
<1>1. CASE UNCHANGED <<seen, batch, chan, stored, unsaved>>
  BY <1>1 DEF Delivered, Rows
<1>2. CASE Gathers /\ UNCHANGED <<chan, stored, unsaved>>
  <2>1. CASE UNCHANGED <<seen, batch>>
    BY <1>2, <2>1 DEF Delivered, Rows
  <2>2. ASSUME NEW f \in Found, seen' = seen \cup {f.ip}, batch' = Append(batch, f)
        PROVE  \/ a \in Ips(batch')
               \/ \E i \in 1 .. Len(chan') : a \in Ips(chan'[i])
               \/ a \in Rows'
               \/ a \in unsaved'
    <3>1. Ips(batch') = Ips(batch) \cup {f.ip}
      BY <1>0, <2>2, IpsAppend
    <3> QED
      BY <1>2, <2>2, <3>1 DEF Delivered, Rows
  <2> QED
    BY <1>2, <2>1, <2>2 DEF Gathers
<1>3. CASE Ships
  <2>1. a \in seen /\ UNCHANGED <<stored, unsaved>>
    BY <1>3 DEF Ships
  <2>2. CASE a \in Ips(batch)
    <3>1. chan' # chan
      <4>1. batch # <<>>
        BY <2>2, NoIps
      <4>2. chan' = Append(chan, batch)
        BY <1>3, <4>1 DEF Ships
      <4> QED
        BY <1>0, <4>2
    <3>2. Len(chan) + 1 \in 1 .. Len(chan') /\ chan'[Len(chan) + 1] = batch
      BY <1>3, <3>1, ShipsFacts
    <3> QED
      BY <2>2, <3>2
  <2>3. ASSUME NEW i \in 1 .. Len(chan), a \in Ips(chan[i])
        PROVE  \E j \in 1 .. Len(chan') : a \in Ips(chan'[j])
    <3>1. CASE chan' = chan
      BY <2>3, <3>1
    <3>2. CASE chan' # chan
      <4>1. i \in 1 .. Len(chan') /\ chan'[i] = chan[i]
        BY <1>3, <3>2, ShipsFacts
      <4> QED
        BY <2>3, <4>1
    <3> QED
      BY <3>1, <3>2
  <2> QED
    BY <2>1, <2>2, <2>3 DEF Delivered, Rows
<1>4. CASE Consumes
  <2>1. a \in seen /\ batch' = batch /\ Rows \subseteq Rows' /\ unsaved \subseteq unsaved'
    BY <1>4 DEF Consumes, Rows
  <2>2. ASSUME NEW i \in 1 .. Len(chan), a \in Ips(chan[i])
        PROVE  a \in Rows' \/ a \in unsaved' \/ \E j \in 1 .. Len(chan') : a \in Ips(chan'[j])
    <3>1. CASE i = 1
      <4>1. a \in Ips(Head(chan))
        BY <1>4, <2>2, <3>1, ConsumesFacts
      <4>2. CASE unsaved' = unsaved \cup Ips(Head(chan))
        BY <4>1, <4>2
      <4>3. ASSUME NEW q \in Port,
                   stored' = stored \cup {[ip |-> b, port |-> q] : b \in Ips(Head(chan))}
            PROVE  a \in Rows'
        <5>1. [ip |-> a, port |-> q] \in stored'
          BY <4>1, <4>3
        <5> QED
          BY <5>1 DEF Rows
      <4> QED
        BY <1>4, <4>2, <4>3 DEF Consumes
    <3>2. CASE i # 1
      <4>1. i - 1 \in 1 .. Len(chan') /\ (i - 1) + 1 = i
        BY <1>4, <3>2, ConsumesFacts
      <4>2. chan'[i - 1] = chan[i]
        BY <1>4, <4>1, ConsumesFacts
      <4> QED
        BY <2>2, <4>1, <4>2
    <3> QED
      BY <3>1, <3>2
  <2> QED
    BY <2>1, <2>2 DEF Delivered
<1> QED
  BY <1>1, <1>2, <1>3, <1>4, DataMoves

LEMMA OnceGathers == StreamTypes /\ Once /\ Gathers /\ UNCHANGED <<chan, stored>> => Once'
<1> SUFFICES ASSUME StreamTypes, Once, Gathers, chan' = chan, stored' = stored PROVE Once'
  OBVIOUS
<1>1. CASE UNCHANGED <<seen, batch>>
  BY <1>1 DEF Once, Rows
<1>2. ASSUME NEW f \in Found, f.ip \notin seen, seen' = seen \cup {f.ip}, batch' = Append(batch, f)
      PROVE  Once'
  <2>1. batch \in Seq(Found) /\ Ips(batch) \subseteq seen /\ Rows \subseteq seen /\ Rows' = Rows
    BY DEF StreamTypes, Once, Rows
  <2>2. Ips(batch') = Ips(batch) \cup {f.ip} /\ Single(batch)'
    <3>1. f.ip \notin Ips(batch) /\ Single(batch)
      BY <1>2, <2>1 DEF Once
    <3>2. Ips(batch') = Ips(batch) \cup {f.ip} /\ Single(Append(batch, f))
      BY <1>2, <2>1, <3>1, IpsAppend
    <3>3. Single(batch')
      BY <1>2, <3>2, Zenon
    <3> QED
      BY <3>2, <3>3 DEF Single
  <2>3. ASSUME NEW i \in 1 .. Len(chan)
        PROVE  /\ Ips(chan[i]) \subseteq seen' /\ Ips(chan[i]) \cap Rows = {}
               /\ Ips(chan[i]) \cap Ips(batch') = {} /\ Single(chan[i])
    <3>1. Ips(chan[i]) \subseteq seen /\ Ips(chan[i]) \cap Ips(batch) = {}
      BY DEF Once
    <3> QED
      BY <1>2, <2>2, <3>1 DEF Once
  <2>4. /\ Ips(batch') \subseteq seen' /\ Rows' \subseteq seen'
        /\ Ips(batch') \cap Rows' = {}
    BY <1>2, <2>1, <2>2 DEF Once
  <2>5. /\ \A r, q \in stored : r.ip = q.ip => r = q
        /\ \A i, j \in 1 .. Len(chan) : i # j => Ips(chan[i]) \cap Ips(chan[j]) = {}
    BY DEF Once
  <2> QED
    BY <2>1, <2>2, <2>3, <2>4, <2>5 DEF Once, Single
<1> QED
  BY <1>1, <1>2 DEF Gathers

LEMMA OnceShips == StreamTypes /\ Once /\ Ships => Once'
<1> SUFFICES ASSUME StreamTypes, Once, Ships PROVE Once'
  OBVIOUS
<1>1. batch' = <<>> /\ Ips(batch') = {} /\ Single(batch)' /\ seen' = seen /\ stored' = stored
      /\ Rows' = Rows
  BY NoIps DEF Ships, Single, Rows
<1>2. CASE chan' = chan
  BY <1>1, <1>2 DEF Once
<1>3. CASE chan' # chan
  <2>1. /\ Len(chan) \in Nat /\ Len(chan') = Len(chan) + 1
        /\ chan'[Len(chan) + 1] = batch
        /\ \A i \in 1 .. Len(chan) : chan'[i] = chan[i]
    BY <1>3, ShipsFacts
  <2>2. ASSUME NEW i \in 1 .. Len(chan')
        PROVE  \/ i = Len(chan) + 1 /\ chan'[i] = batch
               \/ i \in 1 .. Len(chan) /\ chan'[i] = chan[i]
    BY <2>1
  <2>3. ASSUME NEW i \in 1 .. Len(chan')
        PROVE  /\ Ips(chan'[i]) \subseteq seen /\ Ips(chan'[i]) \cap Rows = {}
               /\ Single(chan'[i])
    BY <2>2 DEF Once
  <2>4. ASSUME NEW i \in 1 .. Len(chan'), NEW j \in 1 .. Len(chan'), i # j
        PROVE  Ips(chan'[i]) \cap Ips(chan'[j]) = {}
    <3>1. \A k \in 1 .. Len(chan) : Ips(chan[k]) \cap Ips(batch) = {}
      BY DEF Once
    <3>2. \A k, l \in 1 .. Len(chan) : k # l => Ips(chan[k]) \cap Ips(chan[l]) = {}
      BY DEF Once
    <3>3. CASE i = Len(chan) + 1 /\ chan'[i] = batch
      BY <2>2, <2>4, <3>1, <3>3
    <3>4. CASE i \in 1 .. Len(chan) /\ chan'[i] = chan[i]
      BY <2>2, <2>4, <3>1, <3>2, <3>4
    <3> QED
      BY <2>2, <3>3, <3>4
  <2>5. Rows \subseteq seen /\ \A r, q \in stored : r.ip = q.ip => r = q
    BY DEF Once
  <2> QED
    BY <1>1, <2>3, <2>4, <2>5 DEF Once, Single
<1> QED
  BY <1>2, <1>3

LEMMA OnceConsumes == StreamTypes /\ Once /\ Consumes => Once'
<1> SUFFICES ASSUME StreamTypes, Once, Consumes PROVE Once'
  OBVIOUS
<1>1. /\ Len(chan) \in Nat /\ Len(chan) >= 1 /\ Len(chan') = Len(chan) - 1
      /\ Head(chan) = chan[1]
      /\ \A i \in 1 .. Len(chan') : i + 1 \in 2 .. Len(chan) /\ chan'[i] = chan[i + 1]
  BY ConsumesFacts
<1>2. seen' = seen /\ batch' = batch
  BY DEF Consumes
<1> DEFINE ips == Ips(chan[1])
<1>3. /\ ips \subseteq seen /\ ips \cap Rows = {} /\ ips \cap Ips(batch) = {}
      /\ \A i \in 2 .. Len(chan) : Ips(chan[i]) \cap ips = {}
  <2>1. 1 \in 1 .. Len(chan)
    BY <1>1
  <2>2. ASSUME NEW i \in 2 .. Len(chan) PROVE Ips(chan[i]) \cap ips = {}
    <3>1. i \in 1 .. Len(chan) /\ i # 1
      BY <1>1
    <3> QED
      BY <2>1, <3>1 DEF Once
  <2> QED
    BY <2>1, <2>2 DEF Once
<1>4. ASSUME NEW i \in 1 .. Len(chan')
      PROVE  /\ Ips(chan'[i]) \subseteq seen /\ Ips(chan'[i]) \cap Rows = {}
             /\ Ips(chan'[i]) \cap Ips(batch) = {} /\ Single(chan'[i])
             /\ Ips(chan'[i]) \cap ips = {}
  <2>1. i + 1 \in 1 .. Len(chan) /\ i + 1 \in 2 .. Len(chan) /\ chan'[i] = chan[i + 1]
    BY <1>1
  <2> QED
    BY <1>3, <2>1 DEF Once
<1>5. ASSUME NEW i \in 1 .. Len(chan'), NEW j \in 1 .. Len(chan'), i # j
      PROVE  Ips(chan'[i]) \cap Ips(chan'[j]) = {}
  <2>1. i + 1 \in 1 .. Len(chan) /\ chan'[i] = chan[i + 1]
        /\ j + 1 \in 1 .. Len(chan) /\ chan'[j] = chan[j + 1] /\ i + 1 # j + 1
    BY <1>1, <1>5
  <2> QED
    BY <2>1 DEF Once
<1>6. /\ Rows' \subseteq Rows \cup ips
      /\ \A r, q \in stored' : r.ip = q.ip => r = q
  <2>1. \A r, q \in stored : r.ip = q.ip => r = q
    BY DEF Once
  <2>2. CASE UNCHANGED stored
    BY <2>1, <2>2 DEF Rows
  <2>3. ASSUME NEW p \in Port,
               stored' = stored \cup {[ip |-> a, port |-> p] : a \in Ips(Head(chan))}
        PROVE  /\ Rows' \subseteq Rows \cup ips
               /\ \A r, q \in stored' : r.ip = q.ip => r = q
    <3>1. ASSUME NEW r \in stored'
          PROVE  \/ r \in stored /\ r.ip \in Rows
                 \/ r.ip \in ips /\ r = [ip |-> r.ip, port |-> p]
      BY <1>1, <2>3 DEF Rows
    <3>2. Rows' \subseteq Rows \cup ips
      BY <3>1 DEF Rows
    <3>3. ASSUME NEW r \in stored', NEW q \in stored', r.ip = q.ip PROVE r = q
      BY <1>3, <2>1, <3>1, <3>3
    <3> QED
      BY <3>2, <3>3
  <2> QED
    BY <2>2, <2>3 DEF Consumes
<1> HIDE DEF ips
<1>7. Rows \subseteq seen /\ Ips(batch) \subseteq seen /\ Ips(batch) \cap Rows = {} /\ Single(batch)
  BY DEF Once
<1>8. /\ Rows' \subseteq seen /\ Ips(batch) \cap Rows' = {}
      /\ \A i \in 1 .. Len(chan') : Ips(chan'[i]) \cap Rows' = {}
  BY <1>3, <1>4, <1>6, <1>7
<1> QED
  BY <1>2, <1>4, <1>5, <1>6, <1>7, <1>8 DEF Once, Single

LEMMA OnceStep ==
    ASSUME StreamTypes, Control, Once, [StreamMove]_streamVars
    PROVE  Once'
<1>1. CASE UNCHANGED <<seen, batch, chan, stored, unsaved>>
  BY <1>1 DEF Once, Rows
<1> QED
  BY <1>1, DataMoves, OnceGathers, OnceShips, OnceConsumes

-----------------------------------------------------------------------------
(* The host of every line that the reader has passed, also of one that it  *)
(* has seen a piece of, was seen, or its line was read in two pieces.      *)
Passed(l, s, c) == Addr(l.host) \in s \/ l.host \in c

Followed ==
    /\ \A i \in 1 .. pos.lines : Passed(out[i], seen, cut)
    /\ pos.piece # "none" => Passed(out[pos.lines + 1], seen, cut)

LEMMA FollowedReading ==
    ASSUME StreamTypes, Followed, Reading, UNCHANGED <<out, file>>
    PROVE  Followed'
<1>1. seen \subseteq seen' /\ cut \subseteq cut'
  BY ReadingFacts, GathersTypes
<1>2. ASSUME NEW l, Passed(l, seen, cut) PROVE Passed(l, seen', cut')
  BY <1>1, <1>2 DEF Passed
<1>3. pos \in [lines : Nat, piece : Piece] /\ file.lines <= Len(out) /\ pos.lines \in Nat
      /\ Len(out) \in Nat /\ out \in Seq(Line) /\ file.lines \in Nat
  BY DEF StreamTypes
<1>4. CASE ReadLine
  <2>1. pos.lines < file.lines /\ pos'.lines = pos.lines + 1 /\ pos'.piece = "none"
    BY <1>4 DEF ReadLine
  <2>2. Passed(out[pos.lines + 1], seen', cut')
    <3>1. CASE pos.piece = "none"
      <4>1. out[pos.lines + 1] \in Line
        BY <1>3, <2>1
      <4>2. Take(AsFound(out[pos.lines + 1]))
        BY <1>4, <3>1 DEF ReadLine
      <4>3. Addr(out[pos.lines + 1].host) \in seen'
        BY <4>1, <4>2, LineFound, TakeGathers
      <4> QED
        BY <4>3 DEF Passed
    <3>2. CASE pos.piece # "none"
      BY <1>2, <3>2 DEF Followed
    <3> QED
      BY <3>1, <3>2
  <2>3. ASSUME NEW i \in 1 .. pos'.lines PROVE Passed(out[i], seen', cut')
    <3>1. i \in 1 .. pos.lines \/ i = pos.lines + 1
      BY <1>3, <2>1
    <3> QED
      BY <1>2, <2>2, <3>1 DEF Followed
  <2> QED
    BY <2>1, <2>3 DEF Followed, Passed
<1>5. CASE ReadPiece
  <2>1. /\ pos.lines = file.lines /\ pos'.lines = pos.lines /\ pos'.piece = file.piece
    BY <1>3, <1>5 DEF ReadPiece
  <2>2. ASSUME file.piece # "none" PROVE Passed(out[pos.lines + 1], seen', cut')
    <3>1. CASE pos.piece # "none"
      BY <1>2, <3>1 DEF Followed
    <3>2. CASE pos.piece = "none" /\ file.piece = "full"
      <4>1. out[pos.lines + 1] \in Line
        BY <1>3, <2>1, <2>2 DEF StreamTypes
      <4>2. Take(AsFound(out[pos.lines + 1]))
        BY <1>5, <3>2 DEF ReadPiece
      <4>3. Addr(out[pos.lines + 1].host) \in seen'
        BY <4>1, <4>2, LineFound, TakeGathers
      <4> QED
        BY <4>3 DEF Passed
    <3>3. CASE pos.piece = "none" /\ file.piece # "full"
      BY <1>5, <2>2, <3>3 DEF ReadPiece, Passed
    <3> QED
      BY <3>1, <3>2, <3>3
  <2>3. \A i \in 1 .. pos'.lines : Passed(out[i], seen', cut')
    BY <1>2, <2>1 DEF Followed
  <2> QED
    BY <2>1, <2>2, <2>3 DEF Followed, Passed
<1> QED
  BY <1>4, <1>5 DEF Reading

LEMMA FollowedStep ==
    ASSUME StreamTypes, Control, Followed, [StreamMove]_streamVars
    PROVE  Followed'
<1>1. pos.lines \in Nat /\ pos.lines <= file.lines /\ file.lines <= Len(out)
      /\ (pos.piece # "none" => pos.lines < Len(out)) /\ file.lines \in Nat /\ Len(out) \in Nat
  BY DEF StreamTypes
<1>2. CASE ProcessStep
  <2>1. UNCHANGED <<pos, seen, cut>>
    BY <1>2 DEF ProcessStep, FindPort, Flush, Exit, ProcessUnchanged
  <2>2. \A i \in 1 .. Len(out) : out'[i] = out[i]
    <3>1. CASE out' = out
      BY <3>1
    <3>2. ASSUME NEW h \in Host, NEW p \in Port, FindPort(h, p)
          PROVE  \A i \in 1 .. Len(out) : out'[i] = out[i]
      <4>1. out' = Append(out, [host |-> h, port |-> p]) /\ out \in Seq(Line)
        BY <3>2 DEF FindPort, StreamTypes
      <4> QED
        BY <4>1 DEF Line
    <3> QED
      BY <1>2, <3>1, <3>2 DEF ProcessStep, Flush, Exit
  <2>3. ASSUME NEW i \in 1 .. Len(out), Passed(out[i], seen, cut) PROVE Passed(out[i], seen', cut')
    BY <2>1, <2>2, <2>3 DEF Passed
  <2>4. \A i \in 1 .. pos.lines : i \in 1 .. Len(out)
    BY <1>1
  <2>5. pos.piece # "none" => pos.lines + 1 \in 1 .. Len(out)
    BY <1>1
  <2>6. \A i \in 1 .. pos.lines : Passed(out'[i], seen', cut')
    BY <2>2, <2>3, <2>4 DEF Followed
  <2>7. pos.piece # "none" => Passed(out'[pos.lines + 1], seen', cut')
    BY <2>2, <2>3, <2>5 DEF Followed
  <2> QED
    BY <2>1, <2>6, <2>7 DEF Followed, Passed
<1>3. CASE ScanLine \/ EndPass \/ FinalLine \/ FinalEnd
  <2>1. Reading /\ UNCHANGED <<out, file>>
    BY <1>3 DEF ScanLine, EndPass, FinalLine, FinalEnd, Reading, processVars
  <2> QED
    BY <2>1, FollowedReading
<1>4. CASE UNCHANGED <<pos, seen, cut, out>>
  BY <1>4 DEF Followed, Passed
<1>5. CASE ReaderStep \/ WorkerStep
  <2>1. \/ ScanLine \/ EndPass \/ FinalLine \/ FinalEnd
        \/ UNCHANGED <<pos, seen, cut, out>>
    BY <1>5 DEF ReaderStep, WorkerStep, CheckExit, OpenFile, LookAgain, SendBatch, SendRest,
         SendLast, SendDone, StoreBatch, MarkPhase1Done, WorkerUnchanged, processVars
  <2> QED
    BY <1>3, <1>4, <2>1
<1>6. ASSUME NEW hosts \in SUBSET Host, StartMasscan(hosts) PROVE Followed'
  BY <1>4, <1>6 DEF StartMasscan
<1> QED
  BY <1>2, <1>4, <1>5, <1>6 DEF StreamMove, StreamNext, streamVars

-----------------------------------------------------------------------------
(* The list of CIDRs, until a chunk of it has been given to the worker.    *)
ListInv ==
    IF phase = "over"
    THEN cidrs = 0 /\ offset = 0 /\ chunks = <<>> /\ rates = <<>>
    ELSE SplitInv /\ WeightInv /\ cidrs <= MaxCidrs

Inv ==
    /\ ListInv
    /\ StreamTypes /\ Control /\ Delivered /\ Once /\ Followed

LEMMA InvInit == Init => Inv
<1> SUFFICES ASSUME Init PROVE Inv
  OBVIOUS
<1>1. StreamTypes /\ SplitInv /\ WeightInv
  BY StreamTypesInit, SplitInitInv, WeightInit DEF Init
<1>2. ListInv
  <2>1. cidrs \in 0 .. MaxCidrs /\ MaxCidrs \in Nat /\ phase = "add"
    BY SplitAssumption DEF Init, SplitInit
  <2> QED
    BY <1>1, <2>1 DEF ListInv
<1>3. Control
  BY DEF Init, StreamInit, Control
<1>4. Delivered /\ Followed
  BY DEF Init, StreamInit, Delivered, Followed
<1>5. Once
  BY NoIps DEF Init, StreamInit, Once, Rows
<1> QED
  BY <1>1, <1>2, <1>3, <1>4, <1>5 DEF Inv

\* Every step is a step of the split and of the stream, or of one of them.
LEMMA Moves ==
    ASSUME Inv, [Next]_vars
    PROVE  [StreamMove]_streamVars /\ ListInv'
<1>1. CASE Split
  <2>1. phase # "over"
    BY <1>1 DEF Split, SplitNext, AddRate, BeginCut, Publish
  <2>2. SplitInv' /\ WeightInv' /\ cidrs' = cidrs
    BY <1>1, <2>1, SplitStep, WeightAdd, WeightBegin, WeightPublish
       DEF Split, SplitNext, Inv, ListInv, AddRate, BeginCut, Publish
  <2>3. phase' # "over"
    BY <2>2 DEF SplitInv, SplitTypes
  <2> QED
    BY <1>1, <2>1, <2>2, <2>3 DEF Split, Inv, ListInv
<1>2. ASSUME NEW i \in DOMAIN chunks, Receive(i)
      PROVE  [StreamMove]_streamVars /\ ListInv'
  <2>1. SplitInv /\ i \in 1 .. Len(chunks)
    BY SMTT(60), <1>2 DEF Receive, Inv, ListInv, SplitInv, SplitTypes
  <2>2. chunks[i] \in [from : Nat, to : Nat]
    <3>1. chunks \in Seq([from : Nat, to : Nat])
      BY <2>1 DEF SplitInv, SplitTypes
    <3> QED
      BY <2>1, <3>1, ElementOf
  <2>3. 1 .. (chunks[i].to - chunks[i].from) \in SUBSET Host
    BY <1>2, <2>2, Phase1Assumption DEF Receive
  <2>4. StreamMove
    BY <1>2, <2>3 DEF Receive, StreamMove
  <2> QED
    BY <1>2, <2>4 DEF Receive, ListInv
<1>3. CASE Stream \/ UNCHANGED vars
  <2>1. UNCHANGED splitVars
    BY <1>3 DEF Stream, vars
  <2>2. ListInv'
    <3>1. CASE phase = "over"
      BY <2>1, <3>1 DEF splitVars, Inv, ListInv
    <3>2. CASE phase # "over"
      <4>1. SplitInv' /\ WeightInv'
        BY <2>1, <3>2, SplitStep, WeightStutter DEF Inv, ListInv
      <4> QED
        BY <2>1, <3>2, <4>1 DEF splitVars, Inv, ListInv
    <3> QED
      BY <3>1, <3>2
  <2> QED
    BY <1>3, <2>2 DEF Stream, StreamMove, vars
<1> QED
  BY <1>1, <1>2, <1>3 DEF Next

LEMMA InvHolds == Spec => []Inv
<1>1. Inv /\ [Next]_vars => Inv'
  <2> SUFFICES ASSUME Inv, [Next]_vars PROVE Inv'
    OBVIOUS
  <2>1. [StreamMove]_streamVars /\ ListInv'
    BY Moves
  <2> QED
    BY <2>1, StreamTypesStep, ControlStep, DeliveredStep, OnceStep, FollowedStep DEF Inv
<1> QED
  BY <1>1, InvInit, PTL DEF Spec

-----------------------------------------------------------------------------
(* The state of phase 1 has its type: no chunk reaches past the list, the  *)
(* channel holds no more than it can, the reader is never ahead of the     *)
(* file (main.go:184-206, masscan.go:234-293).                             *)
THEOREM Phase1TypeCorrect == Spec => []TypeOK
<1>1. Inv => TypeOK
  <2> SUFFICES ASSUME Inv PROVE TypeOK
    OBVIOUS
  <2>1. cidrs \in 0 .. MaxCidrs /\ offset \in 0 .. cidrs /\ Len(chunks) <= Len(rates)
    <3>1. CASE phase = "over"
      BY <3>1, SplitAssumption DEF Inv, ListInv
    <3>2. CASE phase # "over"
      BY SMTT(60), <3>2, SplitAssumption DEF Inv, ListInv, SplitInv, SplitTypes, Progress
    <3> QED
      BY <3>1, <3>2
  <2>2. /\ file \in [made : BOOLEAN, lines : 0 .. Len(out), piece : Piece]
        /\ pos \in [lines : 0 .. file.lines, piece : Piece]
    BY DEF Inv, StreamTypes
  <2>3. \A i \in DOMAIN chan : chan[i] \in Seq(Found)
    BY DEF Inv, StreamTypes
  <2> QED
    BY <2>1, <2>2, <2>3 DEF Inv, StreamTypes, TypeOK
<1> QED
  BY <1>1, InvHolds, PTL

(* What masscan's file holds when the chunk is reported is in the table,   *)
(* but for the addresses of inserts that failed and of lines that were     *)
(* read in two pieces: no step of reader, worker and process at any other  *)
(* moment loses one (masscan.go:234-333, worker/main.go:229-256).          *)
THEOREM FoundIsStoredHolds == Spec => []FoundIsStored
<1>1. Inv => FoundIsStored
  <2> SUFFICES ASSUME Inv, worker = "marked", NEW i \in 1 .. file.lines
               PROVE  \/ \E r \in stored : r.ip = Addr(out[i].host)
                      \/ Addr(out[i].host) \in unsaved
                      \/ out[i].host \in cut
    BY DEF FoundIsStored
  <2>1. reader = "closed" /\ chan = <<>> /\ batch = <<>> /\ pos.lines = file.lines
    <3>1. file.lines \in Nat /\ file.lines # 0
      BY DEF Inv, StreamTypes
    <3> QED
      BY <3>1 DEF Inv, Control
  <2>2. Addr(out[i].host) \in seen \/ out[i].host \in cut
    BY <2>1 DEF Inv, Followed, Passed
  <2>3. Ips(batch) = {} /\ Len(chan) = 0
    BY <2>1, NoIps, NoneYet
  <2>4. \A a \in seen : a \in Rows \/ a \in unsaved
    BY <2>3 DEF Inv, Delivered
  <2> QED
    BY <2>2, <2>4 DEF Rows
<1> QED
  BY <1>1, InvHolds, PTL

(* No address is in the table twice, nor on its way there a second time:   *)
(* phase 2 scans it once, with the port it was first seen with             *)
(* (masscan.go:276-281, 318-323).                                          *)
THEOREM OneRowPerAddressHolds == Spec => []OneRowPerAddress
<1>1. Inv => OneRowPerAddress
  <2> SUFFICES ASSUME Inv PROVE OneRowPerAddress
    OBVIOUS
  <2>1. DOMAIN chan = 1 .. Len(chan)
    BY DEF Inv, StreamTypes
  <2> QED
    BY <2>1 DEF Inv, Once, Single, Rows, OneRowPerAddress
<1> QED
  BY <1>1, InvHolds, PTL

(* The two properties of the list hold of the composition too: handing a   *)
(* chunk to a worker does not touch the chunks (main.go:185-206).          *)
THEOREM Phase1SplitHolds == Spec => [](ChunksPartition /\ NearShare)
<1>1. Inv => ChunksPartition /\ NearShare
  <2>1. CASE phase = "over"
    BY <2>1 DEF Inv, ListInv, ChunksPartition, NearShare
  <2>2. CASE phase # "over"
    BY <2>2, SplitInvPartitions, WeightInvNear DEF Inv, ListInv
  <2> QED
    BY <2>1, <2>2
<1> QED
  BY <1>1, InvHolds, PTL
=============================================================================
