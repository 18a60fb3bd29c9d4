--------------------------- MODULE TorrentSession ---------------------------
(***************************************************************************)
(* The download of one torrent: src/pkg/torrent/torrentsession.go.          *)
(*                                                                         *)
(* Three kinds of goroutine share the session:                              *)
(*   - the scheduler (scheduleWork), which hands every missing piece to     *)
(*     workChan once and moves the indices of failedWorkChan back to it;    *)
(*   - startPeers, which walks the list of peers and starts a worker for    *)
(*     each one whose handshake succeeds while a slot is free;              *)
(*   - one worker per connected peer (handlePeerConnection), which takes an *)
(*     index, downloads the piece, verifies it, writes it and sets its bit. *)
(*                                                                         *)
(* The channels are buffered with capacity Threads; a send on a full        *)
(* channel blocks.  workChan is read with a default case: on an empty       *)
(* channel the worker goes on with pieceIndex = 0.                          *)
(*                                                                         *)
(* initialize runs before the session.  CreateEmptyFile writes a new file    *)
(* piece by piece, and a file that a crash left short is never completed:   *)
(* initializeBitField reads on in the next file, so that stored pieces lose *)
(* their bits, or panics on the closed last file (SessionFiles looks at it  *)
(* byte by byte).  Bytes read from the wrong place do not hash right here.  *)
(*                                                                         *)
(* A peer is an entry of the list GetPeers returns.  pc.Choked is not kept: *)
(* a peer may choke and unchoke at will, so every round of a worker picks.  *)
(***************************************************************************)
EXTENDS Integers, Sequences, FiniteSets, Functions

CONSTANTS
    NumPieces,    \* ts.TorrentInfo.GetNumPieces()
    NumPeers,     \* length of the list startPeers walks
    Threads,      \* slots for workers and capacity of both channels
    MaxSegments,  \* bound on the files a piece is spread over
    Segments,     \* Segments[i]: the number of files piece i is spread over
    Offers,       \* Offers[p]: the pieces peer p may tell us it has
    Steady,       \* peers that accept, unchoke, answer and keep the connection
    FaultKinds,   \* the faults that may happen
    MaxFaults     \* bound on their number

Piece == 0 .. NumPieces - 1
Peer  == 1 .. NumPeers

ASSUME SessionAssumption ==
    /\ NumPieces \in Nat \ {0}
    /\ NumPeers \in Nat
    /\ Threads \in Nat \ {0}
    /\ MaxSegments \in Nat
    /\ Segments \in [Piece -> 1 .. MaxSegments]
    /\ Offers \in [Peer -> SUBSET Piece]
    /\ Steady \subseteq Peer
    /\ MaxFaults \in Nat

VARIABLES
    workChan,         \* indices a worker may take
    failedWorkChan,   \* indices a worker has given back
    piecesScheduled,  \* local to scheduleWork: indices sent once
    schedPc,          \* where scheduleWork is
    schedPiece,       \* the index it is about to send
    nextPeer,         \* i of startPeers
    peersStarted,     \* occupied slots
    pc,               \* pc[p]: where the worker of p is
    has,              \* has[p]: pc.bitField of p's connection
    piece,            \* piece[p]: pieceIndex of the worker
    data,             \* data[p]: what getPiece returned
    seg,              \* seg[p]: the file the worker writes next
    pieceBitField,    \* ts.pieceBitField: the bits that are set
    disk,             \* disk[i]: the segments of i with the right bytes
    whole,            \* no crash has left a file short that was being created
    faults            \* faults so far

scheduler == <<piecesScheduled, schedPc, schedPiece>>
channels  == <<workChan, failedWorkChan>>
slots     == <<nextPeer, peersStarted>>
locals    == <<piece, data, seg>>
store     == <<pieceBitField, disk, whole>>
vars == <<scheduler, channels, slots, pc, has, locals, store, faults>>

-----------------------------------------------------------------------------
\* "panicked": initializeBitField ended the process before the session began
SchedPcs   == {"check", "select", "resend", "pick", "send", "done", "panicked"}
\* a worker that carries an index: it owes the session this piece
HoldingPcs == {"fetch", "verify", "reject", "requeue", "write", "mark"}
\* a worker that occupies a slot
ActivePcs  == HoldingPcs \cup {"loop", "spinning", "take", "exit"}
PeerPcs    == ActivePcs \cup {"new", "skipped", "refused", "silent", "stopped"}

SegmentsOf(i) == 1 .. Segments[i]
Disks == {d \in [Piece -> SUBSET (1 .. MaxSegments)] :
            \A i \in Piece : d[i] \subseteq SegmentsOf(i)}

\* the pieces all of whose bytes are on disk
Verified(d) == {i \in Piece : d[i] = SegmentsOf(i)}

\* a file whose last byte has been written has its full length
FilesWhole == whole \/ Verified(disk) = Piece

\* what hashing the files may find, and where it leaves scheduleWork: every
\* stored piece when the files are whole, else some of them, or a panic
Hashed(bits, label) ==
    \/ label = "check" /\ bits \subseteq Verified(disk) /\ (FilesWhole => bits = Verified(disk))
    \/ label = "panicked" /\ bits = {} /\ ~FilesWhole

gotAllPieces == pieceBitField = Piece

\* the search of scheduleWork for the least index that is neither had nor sent
Unscheduled == {i \in Piece : i \notin pieceBitField /\ i \notin piecesScheduled}

QueuesOK ==
    /\ workChan \in Seq(Piece) /\ Len(workChan) <= Threads
    /\ failedWorkChan \in Seq(Piece) /\ Len(failedWorkChan) <= Threads

SchedulerOK ==
    /\ piecesScheduled \subseteq Piece
    /\ schedPc \in SchedPcs
    /\ schedPiece \in Piece

CountersOK ==
    /\ nextPeer \in 1 .. NumPeers + 1
    /\ peersStarted \in Int
    /\ faults \in 0 .. MaxFaults

WorkersOK ==
    /\ pc \in [Peer -> PeerPcs]
    /\ has \in [Peer -> SUBSET Piece]
    /\ piece \in [Peer -> Piece]
    /\ data \in [Peer -> {"none", "good", "bad"}]
    /\ seg \in [Peer -> Nat]

StoreOK ==
    /\ pieceBitField \subseteq Piece
    /\ disk \in Disks
    /\ whole \in BOOLEAN

TypeOK == QueuesOK /\ SchedulerOK /\ CountersOK /\ WorkersOK /\ StoreOK

-----------------------------------------------------------------------------
\* no process has run yet; the bits are not computed when the single file has
\* just been created
Init ==
    /\ workChan = <<>>
    /\ failedWorkChan = <<>>
    /\ piecesScheduled = {}
    /\ schedPiece = 0
    /\ nextPeer = 1
    /\ peersStarted = 0
    /\ pc = [p \in Peer |-> "new"]
    /\ has = [p \in Peer |-> {}]
    /\ piece = [p \in Peer |-> 0]
    /\ data = [p \in Peer |-> "none"]
    /\ seg = [p \in Peer |-> 1]
    /\ disk \in Disks
    /\ whole \in BOOLEAN
    /\ schedPc \in {"check", "panicked"}
    /\ pieceBitField \in SUBSET Piece
    /\ Hashed(pieceBitField, schedPc) \/ (pieceBitField = {} /\ schedPc = "check")
    /\ faults = 0

Goto(p, label) == pc' = [pc EXCEPT ![p] = label]

\* pieceIndex, piece and err are local to one iteration of the worker's loop
Forget(p) ==
    /\ piece' = [piece EXCEPT ![p] = 0]
    /\ data'  = [data EXCEPT ![p] = "none"]
    /\ seg'   = [seg EXCEPT ![p] = 1]

\* a fault of p; pieces that fail verification may come from any peer
Fault(kind, p) ==
    /\ kind \in FaultKinds
    /\ faults < MaxFaults
    /\ kind = "bad" \/ p \notin Steady
    /\ faults' = faults + 1

-----------------------------------------------------------------------------
(* Wrong variants of the actions below: each is the action with one slip a  *)
(* programmer could make, and is substituted for it to see that a property  *)
(* notices.  None of them is part of the specification.                     *)

\* the loop ends when everything has been handed out
SchedCheckEarly ==
    /\ schedPc = "check"
    /\ schedPc' = IF Unscheduled = {} THEN "done" ELSE "select"
    /\ UNCHANGED <<piecesScheduled, schedPiece, channels, slots, pc, has, locals, store, faults>>

\* failedWorkChan is not looked at
SchedCheckNoSelect ==
    /\ schedPc = "check"
    /\ schedPc' = IF gotAllPieces THEN "done" ELSE "pick"
    /\ UNCHANGED <<piecesScheduled, schedPiece, channels, slots, pc, has, locals, store, faults>>

\* piecesScheduled[pieceIndex] = true is missing
SchedPickUnrecorded ==
    /\ schedPc = "pick"
    /\ \E i \in Unscheduled :
        /\ \A j \in Unscheduled : i <= j
        /\ schedPiece' = i
    /\ schedPc' = "send"
    /\ UNCHANGED <<piecesScheduled, channels, slots, pc, has, locals, store, faults>>

\* a piece that is announced already is not hashed
VerifyPieceOnce(p) ==
    /\ pc[p] = "verify"
    /\ Goto(p, IF data[p] = "good" \/ piece[p] \in pieceBitField THEN "write" ELSE "requeue")
    /\ UNCHANGED <<scheduler, channels, slots, has, locals, store, faults>>

\* the piece that failed verification is forgotten
RequeueNothing(p) ==
    /\ pc[p] = "requeue"
    /\ Goto(p, "loop")
    /\ Forget(p)
    /\ UNCHANGED <<scheduler, channels, slots, has, store, faults>>

\* the worker leaves without giving the piece back
RejectNothing(p) ==
    /\ pc[p] = "reject"
    /\ Goto(p, "exit")
    /\ Forget(p)
    /\ UNCHANGED <<scheduler, channels, slots, has, store, faults>>

\* the index is given back to a queue without bound
RejectUnbounded(p) ==
    /\ pc[p] = "reject"
    /\ failedWorkChan' = Append(failedWorkChan, piece[p])
    /\ Goto(p, "exit")
    /\ Forget(p)
    /\ UNCHANGED <<scheduler, workChan, slots, has, store, faults>>

\* the bit is set when the first file has been written
WriteFirstSegment(p) ==
    /\ pc[p] = "write"
    /\ disk' = [disk EXCEPT ![piece[p]] =
                  IF data[p] = "good" THEN @ \cup {seg[p]} ELSE @ \ {seg[p]}]
    /\ seg' = [seg EXCEPT ![p] = @ + 1]
    /\ Goto(p, "mark")
    /\ UNCHANGED <<scheduler, channels, slots, has, piece, data, pieceBitField, whole, faults>>

\* peersStarted-- is missing
ExitKeepsSlot(p) ==
    /\ pc[p] = "exit"
    /\ Goto(p, "stopped")
    /\ UNCHANGED <<scheduler, channels, slots, has, locals, store, faults>>

-----------------------------------------------------------------------------
(* scheduleWork *)

SchedCheck ==
    /\ schedPc = "check"
    /\ schedPc' = IF gotAllPieces THEN "done" ELSE "select"
    /\ UNCHANGED <<piecesScheduled, schedPiece, channels, slots, pc, has, locals, store, faults>>

SchedTakeFailed ==
    /\ schedPc = "select"
    /\ failedWorkChan # <<>>
    /\ schedPiece' = Head(failedWorkChan)
    /\ failedWorkChan' = Tail(failedWorkChan)
    /\ schedPc' = "resend"
    /\ UNCHANGED <<piecesScheduled, workChan, slots, pc, has, locals, store, faults>>

SchedNoFailed ==
    /\ schedPc = "select"
    /\ failedWorkChan = <<>>
    /\ schedPc' = "pick"
    /\ UNCHANGED <<piecesScheduled, schedPiece, channels, slots, pc, has, locals, store, faults>>

SchedResend ==
    /\ schedPc = "resend"
    /\ Len(workChan) < Threads
    /\ workChan' = Append(workChan, schedPiece)
    /\ schedPc' = "pick"
    /\ schedPiece' = 0
    /\ UNCHANGED <<piecesScheduled, failedWorkChan, slots, pc, has, locals, store, faults>>

SchedPick ==
    /\ schedPc = "pick"
    /\ \E i \in Unscheduled :
        /\ \A j \in Unscheduled : i <= j
        /\ piecesScheduled' = piecesScheduled \cup {i}
        /\ schedPiece' = i
    /\ schedPc' = "send"
    /\ UNCHANGED <<channels, slots, pc, has, locals, store, faults>>

\* no piece is left to schedule: sleep and look again
SchedIdle ==
    /\ schedPc = "pick"
    /\ Unscheduled = {}
    /\ schedPc' = "check"
    /\ UNCHANGED <<piecesScheduled, schedPiece, channels, slots, pc, has, locals, store, faults>>

SchedSend ==
    /\ schedPc = "send"
    /\ Len(workChan) < Threads
    /\ workChan' = Append(workChan, schedPiece)
    /\ schedPc' = "check"
    /\ schedPiece' = 0
    /\ UNCHANGED <<piecesScheduled, failedWorkChan, slots, pc, has, locals, store, faults>>

Scheduler ==
    \/ SchedCheck
    \/ SchedTakeFailed
    \/ SchedNoFailed
    \/ SchedResend
    \/ SchedPick
    \/ SchedIdle
    \/ SchedSend

-----------------------------------------------------------------------------
(* startPeers *)

\* startPeers is at peer p and not waiting for an earlier handshake
AtPeer(p) == nextPeer = p /\ pc[p] = "new" /\ schedPc # "panicked"

\* every slot is taken: sleep, then go on with the NEXT entry of the list
SkipPeer(p) ==
    /\ AtPeer(p)
    /\ peersStarted >= Threads
    /\ Goto(p, "skipped")
    /\ nextPeer' = nextPeer + 1
    /\ UNCHANGED <<scheduler, channels, peersStarted, has, locals, store, faults>>

HandshakeOk(p) ==
    /\ AtPeer(p)
    /\ peersStarted < Threads
    /\ Goto(p, "loop")
    /\ peersStarted' = peersStarted + 1
    /\ nextPeer' = nextPeer + 1
    /\ UNCHANGED <<scheduler, channels, has, locals, store, faults>>

HandshakeFails(p) ==
    /\ AtPeer(p)
    /\ peersStarted < Threads
    /\ Fault("refused", p)
    /\ Goto(p, "refused")
    /\ nextPeer' = nextPeer + 1
    /\ UNCHANGED <<scheduler, channels, peersStarted, has, locals, store>>

\* io.ReadFull without a deadline on a peer that accepts and never answers
HandshakeHangs(p) ==
    /\ AtPeer(p)
    /\ peersStarted < Threads
    /\ Fault("silent", p)
    /\ Goto(p, "silent")
    /\ UNCHANGED <<scheduler, channels, slots, has, locals, store>>

-----------------------------------------------------------------------------
(* handlePeerConnection *)

\* ReadAndHandleMessages, and the peer still chokes us.  A have message adds
\* to what we know of the peer, a bitfield message replaces it.
StayChoked(p) ==
    /\ pc[p] = "loop"
    /\ \E known \in SUBSET Offers[p] : has' = [has EXCEPT ![p] = known]
    /\ UNCHANGED <<scheduler, channels, slots, pc, locals, store, faults>>

\* ReadAndHandleMessages, and the peer does not choke us
Unchoked(p) ==
    /\ pc[p] = "loop"
    /\ \E known \in SUBSET Offers[p] :
        /\ p \in Steady => known = Offers[p]
        /\ has' = [has EXCEPT ![p] = known]
    /\ Goto(p, "take")
    /\ UNCHANGED <<scheduler, channels, slots, locals, store, faults>>

\* every further read fails as well, and the error is followed by continue
ConnectionLost(p) ==
    /\ pc[p] = "loop"
    /\ Fault("lost", p)
    /\ Goto(p, "spinning")
    /\ UNCHANGED <<scheduler, channels, slots, has, locals, store>>

\* the select on workChan, whose default case leaves pieceIndex at 0
TakeWork(p) ==
    /\ pc[p] = "take"
    /\ LET index == IF workChan = <<>> THEN 0 ELSE Head(workChan)
       IN  /\ piece' = [piece EXCEPT ![p] = index]
           /\ Goto(p, IF index \in has[p] THEN "fetch" ELSE "reject")
    /\ workChan' = IF workChan = <<>> THEN <<>> ELSE Tail(workChan)
    /\ UNCHANGED <<scheduler, failedWorkChan, slots, has, data, seg, store, faults>>

\* getPiece returns a piece with the right bytes
GetPiece(p) ==
    /\ pc[p] = "fetch"
    /\ data' = [data EXCEPT ![p] = "good"]
    /\ Goto(p, "verify")
    /\ UNCHANGED <<scheduler, channels, slots, has, piece, seg, store, faults>>

\* getPiece returns a piece with wrong bytes
GetBadPiece(p) ==
    /\ pc[p] = "fetch"
    /\ Fault("bad", p)
    /\ data' = [data EXCEPT ![p] = "bad"]
    /\ Goto(p, "verify")
    /\ UNCHANGED <<scheduler, channels, slots, has, piece, seg, store>>

\* getPiece returns an error: a timeout or a lost connection
GetPieceFails(p) ==
    /\ pc[p] = "fetch"
    /\ Fault("err", p)
    /\ Goto(p, "reject")
    /\ UNCHANGED <<scheduler, channels, slots, has, locals, store>>

VerifyPiece(p) ==
    /\ pc[p] = "verify"
    /\ Goto(p, IF data[p] = "good" THEN "write" ELSE "requeue")
    /\ UNCHANGED <<scheduler, channels, slots, has, locals, store, faults>>

\* the piece failed verification: give it back and go on
Requeue(p) ==
    /\ pc[p] = "requeue"
    /\ Len(failedWorkChan) < Threads
    /\ failedWorkChan' = Append(failedWorkChan, piece[p])
    /\ Goto(p, "loop")
    /\ Forget(p)
    /\ UNCHANGED <<scheduler, workChan, slots, has, store, faults>>

\* the peer lacks the piece or getPiece failed: give it back and leave
Reject(p) ==
    /\ pc[p] = "reject"
    /\ Len(failedWorkChan) < Threads
    /\ failedWorkChan' = Append(failedWorkChan, piece[p])
    /\ Goto(p, "exit")
    /\ Forget(p)
    /\ UNCHANGED <<scheduler, workChan, slots, has, store, faults>>

\* one file of writePieceToFiles, under fileLock
WriteSegment(p) ==
    /\ pc[p] = "write"
    /\ disk' = [disk EXCEPT ![piece[p]] =
                  IF data[p] = "good" THEN @ \cup {seg[p]} ELSE @ \ {seg[p]}]
    /\ seg' = [seg EXCEPT ![p] = @ + 1]
    /\ Goto(p, IF seg[p] = Segments[piece[p]] THEN "mark" ELSE "write")
    /\ UNCHANGED <<scheduler, channels, slots, has, piece, data, pieceBitField, whole, faults>>

\* SetBitFieldPiece, and back to the head of the loop
MarkPiece(p) ==
    /\ pc[p] = "mark"
    /\ pieceBitField' = pieceBitField \cup {piece[p]}
    /\ Goto(p, "loop")
    /\ Forget(p)
    /\ UNCHANGED <<scheduler, channels, slots, has, disk, whole, faults>>

\* nobody refers to the connection any more
Exit(p) ==
    /\ pc[p] = "exit"
    /\ peersStarted' = peersStarted - 1
    /\ Goto(p, "stopped")
    /\ has' = [has EXCEPT ![p] = {}]
    /\ UNCHANGED <<scheduler, channels, nextPeer, locals, store, faults>>

-----------------------------------------------------------------------------
(* The end of a process and the start of the next one on the same data      *)
(* directory.                                                               *)

MemoryLost ==
    /\ workChan' = <<>>
    /\ failedWorkChan' = <<>>
    /\ piecesScheduled' = {}
    /\ schedPiece' = 0
    /\ nextPeer' = 1
    /\ peersStarted' = 0
    /\ pc' = [p \in Peer |-> "new"]
    /\ has' = [p \in Peer |-> {}]
    /\ piece' = [p \in Peer |-> 0]
    /\ data' = [p \in Peer |-> "none"]
    /\ seg' = [p \in Peer |-> 1]

\* a wrong variant: the files that exist are not hashed
initializeBitFieldEmpty ==
    /\ pieceBitField' = {}
    /\ schedPc' = "check"
    /\ UNCHANGED <<disk, whole>>

\* every file exists, so the bits come from hashing the files
initializeBitField ==
    /\ pieceBitField' \in SUBSET Piece
    /\ schedPc' \in {"check", "panicked"}
    /\ Hashed(pieceBitField', schedPc')
    /\ UNCHANGED <<disk, whole>>

Crash ==
    /\ "crash" \in FaultKinds
    /\ faults < MaxFaults
    /\ faults' = faults + 1
    /\ MemoryLost
    /\ initializeBitField

\* a request on a connection startPeers opened: its pieceCache is nil
RequestPanics(p) ==
    /\ pc[p] \in {"loop", "fetch"}
    /\ Fault("request", p)
    /\ MemoryLost
    /\ initializeBitField

-----------------------------------------------------------------------------
\* what a worker does by itself, whatever its peer sends
WorkerStep(p) ==
    \/ TakeWork(p)
    \/ VerifyPiece(p)
    \/ Requeue(p)
    \/ Reject(p)
    \/ WriteSegment(p)
    \/ MarkPiece(p)
    \/ Exit(p)

Worker(p) ==
    \/ StayChoked(p)
    \/ Unchoked(p)
    \/ ConnectionLost(p)
    \/ GetPiece(p)
    \/ GetBadPiece(p)
    \/ GetPieceFails(p)
    \/ WorkerStep(p)
    \/ RequestPanics(p)

StartPeer(p) ==
    \/ SkipPeer(p)
    \/ HandshakeOk(p)
    \/ HandshakeFails(p)
    \/ HandshakeHangs(p)

Next ==
    \/ Scheduler
    \/ \E p \in Peer : StartPeer(p) \/ Worker(p)
    \/ Crash

Spec == Init /\ [][Next]_vars

\* The Go runtime runs every goroutine that is not blocked.  A steady peer
\* unchokes us in the end and answers our requests.  The others owe us nothing
\* at the head of the loop, and nothing in getPiece: any message restarts its
\* deadline of 5 s, so a peer that chokes us and goes on talking holds it.
Fairness ==
    /\ WF_vars(Scheduler)
    /\ \A p \in Peer :
        /\ WF_vars(SkipPeer(p) \/ HandshakeOk(p))
        /\ WF_vars(WorkerStep(p))
    /\ \A p \in Steady : WF_vars(Unchoked(p)) /\ WF_vars(GetPiece(p))

FairSpec == Spec /\ Fairness

-----------------------------------------------------------------------------
(* Properties *)

\* the places where index i is on its way to the bitfield
Copies(i) ==
    ({"work"} \X {k \in 1 .. Len(workChan) : workChan[k] = i})
    \cup ({"failed"} \X {k \in 1 .. Len(failedWorkChan) : failedWorkChan[k] = i})
    \cup ({"worker"} \X {p \in Peer : pc[p] \in HoldingPcs /\ piece[p] = i})
    \cup ({"scheduler"} \X {n \in {0} : schedPc \in {"resend", "send"} /\ schedPiece = i})

\* A bit of pieceBitField, which is what other peers are told and what the
\* scheduler relies on to finish, is set only for a piece all of whose files
\* have been written with verified bytes; the session is over only then.
BitfieldSound ==
    /\ pieceBitField \subseteq Verified(disk)
    /\ schedPc = "done" => Verified(disk) = Piece

\* No index is ever dropped: scheduleWork sends an index by itself only once,
\* so a piece that was sent and is not had must be in a channel or be carried
\* by the scheduler or by a worker, whatever the peers do.
NoLostPiece ==
    \A i \in piecesScheduled \ pieceBitField : Copies(i) # {}

\* No piece is fetched twice: an index other than 0 is in one place at a time,
\* and nowhere once its bit is set.  (Index 0 is also what a worker gets from
\* an empty workChan, so it may be carried by many.)
NoDoubleDownload ==
    \A i \in Piece \ {0} :
        Cardinality(Copies(i)) <= IF i \in piecesScheduled \ pieceBitField THEN 1 ELSE 0

\* peersStarted, which startPeers reads to decide whether to skip a peer, is
\* the number of workers that occupy a slot, and never more than Threads.
SlotBound ==
    /\ peersStarted = Cardinality({p \in Peer : pc[p] \in ActivePcs})
    /\ peersStarted <= Threads

\* While no file is short, a set bit is never cleared, by a crash and a restart
\* neither.  (A file left short by a crash in CreateEmptyFile may cost stored
\* pieces their bits at every start until the whole torrent is stored.)
Durable == [][FilesWhole => pieceBitField \subseteq pieceBitField']_vars

\* A worker may write over a piece that is already announced (a second copy of
\* piece 0): a segment that has the right bytes keeps them at every step.
NeverSpoiled == [][\A i \in Piece : disk[i] \subseteq disk'[i]]_vars

\* The session implements PieceStore: announced after stored, finished after
\* everything is announced, and a restart announces nothing that is not stored,
\* and leaves out nothing that is as long as no file is short.
Store == INSTANCE PieceStore WITH
    stored <- Verified(disk), announced <- pieceBitField, finished <- schedPc = "done",
    intact <- whole

ImplementsPieceStore == Store!Spec

\* a peer that is not steady keeps its worker in getPiece, with its index
HeldByPeer == \E p \in Peer \ Steady : <>[](pc[p] = "fetch")

\* both channels are full and the scheduler is in the middle of a send
Jammed ==
    /\ schedPc \in {"resend", "send"}
    /\ Len(workChan) = Threads /\ Len(failedWorkChan) = Threads

\* With a steady peer that has every piece and has a slot from some point on,
\* and finitely many faults, the download ends and stays ended, unless a peer
\* that is not steady holds an index for ever or the two channels jam.
Completes ==
    \/ <>[](schedPc = "done")
    \/ HeldByPeer
    \/ <>[]Jammed
    \/ \A p \in Steady : []<>(Offers[p] # Piece \/ pc[p] \notin ActivePcs)

\* "Piece %v failed verification, will reschedule" (torrentsession.go:437):
\* an index in failedWorkChan is sent to workChan again, unless its piece is
\* had by then.
FailedIsRescheduled ==
    \A i \in Piece :
        (i \in Range(failedWorkChan)) ~> (i \in Range(workChan) \/ i \in pieceBitField)
=============================================================================
