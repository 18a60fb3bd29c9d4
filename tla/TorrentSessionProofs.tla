------------------------ MODULE TorrentSessionProofs ------------------------
(***************************************************************************)
(* Proofs about TorrentSession, for every number of pieces, peers, slots    *)
(* and file segments, every set of faults and every bound on them.          *)
(***************************************************************************)
EXTENDS TorrentSession, FiniteSetTheorems, TLAPS

USE SessionAssumption DEF scheduler, channels, slots, locals, store

-----------------------------------------------------------------------------
(* The inductive invariant: what a worker knows of the piece it is writing, *)
(* and what that leaves on disk for MarkPiece.                              *)

WriterKnows(p) ==
    /\ pc[p] \in {"write", "mark"} => data[p] = "good"
    /\ pc[p] \notin {"write", "mark"} => seg[p] = 1
    /\ pc[p] = "write" =>
        /\ seg[p] \in SegmentsOf(piece[p])
        /\ 1 .. seg[p] - 1 \subseteq disk[piece[p]]
    /\ pc[p] = "mark" => disk[piece[p]] = SegmentsOf(piece[p])

WritersKnow == \A p \in Peer : WriterKnows(p)

IInv == TypeOK /\ WritersKnow /\ BitfieldSound

-----------------------------------------------------------------------------
(* Types.  Each part of TypeOK is kept by the actions that touch it; the    *)
(* last step of each lemma says that the other actions do not.              *)

LEMMA QueuesStep == ASSUME TypeOK, [Next]_vars PROVE QueuesOK'
<1> USE DEF TypeOK, QueuesOK, SchedulerOK, WorkersOK
<1>1. CASE SchedTakeFailed
  BY <1>1 DEF SchedTakeFailed
<1>2. CASE SchedResend
  BY <1>2 DEF SchedResend
<1>3. CASE SchedSend
  BY <1>3 DEF SchedSend
<1>4. ASSUME NEW p \in Peer, TakeWork(p) PROVE QueuesOK'
  BY <1>4 DEF TakeWork
<1>5. ASSUME NEW p \in Peer, Requeue(p) PROVE QueuesOK'
  BY <1>5 DEF Requeue
<1>6. ASSUME NEW p \in Peer, Reject(p) PROVE QueuesOK'
  BY <1>6 DEF Reject
<1>7. CASE MemoryLost
  BY <1>7 DEF MemoryLost
<1>8. CASE UNCHANGED channels
  BY <1>8
<1> QED
  BY <1>1, <1>2, <1>3, <1>4, <1>5, <1>6, <1>7, <1>8
  DEF vars, Next, Scheduler, StartPeer, Worker, WorkerStep, SchedCheck, SchedNoFailed,
      SchedPick, SchedIdle, SkipPeer, HandshakeOk, HandshakeFails, HandshakeHangs,
      StayChoked, Unchoked, ConnectionLost, GetPiece, GetBadPiece, GetPieceFails,
      VerifyPiece, WriteSegment, MarkPiece, Exit, Crash, RequestPanics

LEMMA SchedulerTypeStep == ASSUME TypeOK, [Next]_vars PROVE SchedulerOK'
<1> USE DEF TypeOK, QueuesOK, SchedulerOK, SchedPcs
<1>1. 0 \in Piece
  BY DEF Piece
<1>2. CASE SchedTakeFailed
  <2>1. Head(failedWorkChan) \in Piece
    BY <1>2 DEF SchedTakeFailed
  <2> QED
    BY <1>2, <2>1 DEF SchedTakeFailed
<1>3. CASE SchedPick
  BY <1>3 DEF SchedPick, Unscheduled
<1>4. CASE SchedResend \/ SchedSend
  BY <1>1, <1>4 DEF SchedResend, SchedSend
<1>5. CASE SchedCheck \/ SchedNoFailed \/ SchedIdle
  BY <1>5 DEF SchedCheck, SchedNoFailed, SchedIdle
<1>6. CASE MemoryLost /\ initializeBitField
  BY <1>1, <1>6 DEF MemoryLost, initializeBitField
<1>7. CASE UNCHANGED scheduler
  BY <1>7
<1> QED
  BY <1>2, <1>3, <1>4, <1>5, <1>6, <1>7
  DEF vars, Next, Scheduler, StartPeer, Worker, WorkerStep, SkipPeer, HandshakeOk,
      HandshakeFails, HandshakeHangs, StayChoked, Unchoked, ConnectionLost, TakeWork,
      GetPiece, GetBadPiece, GetPieceFails, VerifyPiece, Requeue, Reject, WriteSegment,
      MarkPiece, Exit, Crash, RequestPanics

LEMMA CountersStep == ASSUME TypeOK, [Next]_vars PROVE CountersOK'
<1> USE DEF TypeOK, CountersOK
<1>1. ASSUME NEW p \in Peer, StartPeer(p) PROVE nextPeer' \in 1 .. NumPeers + 1 /\ peersStarted' \in Int
  BY <1>1 DEF StartPeer, SkipPeer, HandshakeOk, HandshakeFails, HandshakeHangs, AtPeer, Peer
<1>2. ASSUME NEW p \in Peer, Exit(p) PROVE nextPeer' \in 1 .. NumPeers + 1 /\ peersStarted' \in Int
  BY <1>2 DEF Exit
<1>3. ASSUME MemoryLost PROVE nextPeer' \in 1 .. NumPeers + 1 /\ peersStarted' \in Int
  BY <1>3 DEF MemoryLost
<1>4. nextPeer' \in 1 .. NumPeers + 1 /\ peersStarted' \in Int
  BY <1>1, <1>2, <1>3
  DEF vars, Next, Scheduler, Worker, WorkerStep, SchedCheck, SchedTakeFailed,
      SchedNoFailed, SchedResend, SchedPick, SchedIdle, SchedSend, StayChoked, Unchoked,
      ConnectionLost, TakeWork, GetPiece, GetBadPiece, GetPieceFails, VerifyPiece,
      Requeue, Reject, WriteSegment, MarkPiece, Crash, RequestPanics
<1>5. ASSUME NEW kind, NEW p \in Peer, Fault(kind, p) PROVE faults' \in 0 .. MaxFaults
  BY <1>5 DEF Fault
<1>6. ASSUME Crash PROVE faults' \in 0 .. MaxFaults
  BY <1>6 DEF Crash
<1>7. ASSUME UNCHANGED faults PROVE faults' \in 0 .. MaxFaults
  BY <1>7
<1>8. faults' \in 0 .. MaxFaults
  BY <1>5, <1>6, <1>7
  DEF vars, Next, Scheduler, StartPeer, Worker, WorkerStep, SchedCheck, SchedTakeFailed,
      SchedNoFailed, SchedResend, SchedPick, SchedIdle, SchedSend, SkipPeer, HandshakeOk,
      HandshakeFails, HandshakeHangs, StayChoked, Unchoked, ConnectionLost, TakeWork,
      GetPiece, GetBadPiece, GetPieceFails, VerifyPiece, Requeue, Reject, WriteSegment,
      MarkPiece, Exit, RequestPanics
<1> QED
  BY <1>4, <1>8

LEMMA WorkersStep == ASSUME TypeOK, [Next]_vars PROVE WorkersOK'
<1> USE DEF TypeOK, WorkersOK, QueuesOK, PeerPcs, ActivePcs, HoldingPcs, Goto
<1>1. ASSUME NEW p \in Peer, StartPeer(p) PROVE WorkersOK'
  BY <1>1 DEF StartPeer, SkipPeer, HandshakeOk, HandshakeFails, HandshakeHangs
<1>2. ASSUME NEW p \in Peer, StayChoked(p) \/ Unchoked(p) PROVE WorkersOK'
  <2>1. PICK known \in SUBSET Offers[p] : has' = [has EXCEPT ![p] = known]
    BY <1>2 DEF StayChoked, Unchoked
  <2>2. Offers[p] \subseteq Piece
    BY SessionAssumption
  <2>3. has' \in [Peer -> SUBSET Piece]
    BY <2>1, <2>2
  <2> QED
    BY <1>2, <2>3 DEF StayChoked, Unchoked
<1>3. ASSUME NEW p \in Peer, TakeWork(p) PROVE WorkersOK'
  <2>1. (IF workChan = <<>> THEN 0 ELSE Head(workChan)) \in Piece
    BY DEF Piece
  <2> QED
    BY <1>3, <2>1 DEF TakeWork
<1>4. ASSUME NEW p \in Peer, ConnectionLost(p) \/ GetPiece(p) \/ GetBadPiece(p) \/ GetPieceFails(p)
      PROVE WorkersOK'
  BY <1>4 DEF ConnectionLost, GetPiece, GetBadPiece, GetPieceFails
<1>5. ASSUME NEW p \in Peer, VerifyPiece(p) \/ Exit(p) PROVE WorkersOK'
  BY <1>5 DEF VerifyPiece, Exit
<1>6. ASSUME NEW p \in Peer, WriteSegment(p) PROVE WorkersOK'
  <2>1. seg[p] + 1 \in Nat
    OBVIOUS
  <2> QED
    BY <1>6, <2>1 DEF WriteSegment
<1>7. ASSUME NEW p \in Peer, Requeue(p) \/ Reject(p) \/ MarkPiece(p) PROVE WorkersOK'
  <2>1. 0 \in Piece
    BY DEF Piece
  <2>2. Forget(p)
    BY <1>7 DEF Requeue, Reject, MarkPiece
  <2>3. piece' \in [Peer -> Piece]
    BY <2>1, <2>2 DEF Forget
  <2>4. data' \in [Peer -> {"none", "good", "bad"}]
    BY <2>2 DEF Forget
  <2>5. seg' \in [Peer -> Nat]
    BY <2>2 DEF Forget
  <2>6. pc' \in [Peer -> PeerPcs] /\ has' = has
    BY <1>7 DEF Requeue, Reject, MarkPiece
  <2> QED
    BY <2>3, <2>4, <2>5, <2>6
<1>8. CASE MemoryLost
  BY <1>8 DEF MemoryLost, Piece
<1>9. CASE UNCHANGED <<pc, has, locals>>
  BY <1>9
<1> QED
  BY <1>1, <1>2, <1>3, <1>4, <1>5, <1>6, <1>7, <1>8, <1>9
  DEF vars, Next, Scheduler, Worker, WorkerStep, SchedCheck, SchedTakeFailed,
      SchedNoFailed, SchedResend, SchedPick, SchedIdle, SchedSend, Crash, RequestPanics
-----------------------------------------------------------------------------
(* What is on disk only grows: every segment that is written is verified.   *)

LEMMA SegmentsInRange ==
  ASSUME NEW i \in Piece
  PROVE  SegmentsOf(i) \subseteq 1 .. MaxSegments
BY DEF SegmentsOf

LEMMA DiskGrows ==
  ASSUME IInv, [Next]_vars
  PROVE  \A i \in Piece : disk[i] \subseteq disk'[i]
<1>1. ASSUME NEW p \in Peer, WriteSegment(p), NEW i \in Piece PROVE disk[i] \subseteq disk'[i]
  <2>1. data[p] = "good"
    BY <1>1 DEF WriteSegment, IInv, WritersKnow, WriterKnows
  <2>2. disk' = [disk EXCEPT ![piece[p]] = disk[piece[p]] \cup {seg[p]}]
    BY <1>1, <2>1 DEF WriteSegment
  <2>3. disk \in [Piece -> SUBSET (1 .. MaxSegments)]
    BY DEF IInv, TypeOK, StoreOK, Disks
  <2> QED
    BY <2>2, <2>3
<1>2. ASSUME UNCHANGED disk PROVE \A i \in Piece : disk[i] \subseteq disk'[i]
  BY <1>2
<1> QED
  BY <1>1, <1>2
  DEF vars, Next, Scheduler, StartPeer, Worker, WorkerStep, SchedCheck, SchedTakeFailed,
      SchedNoFailed, SchedResend, SchedPick, SchedIdle, SchedSend, SkipPeer, HandshakeOk,
      HandshakeFails, HandshakeHangs, StayChoked, Unchoked, ConnectionLost, TakeWork,
      GetPiece, GetBadPiece, GetPieceFails, VerifyPiece, Requeue, Reject, MarkPiece,
      Exit, Crash, RequestPanics, initializeBitField

LEMMA StoreStep == ASSUME IInv, [Next]_vars PROVE StoreOK'
<1>1. disk \in [Piece -> SUBSET (1 .. MaxSegments)] /\ \A i \in Piece : disk[i] \subseteq SegmentsOf(i)
  BY DEF IInv, TypeOK, StoreOK, Disks
<1>2. ASSUME NEW p \in Peer, WriteSegment(p) PROVE disk' \in Disks
  <2>1. piece[p] \in Piece
    BY DEF IInv, TypeOK, WorkersOK
  <2>2. data[p] = "good" /\ seg[p] \in SegmentsOf(piece[p])
    BY <1>2 DEF WriteSegment, IInv, WritersKnow, WriterKnows
  <2>3. disk' = [disk EXCEPT ![piece[p]] = disk[piece[p]] \cup {seg[p]}]
    BY <1>2, <2>2 DEF WriteSegment
  <2>4. seg[p] \in 1 .. MaxSegments
    BY <2>1, <2>2, SegmentsInRange
  <2>5. disk' \in [Piece -> SUBSET (1 .. MaxSegments)]
    BY <1>1, <2>1, <2>3, <2>4
  <2>6. \A i \in Piece : disk'[i] \subseteq SegmentsOf(i)
    BY <1>1, <2>1, <2>2, <2>3
  <2> QED
    BY <2>5, <2>6 DEF Disks
<1>3. disk' \in Disks
  <2>1. CASE UNCHANGED disk
    BY <2>1 DEF IInv, TypeOK, StoreOK
  <2> QED
    BY <1>2, <2>1
    DEF vars, Next, Scheduler, StartPeer, Worker, WorkerStep, SchedCheck, SchedTakeFailed,
        SchedNoFailed, SchedResend, SchedPick, SchedIdle, SchedSend, SkipPeer, HandshakeOk,
        HandshakeFails, HandshakeHangs, StayChoked, Unchoked, ConnectionLost, TakeWork,
        GetPiece, GetBadPiece, GetPieceFails, VerifyPiece, Requeue, Reject, MarkPiece,
        Exit, Crash, RequestPanics, initializeBitField
<1>4. ASSUME NEW p \in Peer, MarkPiece(p) PROVE pieceBitField' \subseteq Piece
  BY <1>4 DEF MarkPiece, IInv, TypeOK, WorkersOK, StoreOK
<1>5. ASSUME initializeBitField PROVE pieceBitField' \subseteq Piece
  BY <1>5 DEF initializeBitField
<1>6. ASSUME UNCHANGED pieceBitField PROVE pieceBitField' \subseteq Piece
  BY <1>6 DEF IInv, TypeOK, StoreOK
<1>7. pieceBitField' \subseteq Piece
  BY <1>4, <1>5, <1>6
  DEF vars, Next, Scheduler, StartPeer, Worker, WorkerStep, SchedCheck, SchedTakeFailed,
      SchedNoFailed, SchedResend, SchedPick, SchedIdle, SchedSend, SkipPeer, HandshakeOk,
      HandshakeFails, HandshakeHangs, StayChoked, Unchoked, ConnectionLost, TakeWork,
      GetPiece, GetBadPiece, GetPieceFails, VerifyPiece, Requeue, Reject, WriteSegment,
      Exit, Crash, RequestPanics
<1>8. whole' = whole
  BY DEF vars, Next, Scheduler, StartPeer, Worker, WorkerStep, SchedCheck, SchedTakeFailed,
      SchedNoFailed, SchedResend, SchedPick, SchedIdle, SchedSend, SkipPeer, HandshakeOk,
      HandshakeFails, HandshakeHangs, StayChoked, Unchoked, ConnectionLost, TakeWork,
      GetPiece, GetBadPiece, GetPieceFails, VerifyPiece, Requeue, Reject, WriteSegment,
      MarkPiece, Exit, Crash, RequestPanics, initializeBitField
<1> QED
  BY <1>3, <1>7, <1>8 DEF StoreOK, IInv, TypeOK

LEMMA VerifiedGrows ==
  ASSUME IInv, [Next]_vars
  PROVE  Verified(disk) \subseteq Verified(disk')
<1> SUFFICES ASSUME NEW i \in Piece, disk[i] = SegmentsOf(i) PROVE disk'[i] = SegmentsOf(i)
  BY DEF Verified
<1>1. disk[i] \subseteq disk'[i]
  BY DiskGrows
<1>2. disk'[i] \subseteq SegmentsOf(i)
  BY StoreStep DEF StoreOK, Disks
<1> QED
  BY <1>1, <1>2

-----------------------------------------------------------------------------
(* Workers.                                                                 *)

\* A worker that does not move keeps what it knows, whatever the others write.
LEMMA Bystander ==
  ASSUME IInv, [Next]_vars, NEW q \in Peer,
         pc'[q] = pc[q], piece'[q] = piece[q], data'[q] = data[q], seg'[q] = seg[q]
  PROVE  WriterKnows(q)'
<1>1. piece[q] \in Piece
  BY DEF IInv, TypeOK, WorkersOK
<1>2. WriterKnows(q)
  BY DEF IInv, WritersKnow
<1>3. disk[piece[q]] \subseteq disk'[piece[q]]
  BY <1>1, DiskGrows
<1>4. disk'[piece[q]] \subseteq SegmentsOf(piece[q])
  BY <1>1, StoreStep DEF StoreOK, Disks
<1>5. ASSUME pc[q] = "write"
      PROVE  seg'[q] \in SegmentsOf(piece'[q]) /\ 1 .. seg'[q] - 1 \subseteq disk'[piece'[q]]
  BY <1>2, <1>3, <1>5 DEF WriterKnows
<1>6. ASSUME pc[q] = "mark" PROVE disk'[piece'[q]] = SegmentsOf(piece'[q])
  <2>1. SegmentsOf(piece[q]) \subseteq disk'[piece[q]]
    BY <1>2, <1>3, <1>6 DEF WriterKnows
  <2>2. disk'[piece[q]] = SegmentsOf(piece[q])
    BY <1>4, <2>1
  <2> QED
    BY <2>2
<1>7. /\ pc'[q] \in {"write", "mark"} => data'[q] = "good"
      /\ pc'[q] \notin {"write", "mark"} => seg'[q] = 1
  BY <1>2 DEF WriterKnows
<1> QED
  BY <1>5, <1>6, <1>7 DEF WriterKnows, SegmentsOf

LEMMA WritersStep == ASSUME IInv, [Next]_vars PROVE WritersKnow'
<1> USE DEF IInv, TypeOK, WorkersOK
<1>1. ASSUME NEW p \in Peer, WriteSegment(p) PROVE WritersKnow'
  <2>1. /\ piece[p] \in Piece
        /\ data[p] = "good"
        /\ seg[p] \in SegmentsOf(piece[p])
        /\ 1 .. seg[p] - 1 \subseteq disk[piece[p]]
    BY <1>1 DEF WriteSegment, WritersKnow, WriterKnows
  <2>2. /\ pc'[p] = IF seg[p] = Segments[piece[p]] THEN "mark" ELSE "write"
        /\ seg'[p] = seg[p] + 1
        /\ data'[p] = "good"
        /\ piece'[p] = piece[p]
    BY <1>1, <2>1 DEF WriteSegment, Goto
  <2>3. disk \in [Piece -> SUBSET (1 .. MaxSegments)]
    BY DEF StoreOK, Disks
  <2>4. disk'[piece[p]] = disk[piece[p]] \cup {seg[p]}
    BY <1>1, <2>1, <2>3 DEF WriteSegment
  <2>5. Segments[piece[p]] \in Nat /\ seg[p] \in Nat /\ 1 <= seg[p] /\ seg[p] <= Segments[piece[p]]
    BY <2>1 DEF SegmentsOf
  <2>6. 1 .. seg[p] \subseteq disk'[piece[p]]
    BY <2>1, <2>4, <2>5
  <2>7. ASSUME seg[p] = Segments[piece[p]] PROVE WriterKnows(p)'
    <3>1. SegmentsOf(piece[p]) \subseteq disk'[piece[p]]
      BY <2>6, <2>7 DEF SegmentsOf
    <3>2. disk'[piece[p]] \subseteq SegmentsOf(piece[p])
      BY <2>1, StoreStep DEF StoreOK, Disks
    <3>3. disk'[piece[p]] = SegmentsOf(piece[p])
      BY <3>1, <3>2
    <3> QED
      BY <2>2, <2>7, <3>3 DEF WriterKnows, SegmentsOf
  <2>8. ASSUME seg[p] # Segments[piece[p]] PROVE WriterKnows(p)'
    <3>1. seg[p] + 1 \in SegmentsOf(piece[p])
      BY <2>5, <2>8 DEF SegmentsOf
    <3>2. 1 .. (seg[p] + 1) - 1 \subseteq disk'[piece[p]]
      BY <2>5, <2>6
    <3>3. seg'[p] \in SegmentsOf(piece'[p]) /\ 1 .. seg'[p] - 1 \subseteq disk'[piece'[p]]
      BY <2>2, <3>1, <3>2
    <3> QED
      BY <2>2, <2>8, <3>3 DEF WriterKnows, SegmentsOf
  <2>9. ASSUME NEW q \in Peer, q # p PROVE WriterKnows(q)'
    BY <1>1, <2>9, Bystander DEF WriteSegment, Goto
  <2> QED
    BY <2>7, <2>8, <2>9 DEF WritersKnow
<1>2. ASSUME NEW p \in Peer, VerifyPiece(p) PROVE WritersKnow'
  <2>1. /\ piece[p] \in Piece
        /\ seg[p] = 1
    BY <1>2 DEF VerifyPiece, WritersKnow, WriterKnows
  <2>2. 1 \in SegmentsOf(piece[p]) /\ 1 .. 1 - 1 = {}
    BY <2>1 DEF SegmentsOf
  <2>3. /\ pc'[p] = IF data[p] = "good" THEN "write" ELSE "requeue"
        /\ piece'[p] = piece[p] /\ data'[p] = data[p] /\ seg'[p] = 1
    BY <1>2, <2>1 DEF VerifyPiece, Goto
  <2>4. WriterKnows(p)'
    BY <2>2, <2>3 DEF WriterKnows, SegmentsOf
  <2>5. ASSUME NEW q \in Peer, q # p PROVE WriterKnows(q)'
    BY <1>2, <2>5, Bystander DEF VerifyPiece, Goto
  <2> QED
    BY <2>4, <2>5 DEF WritersKnow
<1>3. ASSUME NEW p \in Peer, Requeue(p) \/ Reject(p) \/ MarkPiece(p) PROVE WritersKnow'
  <2>1. pc'[p] \in {"loop", "exit"} /\ seg'[p] = 1
    BY <1>3 DEF Requeue, Reject, MarkPiece, Goto, Forget
  <2>2. WriterKnows(p)'
    BY <2>1 DEF WriterKnows
  <2>3. ASSUME NEW q \in Peer, q # p PROVE WriterKnows(q)'
    BY <1>3, <2>3, Bystander DEF Requeue, Reject, MarkPiece, Goto, Forget
  <2> QED
    BY <2>2, <2>3 DEF WritersKnow
<1>4. ASSUME NEW p \in Peer,
             \/ StartPeer(p) \/ Unchoked(p) \/ ConnectionLost(p) \/ Exit(p)
             \/ TakeWork(p) \/ GetPiece(p) \/ GetBadPiece(p) \/ GetPieceFails(p)
      PROVE  WritersKnow'
  <2>1. pc[p] \notin {"write", "mark"} /\ pc'[p] \notin {"write", "mark"} /\ seg'[p] = seg[p]
    BY <1>4 DEF StartPeer, SkipPeer, HandshakeOk, HandshakeFails, HandshakeHangs, AtPeer,
        Unchoked, ConnectionLost, Exit, TakeWork, GetPiece, GetBadPiece, GetPieceFails, Goto
  <2>2. WriterKnows(p)'
    BY <2>1 DEF WritersKnow, WriterKnows
  <2>3. ASSUME NEW q \in Peer, q # p
        PROVE  pc'[q] = pc[q] /\ piece'[q] = piece[q] /\ data'[q] = data[q] /\ seg'[q] = seg[q]
    BY <1>4, <2>3 DEF StartPeer, SkipPeer, HandshakeOk, HandshakeFails, HandshakeHangs,
        Unchoked, ConnectionLost, Exit, TakeWork, GetPiece, GetBadPiece, GetPieceFails, Goto
  <2>4. ASSUME NEW q \in Peer, q # p PROVE WriterKnows(q)'
    BY <2>3, <2>4, Bystander
  <2> QED
    BY <2>2, <2>4 DEF WritersKnow
<1>5. CASE MemoryLost
  BY <1>5 DEF MemoryLost, WritersKnow, WriterKnows
<1>6. CASE UNCHANGED <<pc, locals>>
  BY <1>6, Bystander DEF WritersKnow
<1> QED
  BY <1>1, <1>2, <1>3, <1>4, <1>5, <1>6
  DEF vars, Next, Scheduler, Worker, WorkerStep, SchedCheck, SchedTakeFailed,
      SchedNoFailed, SchedResend, SchedPick, SchedIdle, SchedSend, StayChoked, Crash,
      RequestPanics

-----------------------------------------------------------------------------
(* The bitfield.                                                            *)

LEMMA BitfieldStep == ASSUME IInv, [Next]_vars PROVE BitfieldSound'
<1>1. Verified(disk) \subseteq Verified(disk') /\ Verified(disk') \subseteq Piece
  BY VerifiedGrows DEF Verified
<1>2. Verified(disk)' = Verified(disk')
  BY DEF Verified, SegmentsOf
<1>3. pieceBitField' \subseteq Verified(disk')
  <2>1. ASSUME NEW p \in Peer, MarkPiece(p) PROVE pieceBitField' \subseteq Verified(disk')
    <3>1. piece[p] \in Verified(disk)
      BY <2>1 DEF MarkPiece, IInv, TypeOK, WorkersOK, WritersKnow, WriterKnows, Verified
    <3> QED
      BY <1>1, <2>1, <3>1 DEF MarkPiece, IInv, BitfieldSound
  <2>2. ASSUME initializeBitField PROVE pieceBitField' \subseteq Verified(disk')
    <3>1. pieceBitField' \subseteq Verified(disk) /\ disk' = disk
      BY <2>2 DEF initializeBitField, Hashed
    <3> QED
      BY <3>1
  <2>3. ASSUME UNCHANGED pieceBitField PROVE pieceBitField' \subseteq Verified(disk')
    BY <1>1, <2>3 DEF IInv, BitfieldSound
  <2> QED
    BY <2>1, <2>2, <2>3
    DEF vars, Next, Scheduler, StartPeer, Worker, WorkerStep, SchedCheck, SchedTakeFailed,
        SchedNoFailed, SchedResend, SchedPick, SchedIdle, SchedSend, SkipPeer, HandshakeOk,
        HandshakeFails, HandshakeHangs, StayChoked, Unchoked, ConnectionLost, TakeWork,
        GetPiece, GetBadPiece, GetPieceFails, VerifyPiece, Requeue, Reject, WriteSegment,
        Exit, Crash, RequestPanics
<1>4. ASSUME schedPc' = "done" PROVE Verified(disk') = Piece
  <2>1. CASE SchedCheck
    BY <1>1, <1>4, <2>1 DEF SchedCheck, gotAllPieces, IInv, BitfieldSound
  <2>2. CASE schedPc = "done"
    BY <1>1, <2>2 DEF IInv, BitfieldSound
  <2> QED
    BY <1>4, <2>1, <2>2
    DEF vars, Next, Scheduler, StartPeer, Worker, WorkerStep, SchedTakeFailed,
        SchedNoFailed, SchedResend, SchedPick, SchedIdle, SchedSend, SkipPeer, HandshakeOk,
        HandshakeFails, HandshakeHangs, StayChoked, Unchoked, ConnectionLost, TakeWork,
        GetPiece, GetBadPiece, GetPieceFails, VerifyPiece, Requeue, Reject, WriteSegment,
        MarkPiece, Exit, Crash, RequestPanics, initializeBitField
<1> QED
  BY <1>2, <1>3, <1>4 DEF BitfieldSound

-----------------------------------------------------------------------------
(* The theorems.                                                            *)

LEMMA InitIInv == Init => IInv
<1> SUFFICES ASSUME Init PROVE IInv
  OBVIOUS
<1> USE DEF Init
<1>1. 0 \in Piece
  BY DEF Piece
<1>2. QueuesOK /\ SchedulerOK /\ CountersOK
  BY <1>1 DEF QueuesOK, SchedulerOK, CountersOK, SchedPcs
<1>3. WorkersOK
  BY <1>1 DEF WorkersOK, PeerPcs
<1>4. StoreOK /\ BitfieldSound
  BY DEF StoreOK, Hashed, Verified, BitfieldSound
<1>5. WritersKnow
  BY DEF WritersKnow, WriterKnows
<1> QED
  BY <1>2, <1>3, <1>4, <1>5 DEF IInv, TypeOK

LEMMA StepIInv == IInv /\ [Next]_vars => IInv'
<1> SUFFICES ASSUME IInv, [Next]_vars PROVE IInv'
  OBVIOUS
<1>1. TypeOK
  BY DEF IInv
<1> QED
  BY <1>1, QueuesStep, SchedulerTypeStep, CountersStep, WorkersStep, StoreStep,
     WritersStep, BitfieldStep DEF IInv, TypeOK

LEMMA IInvHolds == Spec => []IInv
  BY InitIInv, StepIInv, PTL DEF Spec

\* Every reachable state of a session is well typed: in particular no channel
\* ever holds more than its capacity and no index is out of range.
THEOREM TypeCorrect == Spec => []TypeOK
<1>1. IInv => TypeOK
  BY DEF IInv
<1> QED
  BY <1>1, IInvHolds, PTL

\* A set bit of pieceBitField means that every file segment of the piece has
\* been written with verified bytes, and the scheduler finishes only when the
\* whole torrent is on disk (handlePeerConnection 432-436, scheduleWork 333).
THEOREM BitfieldIsSound == Spec => []BitfieldSound
<1>1. IInv => BitfieldSound
  BY DEF IInv
<1> QED
  BY <1>1, IInvHolds, PTL

\* No step, be it the overwriting of an announced piece or a restart, takes
\* good bytes off the disk.
THEOREM DiskIsNeverSpoiled == Spec => NeverSpoiled
<1>1. IInv /\ [Next]_vars => [\A i \in Piece : disk[i] \subseteq disk'[i]]_vars
  BY DiskGrows
<1> QED
  BY <1>1, IInvHolds, PTL DEF Spec, NeverSpoiled

\* Once the files have their full length bits are never cleared, not even by a
\* restart, which hashes the files again (129-164).
THEOREM BitfieldIsDurable == Spec => Durable
<1>1. IInv /\ [Next]_vars => [FilesWhole => pieceBitField \subseteq pieceBitField']_vars
  <2> SUFFICES ASSUME IInv, Next, FilesWhole PROVE pieceBitField \subseteq pieceBitField'
    OBVIOUS
  <2>1. ASSUME initializeBitField PROVE pieceBitField \subseteq pieceBitField'
    BY <2>1 DEF initializeBitField, Hashed, IInv, BitfieldSound
  <2>2. ASSUME NEW p \in Peer, MarkPiece(p) PROVE pieceBitField \subseteq pieceBitField'
    BY <2>2 DEF MarkPiece
  <2>3. ASSUME UNCHANGED pieceBitField PROVE pieceBitField \subseteq pieceBitField'
    BY <2>3
  <2> QED
    BY <2>1, <2>2, <2>3
    DEF vars, Next, Scheduler, StartPeer, Worker, WorkerStep, SchedCheck, SchedTakeFailed,
        SchedNoFailed, SchedResend, SchedPick, SchedIdle, SchedSend, SkipPeer, HandshakeOk,
        HandshakeFails, HandshakeHangs, StayChoked, Unchoked, ConnectionLost, TakeWork,
        GetPiece, GetBadPiece, GetPieceFails, VerifyPiece, Requeue, Reject, WriteSegment,
        Exit, Crash, RequestPanics
<1> QED
  BY <1>1, IInvHolds, PTL DEF Spec, Durable

-----------------------------------------------------------------------------
(***************************************************************************)
(* The work: no piece that was handed out is lost, none is fetched twice,   *)
(* the slots are counted right, and the session implements PieceStore.      *)
(***************************************************************************)

(* Sequences.                                                               *)

Occurs(i, s) == \E k \in 1 .. Len(s) : s[k] = i

LEMMA OccursAppend ==
  ASSUME NEW S, NEW s \in Seq(S), NEW e \in S, NEW i
  PROVE  Occurs(i, Append(s, e)) <=> Occurs(i, s) \/ i = e
<1>1. /\ Len(Append(s, e)) = Len(s) + 1
      /\ Append(s, e)[Len(s) + 1] = e
      /\ \A k \in 1 .. Len(s) : Append(s, e)[k] = s[k]
      /\ Len(s) \in Nat
  OBVIOUS
<1>2. ASSUME Occurs(i, s) PROVE Occurs(i, Append(s, e))
  BY <1>1, <1>2 DEF Occurs
<1>3. ASSUME i = e PROVE Occurs(i, Append(s, e))
  <2>1. Len(s) + 1 \in 1 .. Len(Append(s, e))
    BY <1>1
  <2> QED
    BY <1>1, <1>3, <2>1 DEF Occurs
<1>4. ASSUME Occurs(i, Append(s, e)), i # e PROVE Occurs(i, s)
  <2>1. PICK k \in 1 .. Len(Append(s, e)) : Append(s, e)[k] = i
    BY <1>4 DEF Occurs
  <2>2. k \in 1 .. Len(s)
    BY <1>1, <1>4, <2>1
  <2> QED
    BY <1>1, <2>1, <2>2 DEF Occurs
<1> QED
  BY <1>2, <1>3, <1>4

LEMMA OccursTail ==
  ASSUME NEW S, NEW s \in Seq(S), s # <<>>, NEW i, Occurs(i, s), i # Head(s)
  PROVE  Occurs(i, Tail(s))
<1>1. /\ Len(s) \in Nat \ {0}
      /\ Head(s) = s[1]
      /\ Len(Tail(s)) = Len(s) - 1
      /\ \A k \in 1 .. Len(s) - 1 : Tail(s)[k] = s[k + 1]
  OBVIOUS
<1>2. PICK k \in 1 .. Len(s) : s[k] = i
  BY DEF Occurs
<1>3. k # 1
  BY <1>1, <1>2
<1>4. k - 1 \in 1 .. Len(s) - 1 /\ (k - 1) + 1 = k
  BY <1>1, <1>2, <1>3
<1>5. Tail(s)[k - 1] = i
  BY <1>1, <1>2, <1>4
<1> QED
  BY <1>1, <1>4, <1>5 DEF Occurs

-----------------------------------------------------------------------------
(* No piece is lost.                                                        *)

Carries(p, i) == pc[p] \in HoldingPcs /\ piece[p] = i
About(i)      == schedPc \in {"resend", "send"} /\ schedPiece = i

Somewhere(i) ==
    \/ Occurs(i, workChan)
    \/ Occurs(i, failedWorkChan)
    \/ \E p \in Peer : Carries(p, i)
    \/ About(i)

LEMMA CopiesSomewhere == \A i : Copies(i) # {} <=> Somewhere(i)
<1> SUFFICES ASSUME NEW i PROVE Copies(i) # {} <=> Somewhere(i)
  OBVIOUS
<1>1. ASSUME Copies(i) # {} PROVE Somewhere(i)
  BY <1>1 DEF Copies, Somewhere, Occurs, Carries, About
<1>2. ASSUME Occurs(i, workChan) PROVE Copies(i) # {}
  <2>1. PICK k \in 1 .. Len(workChan) : workChan[k] = i
    BY <1>2 DEF Occurs
  <2>2. <<"work", k>> \in Copies(i)
    BY <2>1 DEF Copies
  <2> QED
    BY <2>2
<1>3. ASSUME Occurs(i, failedWorkChan) PROVE Copies(i) # {}
  <2>1. PICK k \in 1 .. Len(failedWorkChan) : failedWorkChan[k] = i
    BY <1>3 DEF Occurs
  <2>2. <<"failed", k>> \in Copies(i)
    BY <2>1 DEF Copies
  <2> QED
    BY <2>2
<1>4. ASSUME NEW p \in Peer, Carries(p, i) PROVE Copies(i) # {}
  <2>1. <<"worker", p>> \in Copies(i)
    BY <1>4 DEF Copies, Carries
  <2> QED
    BY <2>1
<1>5. ASSUME About(i) PROVE Copies(i) # {}
  <2>1. <<"scheduler", 0>> \in Copies(i)
    BY <1>5 DEF Copies, About
  <2> QED
    BY <2>1
<1> QED
  BY <1>1, <1>2, <1>3, <1>4, <1>5 DEF Somewhere

\* An index that is somewhere stays somewhere until its bit is set or the
\* process ends.
LEMMA StaysSomewhere ==
  ASSUME TypeOK, Next, ~MemoryLost, NEW i \in Piece, Somewhere(i), i \notin pieceBitField'
  PROVE  Somewhere(i)'
<1> USE DEF TypeOK, QueuesOK, SchedulerOK, WorkersOK
<1>1. CASE SchedTakeFailed
  <2>1. CASE i = Head(failedWorkChan)
    BY <1>1, <2>1 DEF SchedTakeFailed, Somewhere, About
  <2>2. CASE Occurs(i, failedWorkChan) /\ i # Head(failedWorkChan)
    <3>1. Occurs(i, failedWorkChan')
      BY <1>1, <2>2, OccursTail DEF SchedTakeFailed
    <3> QED
      BY <3>1 DEF Somewhere, Occurs
  <2>3. CASE Occurs(i, workChan) \/ \E p \in Peer : Carries(p, i)
    BY <1>1, <2>3 DEF SchedTakeFailed, Somewhere, Carries, Occurs
  <2>4. ~About(i)
    BY <1>1 DEF SchedTakeFailed, About
  <2> QED
    BY <2>1, <2>2, <2>3, <2>4 DEF Somewhere
<1>2. CASE SchedResend \/ SchedSend
  <2>1. workChan' = Append(workChan, schedPiece) /\ UNCHANGED <<failedWorkChan, pc, piece>>
    BY <1>2 DEF SchedResend, SchedSend
  <2>2. Occurs(i, workChan') <=> Occurs(i, workChan) \/ i = schedPiece
    BY <2>1, OccursAppend
  <2>3. About(i) => i = schedPiece
    BY DEF About
  <2> QED
    BY <2>1, <2>2, <2>3 DEF Somewhere, Carries, Occurs
<1>3. CASE SchedCheck \/ SchedNoFailed \/ SchedPick \/ SchedIdle
  <2>1. ~About(i)
    BY <1>3 DEF SchedCheck, SchedNoFailed, SchedPick, SchedIdle, About
  <2> QED
    BY <1>3, <2>1 DEF SchedCheck, SchedNoFailed, SchedPick, SchedIdle, Somewhere, Carries, Occurs
<1>4. ASSUME NEW p \in Peer, TakeWork(p) PROVE Somewhere(i)'
  <2>1. pc[p] \notin HoldingPcs
    BY <1>4 DEF TakeWork, HoldingPcs
  <2>2. ASSUME NEW q \in Peer, Carries(q, i) PROVE Carries(q, i)'
    BY <1>4, <2>1, <2>2 DEF TakeWork, Carries, Goto
  <2>3. ASSUME Occurs(i, failedWorkChan) \/ About(i) PROVE Somewhere(i)'
    BY <1>4, <2>3 DEF TakeWork, Somewhere, Occurs, About
  <2>4. ASSUME Occurs(i, workChan) PROVE Somewhere(i)'
    <3>1. workChan # <<>>
      BY <2>4 DEF Occurs
    <3>2. ASSUME i = Head(workChan) PROVE Carries(p, i)'
      BY <1>4, <3>1, <3>2 DEF TakeWork, Carries, Goto, HoldingPcs
    <3>3. ASSUME i # Head(workChan) PROVE Occurs(i, workChan')
      BY <1>4, <2>4, <3>1, <3>3, OccursTail DEF TakeWork
    <3> QED
      BY <3>2, <3>3 DEF Somewhere, Occurs
  <2> QED
    BY <2>2, <2>3, <2>4 DEF Somewhere
<1>5. ASSUME NEW p \in Peer, Requeue(p) \/ Reject(p) PROVE Somewhere(i)'
  <2>1. failedWorkChan' = Append(failedWorkChan, piece[p]) /\ UNCHANGED <<workChan, scheduler>>
    BY <1>5 DEF Requeue, Reject
  <2>2. piece[p] \in Piece
    OBVIOUS
  <2>3. Occurs(i, failedWorkChan') <=> Occurs(i, failedWorkChan) \/ i = piece[p]
    BY <2>1, <2>2, OccursAppend
  <2>4. ASSUME NEW q \in Peer, Carries(q, i), q # p PROVE Carries(q, i)'
    BY <1>5, <2>4 DEF Requeue, Reject, Carries, Goto, Forget
  <2>5. Carries(p, i) => i = piece[p]
    BY DEF Carries
  <2> QED
    BY <2>1, <2>3, <2>4, <2>5 DEF Somewhere, Occurs, About
<1>6. ASSUME NEW p \in Peer, MarkPiece(p) PROVE Somewhere(i)'
  <2>1. ~Carries(p, i)
    BY <1>6 DEF MarkPiece, Carries
  <2>2. ASSUME NEW q \in Peer, Carries(q, i), q # p PROVE Carries(q, i)'
    BY <1>6, <2>2 DEF MarkPiece, Carries, Goto, Forget
  <2> QED
    BY <1>6, <2>1, <2>2 DEF MarkPiece, Somewhere, Occurs, About
<1>7. ASSUME NEW p \in Peer,
             \/ StartPeer(p) \/ StayChoked(p) \/ Unchoked(p) \/ ConnectionLost(p) \/ Exit(p)
             \/ GetPiece(p) \/ GetBadPiece(p) \/ GetPieceFails(p) \/ VerifyPiece(p)
             \/ WriteSegment(p)
      PROVE  Somewhere(i)'
  <2>1. UNCHANGED <<channels, scheduler, piece>>
    BY <1>7 DEF StartPeer, SkipPeer, HandshakeOk, HandshakeFails, HandshakeHangs, StayChoked,
        Unchoked, ConnectionLost, Exit, GetPiece, GetBadPiece, GetPieceFails, VerifyPiece,
        WriteSegment
  <2>2. ASSUME NEW q \in Peer, Carries(q, i) PROVE Carries(q, i)'
    BY <1>7, <2>1, <2>2 DEF StartPeer, SkipPeer, HandshakeOk, HandshakeFails, HandshakeHangs,
        AtPeer, StayChoked, Unchoked, ConnectionLost, Exit, GetPiece, GetBadPiece,
        GetPieceFails, VerifyPiece, WriteSegment, Goto, Carries, HoldingPcs
  <2> QED
    BY <2>1, <2>2 DEF Somewhere, Occurs, About
<1> QED
  BY <1>1, <1>2, <1>3, <1>4, <1>5, <1>6, <1>7
  DEF Next, Scheduler, Worker, WorkerStep, Crash, RequestPanics

\* NoLostPiece, in terms of Somewhere
NoneLost == \A i \in piecesScheduled \ pieceBitField : Somewhere(i)

LEMMA NoLostStep == ASSUME IInv, NoneLost, [Next]_vars PROVE NoneLost'
<1> SUFFICES ASSUME NEW i \in (piecesScheduled \ pieceBitField)' PROVE Somewhere(i)'
  BY DEF NoneLost
<1>1. i \in Piece /\ TypeOK /\ TypeOK'
  BY StepIInv DEF IInv, TypeOK, SchedulerOK
<1>2. CASE UNCHANGED vars
  BY <1>2 DEF vars, NoneLost, Somewhere, Occurs, Carries, About
<1>3. CASE MemoryLost
  BY <1>3 DEF MemoryLost
<1>4. CASE Next /\ i \notin piecesScheduled /\ ~MemoryLost
  <2>1. SchedPick
    BY <1>4 DEF Next, Scheduler, StartPeer, Worker, WorkerStep, SchedCheck, SchedTakeFailed,
        SchedNoFailed, SchedResend, SchedIdle, SchedSend, SkipPeer, HandshakeOk,
        HandshakeFails, HandshakeHangs, StayChoked, Unchoked, ConnectionLost, TakeWork,
        GetPiece, GetBadPiece, GetPieceFails, VerifyPiece, Requeue, Reject, WriteSegment,
        MarkPiece, Exit, Crash, RequestPanics
  <2>2. schedPiece' = i /\ schedPc' = "send"
    BY <1>4, <2>1 DEF SchedPick
  <2> QED
    BY <2>2 DEF Somewhere, About
<1>5. CASE Next /\ i \in piecesScheduled /\ ~MemoryLost
  <2>1. pieceBitField \subseteq pieceBitField'
    BY <1>5 DEF Next, Scheduler, StartPeer, Worker, WorkerStep, SchedCheck, SchedTakeFailed,
        SchedNoFailed, SchedResend, SchedPick, SchedIdle, SchedSend, SkipPeer, HandshakeOk,
        HandshakeFails, HandshakeHangs, StayChoked, Unchoked, ConnectionLost, TakeWork,
        GetPiece, GetBadPiece, GetPieceFails, VerifyPiece, Requeue, Reject, WriteSegment,
        MarkPiece, Exit, Crash, RequestPanics
  <2>2. Somewhere(i)
    BY <1>5, <2>1 DEF NoneLost
  <2> QED
    BY <1>1, <1>5, <2>2, StaysSomewhere
<1> QED
  BY <1>2, <1>3, <1>4, <1>5

\* scheduleWork hands every index out once and forgets it; what it handed out
\* and is not had yet is in a channel or in the hands of the scheduler or of a
\* worker, in every reachable state (338-340, 415-418, 426-430, 436-439).
THEOREM NoPieceIsLost == Spec => []NoLostPiece
<1>1. Init => NoneLost
  BY DEF Init, NoneLost
<1>2. IInv /\ NoneLost /\ [Next]_vars => NoneLost'
  BY NoLostStep
<1>3. NoneLost => NoLostPiece
  BY CopiesSomewhere DEF NoneLost, NoLostPiece
<1> QED
  BY <1>1, <1>2, <1>3, IInvHolds, PTL DEF Spec

-----------------------------------------------------------------------------
(* No piece is fetched twice.                                               *)

Once(i, s) == \A j, k \in 1 .. Len(s) : s[j] = i /\ s[k] = i => j = k

LEMMA OnceAppend ==
  ASSUME NEW S, NEW s \in Seq(S), NEW e \in S, NEW i, Once(i, s), Occurs(i, s) => i # e
  PROVE  Once(i, Append(s, e))
<1> DEFINE t == Append(s, e)
<1>1. /\ Len(s) \in Nat /\ Len(t) = Len(s) + 1 /\ t[Len(s) + 1] = e
      /\ \A k \in 1 .. Len(s) : t[k] = s[k]
  OBVIOUS
<1> HIDE DEF t
<1> SUFFICES ASSUME NEW j \in 1 .. Len(t), NEW k \in 1 .. Len(t), t[j] = i, t[k] = i
             PROVE  j = k
  BY DEF Once, t
<1>2. \A n \in 1 .. Len(t) : n \in 1 .. Len(s) \/ n = Len(s) + 1
  BY <1>1
<1>3. CASE j \in 1 .. Len(s) /\ k \in 1 .. Len(s)
  BY <1>1, <1>3 DEF Once
<1>4. CASE j = Len(s) + 1 /\ k \in 1 .. Len(s)
  BY <1>1, <1>4 DEF Occurs
<1>5. CASE j \in 1 .. Len(s) /\ k = Len(s) + 1
  BY <1>1, <1>5 DEF Occurs
<1> QED
  BY <1>2, <1>3, <1>4, <1>5

LEMMA OnceTail ==
  ASSUME NEW S, NEW s \in Seq(S), s # <<>>, NEW i, Once(i, s)
  PROVE  /\ Once(i, Tail(s))
         /\ Occurs(i, Tail(s)) => Occurs(i, s) /\ i # Head(s)
         /\ Occurs(Head(s), s)
<1> DEFINE t == Tail(s)
<1>1. /\ Len(s) \in Nat \ {0} /\ Head(s) = s[1] /\ Len(t) = Len(s) - 1
      /\ \A k \in 1 .. Len(s) - 1 : t[k] = s[k + 1]
  OBVIOUS
<1> HIDE DEF t
<1>2. \A k \in 1 .. Len(t) : k \in Int /\ k + 1 \in 1 .. Len(s) /\ k + 1 # 1 /\ t[k] = s[k + 1]
  BY <1>1
<1>3. 1 \in 1 .. Len(s)
  BY <1>1
<1>4. Once(i, t)
  <2> SUFFICES ASSUME NEW j \in 1 .. Len(t), NEW k \in 1 .. Len(t), t[j] = i, t[k] = i
               PROVE  j = k
    BY DEF Once
  <2>1. j + 1 = k + 1
    BY <1>2 DEF Once
  <2> QED
    BY <1>2, <2>1
<1>5. Occurs(i, t) => Occurs(i, s) /\ i # Head(s)
  BY <1>1, <1>2, <1>3 DEF Occurs, Once
<1>6. Occurs(Head(s), s)
  BY <1>1, <1>3 DEF Occurs
<1> QED
  BY <1>4, <1>5, <1>6 DEF t

Carried(i) == \E p \in Peer : Carries(p, i)

\* Index i is in at most one place, and there only while it is due.
AtMostOnce(i) ==
    /\ Once(i, workChan) /\ Once(i, failedWorkChan)
    /\ \A p, q \in Peer : Carries(p, i) /\ Carries(q, i) => p = q
    /\ Occurs(i, workChan) => ~Occurs(i, failedWorkChan) /\ ~Carried(i) /\ ~About(i)
    /\ Occurs(i, failedWorkChan) => ~Carried(i) /\ ~About(i)
    /\ Carried(i) => ~About(i)
    /\ Somewhere(i) => i \in piecesScheduled \ pieceBitField

NoneTwice == \A i \in Piece \ {0} : AtMostOnce(i)

\* An index moves from one place to another: it is never copied, since it
\* leaves the place it is taken from in the step that puts it elsewhere.
LEMMA StaysOnce ==
  ASSUME TypeOK, Next, ~MemoryLost, NEW i \in Piece \ {0}, AtMostOnce(i)
  PROVE  AtMostOnce(i)'
<1> USE DEF TypeOK, QueuesOK, SchedulerOK, WorkersOK
<1>1. CASE SchedTakeFailed
  <2>1. /\ failedWorkChan # <<>> /\ failedWorkChan' = Tail(failedWorkChan)
        /\ schedPiece' = Head(failedWorkChan) /\ schedPc = "select" /\ schedPc' = "resend"
        /\ UNCHANGED <<workChan, pc, piece, piecesScheduled, pieceBitField>>
    BY <1>1 DEF SchedTakeFailed
  <2>2. /\ Once(i, failedWorkChan')
        /\ Occurs(i, failedWorkChan') => Occurs(i, failedWorkChan) /\ i # Head(failedWorkChan)
        /\ Occurs(Head(failedWorkChan), failedWorkChan)
    BY <2>1, OnceTail DEF AtMostOnce
  <2>3. About(i)' <=> i = Head(failedWorkChan)
    BY <2>1 DEF About
  <2>4. /\ \A p \in Peer : Carries(p, i)' <=> Carries(p, i)
        /\ Carried(i)' <=> Carried(i)
    BY <2>1 DEF Carries, Carried
  <2> QED
    BY <2>1, <2>2, <2>3, <2>4 DEF AtMostOnce, Somewhere, Carried
<1>2. CASE SchedResend \/ SchedSend
  <2>1. /\ workChan' = Append(workChan, schedPiece)
        /\ schedPc \in {"resend", "send"} /\ schedPc' \notin {"resend", "send"}
        /\ UNCHANGED <<failedWorkChan, pc, piece, piecesScheduled, pieceBitField>>
    BY <1>2 DEF SchedResend, SchedSend
  <2>2. (About(i) <=> i = schedPiece) /\ ~About(i)'
    BY <2>1 DEF About
  <2>3. Once(i, workChan') /\ (Occurs(i, workChan') <=> Occurs(i, workChan) \/ i = schedPiece)
    BY <2>1, <2>2, OnceAppend, OccursAppend DEF AtMostOnce
  <2>4. /\ \A p \in Peer : Carries(p, i)' <=> Carries(p, i)
        /\ Carried(i)' <=> Carried(i)
    BY <2>1 DEF Carries, Carried
  <2> QED
    BY <2>1, <2>2, <2>3, <2>4 DEF AtMostOnce, Somewhere, Carried
<1>3. CASE SchedPick
  <2>1. /\ schedPc = "pick" /\ schedPc' = "send"
        /\ schedPiece' \notin pieceBitField /\ schedPiece' \notin piecesScheduled
        /\ piecesScheduled' = piecesScheduled \cup {schedPiece'}
        /\ UNCHANGED <<workChan, failedWorkChan, pc, piece, pieceBitField>>
    BY <1>3 DEF SchedPick, Unscheduled
  <2>2. About(i)' <=> i = schedPiece'
    BY <2>1 DEF About
  <2>3. i = schedPiece' => ~Somewhere(i)
    BY <2>1 DEF AtMostOnce
  <2>4. /\ \A p \in Peer : Carries(p, i)' <=> Carries(p, i)
        /\ Carried(i)' <=> Carried(i)
    BY <2>1 DEF Carries, Carried
  <2>5. ~About(i)
    BY <2>1 DEF About
  <2> QED
    BY <2>1, <2>2, <2>3, <2>4, <2>5 DEF AtMostOnce, Somewhere, Carried
<1>4. CASE SchedCheck \/ SchedNoFailed \/ SchedIdle
  <2>1. ~About(i) /\ ~About(i)'
    BY <1>4 DEF SchedCheck, SchedNoFailed, SchedIdle, About
  <2>2. UNCHANGED <<workChan, failedWorkChan, pc, piece, piecesScheduled, pieceBitField>>
    BY <1>4 DEF SchedCheck, SchedNoFailed, SchedIdle
  <2>3. /\ \A p \in Peer : Carries(p, i)' <=> Carries(p, i)
        /\ Carried(i)' <=> Carried(i)
    BY <2>2 DEF Carries, Carried
  <2> QED
    BY <2>1, <2>2, <2>3 DEF AtMostOnce, Somewhere, Carried
<1>5. ASSUME NEW p \in Peer, TakeWork(p) PROVE AtMostOnce(i)'
  <2>1. /\ UNCHANGED <<failedWorkChan, schedPc, schedPiece, piecesScheduled, pieceBitField>>
        /\ ~Carries(p, i)
        /\ \A q \in Peer : q # p => (Carries(q, i)' <=> Carries(q, i))
        /\ About(i)' <=> About(i)
    BY <1>5 DEF TakeWork, Carries, Goto, HoldingPcs, About
  <2>2. CASE workChan = <<>>
    <3>1. workChan' = workChan /\ ~Carries(p, i)'
      BY <1>5, <2>2 DEF TakeWork, Carries
    <3>2. Carried(i)' <=> Carried(i)
      BY <2>1, <3>1 DEF Carried
    <3> QED
      BY <2>1, <3>1, <3>2 DEF AtMostOnce, Somewhere, Carried
  <2>3. CASE workChan # <<>>
    <3>1. workChan' = Tail(workChan) /\ (Carries(p, i)' <=> i = Head(workChan))
      BY <1>5, <2>3 DEF TakeWork, Carries, Goto, HoldingPcs
    <3>2. /\ Once(i, workChan')
          /\ Occurs(i, workChan') => Occurs(i, workChan) /\ i # Head(workChan)
          /\ Occurs(Head(workChan), workChan)
      BY <2>3, <3>1, OnceTail DEF AtMostOnce
    <3>3. Carried(i)' <=> Carried(i) \/ i = Head(workChan)
      BY <2>1, <3>1 DEF Carried
    <3>4. \A q, r \in Peer : Carries(q, i)' /\ Carries(r, i)' => q = r
      BY <2>1, <3>1, <3>2 DEF AtMostOnce, Carried
    <3> QED
      BY <2>1, <3>1, <3>2, <3>3, <3>4 DEF AtMostOnce, Somewhere, Carried
  <2> QED
    BY <2>2, <2>3
<1>6. ASSUME NEW p \in Peer, Requeue(p) \/ Reject(p) PROVE AtMostOnce(i)'
  <2>1. /\ failedWorkChan' = Append(failedWorkChan, piece[p]) /\ piece[p] \in Piece
        /\ UNCHANGED <<workChan, schedPc, schedPiece, piecesScheduled, pieceBitField>>
        /\ Carries(p, i) <=> i = piece[p]
        /\ ~Carries(p, i)'
        /\ \A q \in Peer : q # p => (Carries(q, i)' <=> Carries(q, i))
        /\ About(i)' <=> About(i)
    BY <1>6 DEF Requeue, Reject, Carries, Goto, Forget, HoldingPcs, About
  <2>2. i = piece[p] => Carried(i)
    BY <2>1 DEF Carried
  <2>3. Once(i, failedWorkChan') /\ (Occurs(i, failedWorkChan') <=> Occurs(i, failedWorkChan) \/ i = piece[p])
    BY <2>1, <2>2, OnceAppend, OccursAppend DEF AtMostOnce
  <2>4. (Carried(i)' => Carried(i)) /\ (i = piece[p] => ~Carried(i)')
    BY <2>1 DEF Carried, AtMostOnce
  <2>5. \A q, r \in Peer : Carries(q, i)' /\ Carries(r, i)' => q = r
    BY <2>1 DEF AtMostOnce
  <2> QED
    BY <2>1, <2>2, <2>3, <2>4, <2>5 DEF AtMostOnce, Somewhere, Carried
<1>7. ASSUME NEW p \in Peer, MarkPiece(p) PROVE AtMostOnce(i)'
  <2>1. /\ UNCHANGED <<workChan, failedWorkChan, schedPc, schedPiece, piecesScheduled>>
        /\ pieceBitField' = pieceBitField \cup {piece[p]}
        /\ Carries(p, i) <=> i = piece[p]
        /\ ~Carries(p, i)'
        /\ \A q \in Peer : q # p => (Carries(q, i)' <=> Carries(q, i))
        /\ About(i)' <=> About(i)
    BY <1>7 DEF MarkPiece, Carries, Goto, Forget, HoldingPcs, About
  <2>2. (Carried(i)' => Carried(i)) /\ (i = piece[p] => Carried(i) /\ ~Carried(i)')
    BY <2>1 DEF Carried, AtMostOnce
  <2>3. \A q, r \in Peer : Carries(q, i)' /\ Carries(r, i)' => q = r
    BY <2>1 DEF AtMostOnce
  <2> QED
    BY <2>1, <2>2, <2>3 DEF AtMostOnce, Somewhere, Carried
<1>8. ASSUME NEW p \in Peer,
             \/ StartPeer(p) \/ StayChoked(p) \/ Unchoked(p) \/ ConnectionLost(p) \/ Exit(p)
             \/ GetPiece(p) \/ GetBadPiece(p) \/ GetPieceFails(p) \/ VerifyPiece(p)
             \/ WriteSegment(p)
      PROVE  AtMostOnce(i)'
  <2>1. UNCHANGED <<workChan, failedWorkChan, schedPc, schedPiece, piecesScheduled, piece, pieceBitField>>
    BY <1>8 DEF StartPeer, SkipPeer, HandshakeOk, HandshakeFails, HandshakeHangs, StayChoked,
        Unchoked, ConnectionLost, Exit, GetPiece, GetBadPiece, GetPieceFails, VerifyPiece,
        WriteSegment
  <2>2. \A q \in Peer : Carries(q, i)' <=> Carries(q, i)
    BY <1>8, <2>1 DEF StartPeer, SkipPeer, HandshakeOk, HandshakeFails, HandshakeHangs,
        AtPeer, StayChoked, Unchoked, ConnectionLost, Exit, GetPiece, GetBadPiece,
        GetPieceFails, VerifyPiece, WriteSegment, Goto, Carries, HoldingPcs
  <2>3. (Carried(i)' <=> Carried(i)) /\ (About(i)' <=> About(i))
    BY <2>1, <2>2 DEF Carried, About
  <2> QED
    BY <2>1, <2>2, <2>3 DEF AtMostOnce, Somewhere, Carried
<1> QED
  BY <1>1, <1>2, <1>3, <1>4, <1>5, <1>6, <1>7, <1>8
  DEF Next, Scheduler, Worker, WorkerStep, Crash, RequestPanics

LEMMA NowhereIsOnce ==
  ASSUME NEW i, workChan = <<>>, failedWorkChan = <<>>, schedPc \in {"check", "panicked"},
         \A p \in Peer : pc[p] = "new"
  PROVE  AtMostOnce(i)
BY DEF AtMostOnce, Once, Occurs, Carried, Carries, About, Somewhere, HoldingPcs

LEMMA NoneTwiceStep == ASSUME TypeOK, NoneTwice, [Next]_vars PROVE NoneTwice'
<1> SUFFICES ASSUME NEW i \in Piece \ {0} PROVE AtMostOnce(i)'
  BY DEF NoneTwice
<1>1. AtMostOnce(i)
  BY DEF NoneTwice
<1>2. CASE MemoryLost
  BY <1>2 DEF MemoryLost, AtMostOnce, Once, Occurs, Carried, Carries, About, Somewhere, HoldingPcs
<1>3. CASE UNCHANGED vars
  BY <1>1, <1>3 DEF vars, AtMostOnce, Once, Occurs, Carried, Carries, About, Somewhere
<1>4. CASE Next /\ ~MemoryLost
  BY <1>1, <1>4, StaysOnce
<1> QED
  BY <1>2, <1>3, <1>4

\* Two copies of an index would be two places; there are none.
LEMMA OnePlace ==
  ASSUME NEW i, AtMostOnce(i)
  PROVE  \A x, y \in Copies(i) : x = y
<1> DEFINE W == {k \in 1 .. Len(workChan) : workChan[k] = i}
           F == {k \in 1 .. Len(failedWorkChan) : failedWorkChan[k] = i}
           C == {p \in Peer : pc[p] \in HoldingPcs /\ piece[p] = i}
           A == {n \in {0} : schedPc \in {"resend", "send"} /\ schedPiece = i}
<1>1. \A j, k \in W : j = k
  BY DEF AtMostOnce, Once
<1>2. \A j, k \in F : j = k
  BY DEF AtMostOnce, Once
<1>3. \A p, q \in C : p = q
  BY DEF AtMostOnce, Carries
<1>4. \A m, n \in A : m = n
  OBVIOUS
<1>5. /\ W # {} => F = {} /\ C = {} /\ A = {}
      /\ F # {} => C = {} /\ A = {}
      /\ C # {} => A = {}
  BY DEF AtMostOnce, Occurs, Carried, Carries, About
<1>6. Copies(i) = ({"work"} \X W) \cup ({"failed"} \X F) \cup ({"worker"} \X C) \cup ({"scheduler"} \X A)
  BY DEF Copies
<1> HIDE DEF W, F, C, A
<1> QED
  BY <1>1, <1>2, <1>3, <1>4, <1>5, <1>6

\* No piece but the first is carried by two workers, or waits in a channel
\* while a worker has it, or is handed out once it is had: scheduleWork sends an
\* index once (338-363) and those who take it put it back in one place at most
\* (415-439).
THEOREM NoPieceIsDoubled == Spec => []NoDoubleDownload
<1>1. Init => NoneTwice
  BY NowhereIsOnce DEF Init, NoneTwice
<1>2. TypeOK /\ NoneTwice /\ [Next]_vars => NoneTwice'
  BY NoneTwiceStep
<1>3. NoneTwice => NoDoubleDownload
  <2> SUFFICES ASSUME NoneTwice, NEW i \in Piece \ {0}
               PROVE  Cardinality(Copies(i)) <= IF i \in piecesScheduled \ pieceBitField THEN 1 ELSE 0
    BY DEF NoDoubleDownload
  <2>1. AtMostOnce(i)
    BY DEF NoneTwice
  <2>2. CASE Copies(i) = {}
    <3>1. Cardinality(Copies(i)) = 0
      BY <2>2, FS_EmptySet
    <3> QED
      BY <3>1
  <2>3. CASE Copies(i) # {}
    <3>1. i \in piecesScheduled \ pieceBitField
      BY <2>1, <2>3, CopiesSomewhere DEF AtMostOnce
    <3>2. PICK x : x \in Copies(i)
      BY <2>3
    <3>3. Copies(i) = {x}
      BY <2>1, <3>2, OnePlace
    <3>4. Cardinality(Copies(i)) = 1
      BY <3>3, FS_Singleton
    <3> QED
      BY <3>1, <3>4
  <2> QED
    BY <2>2, <2>3
<1> QED
  BY <1>1, <1>2, <1>3, TypeCorrect, PTL DEF Spec

-----------------------------------------------------------------------------
(* Slots.                                                                   *)

Occupied == {p \in Peer : pc[p] \in ActivePcs}

LEMMA SlotStep == ASSUME TypeOK, SlotBound, [Next]_vars PROVE SlotBound'
<1> USE DEF TypeOK, WorkersOK, CountersOK
<1>1. IsFiniteSet(Occupied)
  <2>1. IsFiniteSet(Peer)
    BY FS_Interval DEF Peer
  <2> QED
    BY <2>1, FS_Subset DEF Occupied
<1>2. peersStarted = Cardinality(Occupied) /\ peersStarted <= Threads
  BY DEF SlotBound, Occupied
<1>3. ASSUME Occupied' = Occupied, peersStarted' = peersStarted PROVE SlotBound'
  BY <1>2, <1>3 DEF SlotBound, Occupied
<1>4. ASSUME NEW p \in Peer, HandshakeOk(p) PROVE SlotBound'
  <2>1. p \notin Occupied
    BY <1>4 DEF HandshakeOk, AtPeer, Occupied, ActivePcs, HoldingPcs
  <2>2. Occupied' = Occupied \cup {p}
    BY <1>4 DEF HandshakeOk, Goto, Occupied, ActivePcs, HoldingPcs
  <2>3. Cardinality(Occupied') = Cardinality(Occupied) + 1
    BY <1>1, <2>1, <2>2, FS_AddElement
  <2>4. peersStarted' = peersStarted + 1 /\ peersStarted < Threads
    BY <1>4 DEF HandshakeOk
  <2>5. peersStarted' = Cardinality(Occupied') /\ peersStarted' <= Threads
    BY <1>2, <2>3, <2>4
  <2> QED
    BY <2>5 DEF SlotBound, Occupied
<1>5. ASSUME NEW p \in Peer, Exit(p) PROVE SlotBound'
  <2>1. p \in Occupied
    BY <1>5 DEF Exit, Occupied, ActivePcs
  <2>2. Occupied' = Occupied \ {p}
    BY <1>5 DEF Exit, Goto, Occupied, ActivePcs, HoldingPcs
  <2>3. Cardinality(Occupied') = Cardinality(Occupied) - 1
    BY <1>1, <2>1, <2>2, FS_RemoveElement
  <2>4. peersStarted' = peersStarted - 1
    BY <1>5 DEF Exit
  <2>5. peersStarted' = Cardinality(Occupied') /\ peersStarted' <= Threads
    BY <1>2, <2>3, <2>4
  <2> QED
    BY <2>5 DEF SlotBound, Occupied
<1>6. CASE MemoryLost
  <2>1. Occupied' = {} /\ peersStarted' = 0
    BY <1>6 DEF MemoryLost, Occupied, ActivePcs, HoldingPcs
  <2>2. Cardinality(Occupied') = 0
    BY <2>1, FS_EmptySet
  <2>3. peersStarted' = Cardinality(Occupied') /\ peersStarted' <= Threads
    BY <2>1, <2>2
  <2> QED
    BY <2>3 DEF SlotBound, Occupied
<1>7. ASSUME NEW p \in Peer, Worker(p), ~Exit(p), ~RequestPanics(p) PROVE SlotBound'
  <2>1. /\ pc[p] \in ActivePcs /\ peersStarted' = peersStarted
        /\ \E label \in ActivePcs : pc' = [pc EXCEPT ![p] = label]
    BY <1>7 DEF Worker, WorkerStep, StayChoked, Unchoked, ConnectionLost, TakeWork, GetPiece,
        GetBadPiece, GetPieceFails, VerifyPiece, Requeue, Reject, WriteSegment, MarkPiece,
        Goto, ActivePcs, HoldingPcs
  <2>2. Occupied' = Occupied
    BY <2>1 DEF Occupied
  <2> QED
    BY <1>3, <2>1, <2>2
<1>8. ASSUME NEW p \in Peer, SkipPeer(p) \/ HandshakeFails(p) \/ HandshakeHangs(p) PROVE SlotBound'
  <2>1. Occupied' = Occupied /\ peersStarted' = peersStarted
    BY <1>8 DEF SkipPeer, HandshakeFails, HandshakeHangs, AtPeer, Goto, Occupied, ActivePcs,
        HoldingPcs
  <2> QED
    BY <1>3, <2>1
<1>9. CASE UNCHANGED <<pc, peersStarted>>
  BY <1>3, <1>9 DEF Occupied
<1> QED
  BY <1>4, <1>5, <1>6, <1>7, <1>8, <1>9
  DEF vars, Next, Scheduler, SchedCheck, SchedTakeFailed, SchedNoFailed, SchedResend,
      SchedPick, SchedIdle, SchedSend, StartPeer, Crash, RequestPanics

\* peersStarted counts the workers that occupy a slot and startPeers never
\* exceeds Threads of them (306-309, 322-324, 442-444).
THEOREM SlotsAreBounded == Spec => []SlotBound
<1>1. Init => SlotBound
  <2> SUFFICES ASSUME Init PROVE SlotBound
    OBVIOUS
  <2>1. Occupied = {} /\ peersStarted = 0
    BY DEF Init, Occupied, ActivePcs, HoldingPcs
  <2>2. Cardinality(Occupied) = 0
    BY <2>1, FS_EmptySet
  <2>3. peersStarted = Cardinality(Occupied) /\ peersStarted <= Threads
    BY <2>1, <2>2
  <2> QED
    BY <2>3 DEF SlotBound, Occupied
<1>2. TypeOK /\ SlotBound /\ [Next]_vars => SlotBound'
  BY SlotStep
<1> QED
  BY <1>1, <1>2, TypeCorrect, PTL DEF Spec

-----------------------------------------------------------------------------
(* Refinement.                                                              *)

LEMMA StoreInit == ASSUME Init PROVE Store!Init
<1>1. Verified(disk) \subseteq Piece /\ pieceBitField \subseteq Verified(disk)
  BY DEF Init, Hashed, Verified
<1>2. (schedPc = "done") = FALSE
  BY DEF Init
<1> QED
  BY <1>1, <1>2 DEF Store!Init, Init

LEMMA StoreNext == ASSUME IInv, [Next]_vars PROVE [Store!Next]_Store!vars
<1> DEFINE finished == schedPc = "done"
<1> USE DEF Store!Next, Store!vars
<1>1. ASSUME NEW p \in Peer, WriteSegment(p) PROVE [Store!Next]_Store!vars
  <2>1. piece[p] \in Piece
    BY DEF IInv, TypeOK, WorkersOK
  <2>2. UNCHANGED <<pieceBitField, schedPc, whole>>
    BY <1>1 DEF WriteSegment
  <2>3. \A i \in Piece : i # piece[p] => disk'[i] = disk[i]
    BY <1>1 DEF WriteSegment, IInv, TypeOK, StoreOK, Disks
  <2>4. Verified(disk') \subseteq Verified(disk) \cup {piece[p]}
    BY <2>3 DEF Verified
  <2>5. Verified(disk') = Verified(disk) \/ Verified(disk') = Verified(disk) \cup {piece[p]}
    BY <2>4, VerifiedGrows
  <2>6. ASSUME Verified(disk') = Verified(disk) \cup {piece[p]} PROVE Store!Store(piece[p])
    BY <2>2, <2>6 DEF Store!Store, Verified, SegmentsOf
  <2>7. ASSUME Verified(disk') = Verified(disk) PROVE UNCHANGED Store!vars
    BY <2>2, <2>7 DEF Verified, SegmentsOf
  <2> QED
    BY <2>1, <2>5, <2>6, <2>7
<1>2. ASSUME NEW p \in Peer, MarkPiece(p) PROVE [Store!Next]_Store!vars
  <2>1. piece[p] \in Verified(disk) /\ piece[p] \in Piece
    BY <1>2 DEF MarkPiece, IInv, TypeOK, WorkersOK, WritersKnow, WriterKnows, Verified
  <2>2. Store!Announce(piece[p])
    BY <1>2, <2>1 DEF MarkPiece, Store!Announce, Verified, SegmentsOf
  <2> QED
    BY <2>1, <2>2
<1>3. CASE SchedCheck
  <2>1. CASE gotAllPieces
    <3>1. Store!Finish
      BY <1>3, <2>1 DEF SchedCheck, gotAllPieces, Store!Finish, Verified, SegmentsOf
    <3> QED
      BY <3>1
  <2>2. CASE ~gotAllPieces
    BY <1>3, <2>2 DEF SchedCheck, Verified, SegmentsOf
  <2> QED
    BY <2>1, <2>2
<1>4. CASE MemoryLost /\ initializeBitField
  <2>1. /\ disk' = disk /\ whole' = whole
        /\ pieceBitField' \subseteq Verified(disk)
        /\ whole \/ Verified(disk) = Piece => pieceBitField' = Verified(disk)
        /\ finished' = FALSE
    BY <1>4 DEF initializeBitField, Hashed, FilesWhole
  <2>2. Verified(disk)' = Verified(disk)
    BY <2>1 DEF Verified, SegmentsOf
  <2>3. Store!Recover
    BY <2>1, <2>2 DEF Store!Recover
  <2> QED
    BY <2>3
<1>5. ASSUME UNCHANGED store, finished' = finished PROVE [Store!Next]_Store!vars
  BY <1>5 DEF Verified, SegmentsOf
<1>6. CASE SchedTakeFailed \/ SchedNoFailed \/ SchedResend \/ SchedPick \/ SchedIdle \/ SchedSend
  BY <1>5, <1>6 DEF SchedTakeFailed, SchedNoFailed, SchedResend, SchedPick, SchedIdle, SchedSend
<1>7. ASSUME NEW p \in Peer, StartPeer(p) \/ Worker(p),
             ~WriteSegment(p), ~MarkPiece(p), ~RequestPanics(p)
      PROVE  [Store!Next]_Store!vars
  <2>1. UNCHANGED <<store, schedPc>>
    BY <1>7 DEF StartPeer, SkipPeer, HandshakeOk, HandshakeFails, HandshakeHangs, Worker,
        WorkerStep, StayChoked, Unchoked, ConnectionLost, TakeWork, GetPiece, GetBadPiece,
        GetPieceFails, VerifyPiece, Requeue, Reject, Exit
  <2> QED
    BY <1>5, <2>1
<1>8. CASE UNCHANGED vars
  BY <1>5, <1>8 DEF vars
<1> QED
  BY <1>1, <1>2, <1>3, <1>4, <1>6, <1>7, <1>8
  DEF Next, Scheduler, StartPeer, Worker, WorkerStep, Crash, RequestPanics

\* With pieces complete on disk for stored, pieceBitField for announced and a
\* returned scheduleWork for finished, a session behaves as PieceStore says:
\* every step of the code is a step of PieceStore or leaves its state alone.
THEOREM SessionImplementsStore == Spec => ImplementsPieceStore
<1>1. Init => Store!Init
  BY StoreInit
<1>2. IInv /\ [Next]_vars => [Store!Next]_Store!vars
  BY StoreNext
<1> QED
  BY <1>1, <1>2, IInvHolds, PTL DEF Spec, ImplementsPieceStore, Store!Spec
=============================================================================
