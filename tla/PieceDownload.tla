---------------------------- MODULE PieceDownload ----------------------------
(***************************************************************************)
(* One connection downloading pieces one after the other: getPiece and the  *)
(* handlers it runs, src/pkg/torrent/peerprotocol.go.                       *)
(*                                                                         *)
(* A piece is fetched as Blocks blocks.  getPiece keeps up to               *)
(* MaxQueuedRequests requests outstanding, counts them in BlocksRequesting  *)
(* and returns when no block is REQUESTED; it does not look whether blocks  *)
(* are NOT_REQUESTED.  handlePiece ignores the piece index of a message and *)
(* counts down for every message, asked for or not.  The counter and the    *)
(* buffer outlive a call.                                                   *)
(*                                                                         *)
(* The n-th call of getPiece fetches piece n; a block message is the pair   *)
(* of the piece and the block it carries.  Every message that is read, of   *)
(* whatever type, restarts the deadline of the next read.                   *)
(***************************************************************************)
EXTENDS Integers, Sequences, FiniteSets

CONSTANTS
    Blocks,             \* blocksRequired
    MaxQueuedRequests,
    MaxPieces,          \* bound on the calls of getPiece
    MaxStrays,          \* bound on blocks sent without being asked for
    MaxChokes           \* bound on the chokes the peer sends

ASSUME DownloadAssumption ==
    /\ Blocks \in Nat \ {0}
    /\ MaxQueuedRequests \in Nat \ {0}
    /\ MaxPieces \in Nat
    /\ MaxStrays \in Nat
    /\ MaxChokes \in Nat

Block == 0 .. Blocks - 1

VARIABLES
    pc,                \* "idle" between calls, "loop", "returned", "failed"
    round,             \* calls of getPiece so far: the piece being fetched
    BlocksState,
    BlocksRequesting,
    nextRequest,
    Piece,             \* Piece[b]: the piece whose bytes fill block b, 0 = none
    Choked,
    fromPeer,          \* messages on their way to us, in order
    asked,             \* requests on their way to the peer or queued there
    peerChoking,       \* the peer drops requests
    strays,
    chokes

request == <<BlocksState, BlocksRequesting, nextRequest, Piece>>
remote  == <<asked, peerChoking, strays, chokes>>
vars == <<pc, round, request, Choked, fromPeer, remote>>

BlockState == {"NOT_REQUESTED", "REQUESTED", "HAVE"}
\* "other": keep-alive, have, bitfield, (not) interested, cancel, extension
Message == [type : {"choke", "unchoke", "other", "unknown"}] \cup [type : {"piece"}, round : 1 .. MaxPieces, block : Block]

InState(s) == {b \in Block : BlocksState[b] = s}

TypeOK ==
    /\ pc \in {"idle", "loop", "returned", "failed"}
    /\ round \in 0 .. MaxPieces
    /\ BlocksState \in [Block -> BlockState]
    /\ BlocksRequesting \in Int
    /\ nextRequest \in 0 .. Blocks
    /\ Piece \in [Block -> 0 .. MaxPieces]
    /\ Choked \in BOOLEAN
    /\ fromPeer \in Seq(Message)
    /\ asked \subseteq (1 .. MaxPieces) \X Block
    /\ peerChoking \in BOOLEAN
    /\ strays \in 0 .. MaxStrays
    /\ chokes \in 0 .. MaxChokes

\* NewPeerConnection; no block is outstanding before the first call
Init ==
    /\ pc = "idle"
    /\ round = 0
    /\ BlocksState = [b \in Block |-> "NOT_REQUESTED"]
    /\ BlocksRequesting = 0
    /\ nextRequest = 0
    /\ Piece = [b \in Block |-> 0]
    /\ Choked = TRUE
    /\ fromPeer = <<>>
    /\ asked = {}
    /\ peerChoking = TRUE
    /\ strays = 0
    /\ chokes = 0

-----------------------------------------------------------------------------
(* Wrong variants of operators below, substituted for them to see that a    *)
(* property notices; not part of the specification.                         *)

\* the end of the piece is not looked at
MayRequestPastEnd == BlocksRequesting < MaxQueuedRequests

\* the window is off by one
MayRequestWide == BlocksRequesting <= MaxQueuedRequests /\ nextRequest < Blocks

\* a block that was asked for counts as received
gotAllBlocksAsked == nextRequest = Blocks

\* BlocksRequesting-- is missing
handlePieceUncounted(m) ==
    /\ Piece' = [Piece EXCEPT ![m.block] = m.round]
    /\ BlocksState' = [BlocksState EXCEPT ![m.block] = "HAVE"]
    /\ UNCHANGED BlocksRequesting

\* the read has no deadline
ReadForever ==
    /\ pc = "loop"
    /\ FALSE
    /\ UNCHANGED vars

-----------------------------------------------------------------------------
gotAllBlocks == InState("REQUESTED") = {}

handlePiece(m) ==
    /\ Piece' = [Piece EXCEPT ![m.block] = m.round]
    /\ BlocksState' = [BlocksState EXCEPT ![m.block] = "HAVE"]
    /\ BlocksRequesting' = BlocksRequesting - 1

HandleMessage(m) ==
    \/ /\ m.type = "piece"
       /\ handlePiece(m)
       /\ UNCHANGED <<nextRequest, Choked>>
    \/ /\ m.type = "choke"
       /\ Choked' = TRUE
       /\ UNCHANGED request
    \/ /\ m.type = "unchoke"
       /\ Choked' = FALSE
       /\ UNCHANGED request
    \/ /\ m.type \in {"other", "unknown"}
       /\ UNCHANGED <<request, Choked>>

\* ReadAndHandleMessages of handlePeerConnection, one message at a time; the
\* error for an unknown type is followed by continue
ReadIdle ==
    /\ pc = "idle"
    /\ fromPeer # <<>>
    /\ HandleMessage(Head(fromPeer))
    /\ fromPeer' = Tail(fromPeer)
    /\ UNCHANGED <<pc, round, remote>>

\* getPiece up to its loop.  Messages may still be on their way: the reading
\* before it stops after a second of silence.  Piece is made anew only when
\* the piece has another size.
getPiece ==
    /\ pc = "idle"
    /\ ~Choked
    /\ round < MaxPieces
    /\ pc' = "loop"
    /\ round' = round + 1
    /\ BlocksState' = [b \in Block |-> "NOT_REQUESTED"]
    /\ nextRequest' = 0
    /\ Piece' \in {Piece, [b \in Block |-> 0]}
    /\ UNCHANGED <<BlocksRequesting, Choked, fromPeer, remote>>

MayRequest == BlocksRequesting < MaxQueuedRequests /\ nextRequest < Blocks

\* Choked is not looked at here
requestBlock ==
    /\ pc = "loop"
    /\ MayRequest
    /\ asked' = IF peerChoking THEN asked ELSE asked \cup {<<round, nextRequest>>}
    /\ BlocksRequesting' = BlocksRequesting + 1
    /\ BlocksState' = [BlocksState EXCEPT ![nextRequest] = "REQUESTED"]
    /\ nextRequest' = nextRequest + 1
    /\ UNCHANGED <<pc, round, Piece, Choked, fromPeer, peerChoking, strays, chokes>>

ReadAndHandleMessage ==
    /\ pc = "loop"
    /\ ~MayRequest
    /\ ~gotAllBlocks
    /\ fromPeer # <<>>
    /\ HandleMessage(Head(fromPeer))
    /\ fromPeer' = Tail(fromPeer)
    /\ pc' = IF Head(fromPeer).type = "unknown" THEN "failed" ELSE "loop"
    /\ UNCHANGED <<round, remote>>

\* getPiece returns the error, and the worker gives the piece back and leaves
ReadFails ==
    /\ pc = "loop"
    /\ ~MayRequest
    /\ ~gotAllBlocks
    /\ pc' = "failed"
    /\ UNCHANGED <<round, request, Choked, fromPeer, remote>>

\* no message within five seconds
ReadTimeout == fromPeer = <<>> /\ ReadFails

\* the peer closes the connection, or it breaks in the middle of a message
ConnectionLost == ReadFails

Return ==
    /\ pc = "loop"
    /\ ~MayRequest
    /\ gotAllBlocks
    /\ pc' = "returned"
    /\ UNCHANGED <<round, request, Choked, fromPeer, remote>>

\* the worker verifies and stores pc.Piece, and is back at the head of its loop
UsePiece ==
    /\ pc = "returned"
    /\ pc' = "idle"
    /\ UNCHANGED <<round, request, Choked, fromPeer, remote>>

-----------------------------------------------------------------------------
(* The peer.  It answers requests in any order and each one once, or drops  *)
(* some when it chokes; a stray is a block it was asked for once and sends  *)
(* again, or sends after it had dropped the request.                        *)

PieceMessage(r, b) == [type |-> "piece", round |-> r, block |-> b]

PeerAnswers ==
    /\ \E q \in asked :
        /\ asked' = asked \ {q}
        /\ fromPeer' = Append(fromPeer, PieceMessage(q[1], q[2]))
    /\ UNCHANGED <<pc, round, request, Choked, peerChoking, strays, chokes>>

PeerUnchokes ==
    /\ peerChoking
    /\ peerChoking' = FALSE
    /\ fromPeer' = Append(fromPeer, [type |-> "unchoke"])
    /\ UNCHANGED <<pc, round, request, Choked, asked, strays, chokes>>

PeerChokes ==
    /\ ~peerChoking
    /\ chokes < MaxChokes
    /\ chokes' = chokes + 1
    /\ peerChoking' = TRUE
    /\ asked' \in SUBSET asked
    /\ fromPeer' = Append(fromPeer, [type |-> "choke"])
    /\ UNCHANGED <<pc, round, request, Choked, strays>>

PeerStrays ==
    /\ strays < MaxStrays
    /\ strays' = strays + 1
    /\ \E r \in 1 .. round, b \in Block :
        fromPeer' = Append(fromPeer, PieceMessage(r, b))
    /\ UNCHANGED <<pc, round, request, Choked, asked, peerChoking, chokes>>

\* a message that has nothing to do with the piece.  The peer may send them for
\* ever; one at a time is on its way.
PeerTalks ==
    /\ \A k \in 1 .. Len(fromPeer) : fromPeer[k].type \notin {"other", "unknown"}
    /\ \E t \in {"other", "unknown"} : fromPeer' = Append(fromPeer, [type |-> t])
    /\ UNCHANGED <<pc, round, request, Choked, remote>>

-----------------------------------------------------------------------------
Client ==
    \/ ReadIdle
    \/ getPiece
    \/ requestBlock
    \/ ReadAndHandleMessage
    \/ ReadTimeout
    \/ ConnectionLost
    \/ Return
    \/ UsePiece

RemotePeer ==
    \/ PeerAnswers
    \/ PeerUnchokes
    \/ PeerChokes
    \/ PeerStrays
    \/ PeerTalks

Next == Client \/ RemotePeer

Spec == Init /\ [][Next]_vars

\* The goroutine runs, and a read times out on a connection that stays silent;
\* the peer owes us nothing.
FairSpec ==
    /\ Spec
    /\ WF_vars(ReadIdle \/ requestBlock \/ ReadAndHandleMessage \/ Return \/ UsePiece)
    /\ WF_vars(ReadTimeout)

-----------------------------------------------------------------------------
(* Properties *)

\* getPiece returns only with every block received, although it looks for
\* REQUESTED blocks only: the count may not run ahead of the REQUESTED blocks,
\* or it would return with blocks it never asked for.
ReturnsWhole == pc = "returned" => InState("HAVE") = Block

\* From a peer that sends nothing unasked, the piece that is returned holds
\* blocks of this piece only, although the buffer is reused, the index of a
\* message is ignored and messages may be late.
ReturnsOwnBlocks ==
    pc = "returned" /\ strays = 0 => \A b \in Block : Piece[b] = round

\* The outstanding requests exceed the window by at most one for each stray
\* the peer has sent: BlocksRequesting drifts, and drifts no further.
WindowBound == Cardinality(InState("REQUESTED")) <= MaxQueuedRequests + strays

\* Every call of getPiece ends, whether the peer answers, chokes or is silent,
\* unless the peer goes on sending messages for ever: each one, a keep-alive
\* while it chokes us too, gives the next read five seconds more.
CallEnds == (pc = "loop" ~> pc # "loop") \/ []<>(fromPeer # <<>>)
=============================================================================
