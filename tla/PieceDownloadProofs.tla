------------------------- MODULE PieceDownloadProofs -------------------------
(***************************************************************************)
(* getPiece returns whole pieces only, its own from a peer that sends       *)
(* nothing unasked, and keeps to its window, for every number of blocks,    *)
(* window size and misbehaviour of the peer.                                *)
(***************************************************************************)
EXTENDS PieceDownload, FiniteSetTheorems, TLAPS

USE DownloadAssumption DEF request, remote

Requested == InState("REQUESTED")

\* The count never runs ahead of the REQUESTED blocks, the blocks before
\* nextRequest have been asked for, and none is pending between two calls.
CountInv ==
    /\ BlocksRequesting <= Cardinality(Requested)
    /\ \A b \in Requested : b < nextRequest
    /\ pc \in {"loop", "returned"} =>
        \A b \in Block : b < nextRequest => BlocksState[b] # "NOT_REQUESTED"
    /\ pc \in {"idle", "returned"} => Requested = {}

Started == pc # "idle" => round >= 1

IInv == TypeOK /\ Started /\ CountInv

LEMMA RequestedFinite == IsFiniteSet(Requested) /\ Cardinality(Requested) \in Nat
<1>1. IsFiniteSet(Block)
  BY FS_Interval DEF Block
<1>2. IsFiniteSet(Requested)
  BY <1>1, FS_Subset DEF Requested, InState
<1> QED
  BY <1>2, FS_CardinalityType

LEMMA TypeInit == Init => TypeOK
BY DEF Init, TypeOK, BlockState

LEMMA HandleTypes ==
  ASSUME TypeOK, fromPeer # <<>>, HandleMessage(Head(fromPeer))
  PROVE  /\ BlocksState' \in [Block -> BlockState]
         /\ BlocksRequesting' \in Int
         /\ nextRequest' \in 0 .. Blocks
         /\ Piece' \in [Block -> 0 .. MaxPieces]
         /\ Choked' \in BOOLEAN
<1> USE DEF TypeOK
<1> DEFINE m == Head(fromPeer)
<1>1. m \in Message
  OBVIOUS
<1>2. CASE m.type = "piece" /\ handlePiece(m) /\ UNCHANGED <<nextRequest, Choked>>
  <2>1. m.round \in 1 .. MaxPieces /\ m.block \in Block
    BY <1>1, <1>2 DEF Message
  <2>2. m.round \in 0 .. MaxPieces
    BY <2>1
  <2>3. Piece' \in [Block -> 0 .. MaxPieces]
    BY <1>2, <2>1, <2>2 DEF handlePiece
  <2>4. BlocksState' \in [Block -> BlockState]
    BY <1>2, <2>1 DEF handlePiece, BlockState
  <2> QED
    BY <1>2, <2>3, <2>4 DEF handlePiece
<1>3. CASE Choked' \in BOOLEAN /\ UNCHANGED request
  BY <1>3
<1> QED
  BY <1>2, <1>3 DEF HandleMessage

LEMMA TypeStep == ASSUME TypeOK, Started, [Next]_vars PROVE TypeOK' /\ Started'
<1> USE DEF TypeOK, Started
<1>1. CASE ReadIdle \/ ReadAndHandleMessage
  <2>1. fromPeer' \in Seq(Message)
    <3>1. fromPeer' = Tail(fromPeer) /\ fromPeer # <<>> /\ fromPeer \in Seq(Message)
      BY <1>1 DEF ReadIdle, ReadAndHandleMessage
    <3> QED
      BY ONLY <3>1
  <2> QED
    BY <1>1, <2>1, HandleTypes DEF ReadIdle, ReadAndHandleMessage
<1>2. CASE getPiece
  <2>1. round' \in 0 .. MaxPieces /\ round' >= 1
    BY <1>2 DEF getPiece
  <2>2. Piece' \in [Block -> 0 .. MaxPieces]
    BY <1>2 DEF getPiece
  <2>3. nextRequest' \in 0 .. Blocks /\ BlocksState' \in [Block -> BlockState]
    BY <1>2 DEF getPiece, BlockState
  <2> QED
    BY <1>2, <2>1, <2>2, <2>3 DEF getPiece
<1>3. CASE requestBlock
  <2>1. round \in 1 .. MaxPieces
    BY <1>3 DEF requestBlock
  <2>2. nextRequest \in Block /\ nextRequest' \in 0 .. Blocks
    BY <1>3 DEF requestBlock, MayRequest, Block
  <2>3. asked' \subseteq (1 .. MaxPieces) \X Block
    BY <1>3, <2>1, <2>2 DEF requestBlock
  <2>4. BlocksState' \in [Block -> BlockState] /\ BlocksRequesting' \in Int
    BY <1>3, <2>2 DEF requestBlock, BlockState
  <2> QED
    BY <1>3, <2>2, <2>3, <2>4 DEF requestBlock
<1>4. CASE ReadFails \/ Return \/ UsePiece
  BY <1>4 DEF ReadFails, Return, UsePiece
<1>5. CASE PeerAnswers
  <2>1. PICK q \in asked : /\ asked' = asked \ {q}
                          /\ fromPeer' = Append(fromPeer, PieceMessage(q[1], q[2]))
    BY <1>5 DEF PeerAnswers
  <2>2. PieceMessage(q[1], q[2]) \in Message
    BY <2>1 DEF PieceMessage, Message
  <2>3. fromPeer' \in Seq(Message) /\ asked' \subseteq (1 .. MaxPieces) \X Block
    BY <2>1, <2>2
  <2> QED
    BY <1>5, <2>3 DEF PeerAnswers
<1>6. CASE PeerUnchokes \/ PeerChokes \/ PeerTalks
  <2>1. \A t \in {"choke", "unchoke", "other", "unknown"} : [type |-> t] \in Message
    BY DEF Message
  <2>2. fromPeer' \in Seq(Message)
    <3>1. \E m \in Message : fromPeer' = Append(fromPeer, m)
      BY <1>6, <2>1 DEF PeerUnchokes, PeerChokes, PeerTalks
    <3> QED
      BY <3>1
  <2>3. chokes' \in 0 .. MaxChokes
    BY <1>6 DEF PeerUnchokes, PeerChokes, PeerTalks, remote
  <2> QED
    BY <1>6, <2>2, <2>3 DEF PeerUnchokes, PeerChokes, PeerTalks, remote
<1>7. CASE PeerStrays
  <2>1. PICK r \in 1 .. round, b \in Block : fromPeer' = Append(fromPeer, PieceMessage(r, b))
    BY <1>7 DEF PeerStrays
  <2>2. PieceMessage(r, b) \in Message
    BY <2>1 DEF PieceMessage, Message
  <2>3. fromPeer' \in Seq(Message) /\ strays' \in 0 .. MaxStrays
    BY <1>7, <2>1, <2>2 DEF PeerStrays
  <2> QED
    BY <1>7, <2>3 DEF PeerStrays
<1>8. CASE UNCHANGED vars
  BY <1>8 DEF vars
<1> QED
  BY <1>1, <1>2, <1>3, <1>4, <1>5, <1>6, <1>7, <1>8
  DEF Next, Client, RemotePeer, ReadTimeout, ConnectionLost

-----------------------------------------------------------------------------
(* The count.                                                               *)

\* A message takes at most one block out of REQUESTED, counts down one if it
\* is a block, and adds no REQUESTED block.
LEMMA HandleCounts ==
  ASSUME TypeOK, CountInv, fromPeer # <<>>, HandleMessage(Head(fromPeer))
  PROVE  /\ Requested' \subseteq Requested
         /\ BlocksRequesting' <= Cardinality(Requested')
         /\ nextRequest' = nextRequest
         /\ \A b \in Block : BlocksState[b] # "NOT_REQUESTED" => BlocksState'[b] # "NOT_REQUESTED"
<1> USE DEF TypeOK, CountInv
<1> DEFINE m == Head(fromPeer)
<1>1. m \in Message
  OBVIOUS
<1>2. CASE m.type = "piece" /\ handlePiece(m) /\ UNCHANGED <<nextRequest, Choked>>
  <2>1. m.block \in Block
    BY <1>1, <1>2 DEF Message
  <2>2. BlocksState' = [BlocksState EXCEPT ![m.block] = "HAVE"] /\ BlocksRequesting' = BlocksRequesting - 1
    BY <1>2 DEF handlePiece
  <2>3. Requested' = Requested \ {m.block}
    BY <2>1, <2>2 DEF Requested, InState
  <2>4. Cardinality(Requested') >= Cardinality(Requested) - 1
    <3>1. CASE m.block \in Requested
      <4>1. Cardinality(Requested') = Cardinality(Requested) - 1
        BY <2>3, <3>1, RequestedFinite, FS_RemoveElement
      <4> QED
        BY <4>1, RequestedFinite
    <3>2. CASE m.block \notin Requested
      <4>1. Requested' = Requested
        BY <2>3, <3>2
      <4> QED
        BY <4>1, RequestedFinite
    <3> QED
      BY <3>1, <3>2
  <2>5. Cardinality(Requested') \in Nat
    BY <2>3, RequestedFinite, FS_Subset, FS_CardinalityType
  <2>6. BlocksRequesting' <= Cardinality(Requested')
    BY <2>2, <2>4, <2>5, RequestedFinite
  <2> QED
    BY <1>2, <2>1, <2>2, <2>3, <2>6
<1>3. CASE UNCHANGED request
  <2>1. Requested' = Requested
    BY <1>3 DEF Requested, InState
  <2> QED
    BY <1>3, <2>1
<1> QED
  BY <1>2, <1>3 DEF HandleMessage

LEMMA CountStep == ASSUME IInv, [Next]_vars PROVE CountInv'
<1> USE DEF IInv
<1>1. CASE ReadIdle \/ ReadAndHandleMessage
  <2>1. HandleMessage(Head(fromPeer)) /\ fromPeer # <<>> /\ pc' \in {pc, "failed"}
    BY <1>1 DEF ReadIdle, ReadAndHandleMessage
  <2>2. /\ Requested' \subseteq Requested
        /\ BlocksRequesting' <= Cardinality(Requested')
        /\ nextRequest' = nextRequest
        /\ \A b \in Block : BlocksState[b] # "NOT_REQUESTED" => BlocksState'[b] # "NOT_REQUESTED"
    BY <2>1, HandleCounts
  <2> QED
    BY <2>1, <2>2 DEF CountInv
<1>2. CASE getPiece
  <2>1. Requested = {} /\ BlocksRequesting <= 0
    BY <1>2, FS_EmptySet DEF getPiece, CountInv
  <2>2. Requested' = {}
    BY <1>2 DEF getPiece, Requested, InState
  <2>3. Cardinality(Requested') = 0
    BY <2>2, FS_EmptySet
  <2>4. BlocksRequesting' <= Cardinality(Requested')
    BY <1>2, <2>1, <2>3 DEF getPiece
  <2>5. \A b \in Block : ~(b < nextRequest')
    BY <1>2 DEF getPiece, Block
  <2> QED
    BY <1>2, <2>2, <2>4, <2>5 DEF getPiece, CountInv
<1>3. CASE requestBlock
  <2>1. nextRequest \in Block /\ nextRequest' = nextRequest + 1
    BY <1>3 DEF requestBlock, MayRequest, Block, TypeOK
  <2>2. Requested' = Requested \cup {nextRequest}
    BY <1>3, <2>1 DEF requestBlock, Requested, InState, TypeOK
  <2>3. nextRequest \notin Requested
    BY <2>1 DEF CountInv, Block
  <2>4. Cardinality(Requested') = Cardinality(Requested) + 1
    BY <2>2, <2>3, RequestedFinite, FS_AddElement
  <2>5. BlocksRequesting' <= Cardinality(Requested')
    BY <1>3, <2>4, RequestedFinite DEF requestBlock, CountInv, TypeOK
  <2>6. \A b \in Requested' : b < nextRequest'
    BY <2>1, <2>2 DEF CountInv, Block, Requested, InState
  <2>7. ASSUME NEW b \in Block, b < nextRequest' PROVE BlocksState'[b] # "NOT_REQUESTED"
    BY <1>3, <2>1, <2>7 DEF requestBlock, CountInv, TypeOK, Block
  <2> QED
    BY <1>3, <2>5, <2>6, <2>7 DEF requestBlock, CountInv
<1>4. CASE ReadFails \/ Return \/ UsePiece
  <2>1. UNCHANGED request /\ Requested' = Requested
    BY <1>4 DEF ReadFails, Return, UsePiece, Requested, InState
  <2> QED
    BY <1>4, <2>1 DEF ReadFails, Return, UsePiece, CountInv, gotAllBlocks, Requested
<1>5. CASE RemotePeer \/ UNCHANGED vars
  <2>1. UNCHANGED <<request, pc>>
    BY <1>5 DEF RemotePeer, PeerAnswers, PeerUnchokes, PeerChokes, PeerStrays, PeerTalks, vars
  <2>2. Requested' = Requested
    BY <2>1 DEF Requested, InState
  <2> QED
    BY <2>1, <2>2 DEF CountInv
<1> QED
  BY <1>1, <1>2, <1>3, <1>4, <1>5 DEF Next, Client, ReadTimeout, ConnectionLost

LEMMA IInvInit == Init => IInv
<1> SUFFICES ASSUME Init PROVE IInv
  OBVIOUS
<1>1. Requested = {}
  BY DEF Init, Requested, InState
<1>2. Cardinality(Requested) = 0
  BY <1>1, FS_EmptySet
<1>3. CountInv
  BY <1>1, <1>2 DEF Init, CountInv
<1> QED
  BY <1>3, TypeInit DEF Init, IInv, Started

LEMMA IInvHolds == Spec => []IInv
<1>1. IInv /\ [Next]_vars => IInv'
  BY TypeStep, CountStep DEF IInv
<1> QED
  BY <1>1, IInvInit, PTL DEF Spec

\* The counters, blocks and messages keep their types: a message names a piece
\* that was asked for, and nextRequest never passes the last block (543-547).
THEOREM TypeCorrect == Spec => []TypeOK
<1>1. IInv => TypeOK
  BY DEF IInv
<1> QED
  BY <1>1, IInvHolds, PTL

\* Inside the loop, nothing pending and no room to request means that every
\* block is there: with no block REQUESTED the count is at most 0, so the
\* window is open, so the end of the piece was reached.
LEMMA NothingPendingIsWhole ==
  ASSUME TypeOK, CountInv, pc = "loop", ~MayRequest, gotAllBlocks
  PROVE  InState("HAVE") = Block
<1>1. Requested = {} /\ BlocksRequesting <= 0
  BY FS_EmptySet DEF gotAllBlocks, Requested, CountInv
<1>2. nextRequest = Blocks
  BY <1>1 DEF MayRequest, TypeOK
<1>3. ASSUME NEW b \in Block PROVE BlocksState[b] = "HAVE"
  <2>1. b < nextRequest
    BY <1>2 DEF Block
  <2>2. BlocksState[b] # "NOT_REQUESTED" /\ BlocksState[b] # "REQUESTED"
    BY <1>1, <2>1 DEF CountInv, Requested, InState
  <2> QED
    BY <2>2 DEF TypeOK, BlockState
<1> QED
  BY <1>3 DEF InState

\* getPiece (540-558) hands out a piece only with all its blocks received,
\* whatever number of blocks it has and whatever the peer sends unasked.
THEOREM PiecesAreWhole == Spec => []ReturnsWhole
<1>1. Init => ReturnsWhole
  BY DEF Init, ReturnsWhole
<1>2. IInv /\ ReturnsWhole /\ [Next]_vars => ReturnsWhole'
  <2> SUFFICES ASSUME IInv, ReturnsWhole, [Next]_vars, pc' = "returned"
               PROVE  InState("HAVE")' = Block
    BY DEF ReturnsWhole
  <2>1. CASE Return
    <3>1. InState("HAVE") = Block
      BY <2>1, NothingPendingIsWhole DEF Return, IInv
    <3> QED
      BY <2>1, <3>1 DEF Return, InState
  <2>2. CASE pc = "returned" /\ UNCHANGED BlocksState
    BY <2>2 DEF ReturnsWhole, InState
  <2> QED
    BY <2>1, <2>2
    DEF Next, Client, RemotePeer, ReadIdle, getPiece, requestBlock, ReadAndHandleMessage,
        ReadTimeout, ConnectionLost, ReadFails, UsePiece, PeerAnswers, PeerUnchokes,
        PeerChokes, PeerStrays, PeerTalks, vars
<1> QED
  BY <1>1, <1>2, IInvHolds, PTL DEF Spec

-----------------------------------------------------------------------------
(* Whose blocks they are.                                                   *)

Blocky(m) == m.type = "piece"

\* While the peer sends nothing unasked, everything under way belongs to a
\* REQUESTED block of the piece being fetched, to each at most one thing, and
\* every block that is there is of this piece.
OwnInv ==
    /\ \A q \in asked : q[1] = round /\ BlocksState[q[2]] = "REQUESTED"
    /\ \A i \in 1 .. Len(fromPeer) : Blocky(fromPeer[i]) =>
        /\ fromPeer[i].round = round
        /\ BlocksState[fromPeer[i].block] = "REQUESTED"
        /\ <<round, fromPeer[i].block>> \notin asked
    /\ \A i, j \in 1 .. Len(fromPeer) :
        Blocky(fromPeer[i]) /\ Blocky(fromPeer[j]) /\ fromPeer[i].block = fromPeer[j].block => i = j
    /\ pc \in {"loop", "returned"} =>
        \A b \in Block : BlocksState[b] = "HAVE" => Piece[b] = round

LEMMA TailOfMessages ==
  ASSUME NEW s \in Seq(Message), s # <<>>
  PROVE  /\ Len(Tail(s)) = Len(s) - 1 /\ Len(s) \in Nat \ {0}
         /\ \A i \in 1 .. Len(Tail(s)) : i + 1 \in 1 .. Len(s) /\ Tail(s)[i] = s[i + 1]
         /\ Head(s) = s[1] /\ Head(s) \in Message
OBVIOUS

\* A message that is read is the only thing under way for its block.
LEMMA OwnRead ==
  ASSUME TypeOK, OwnInv, fromPeer # <<>>, HandleMessage(Head(fromPeer)),
         fromPeer' = Tail(fromPeer), pc' \in {pc, "failed"}, UNCHANGED <<round, asked>>
  PROVE  OwnInv'
<1> USE DEF TypeOK, OwnInv
<1> DEFINE m == Head(fromPeer)
<1>1. /\ m = fromPeer[1] /\ m \in Message /\ 1 \in 1 .. Len(fromPeer)
      /\ \A i \in 1 .. Len(fromPeer') : i + 1 \in 1 .. Len(fromPeer) /\ fromPeer'[i] = fromPeer[i + 1]
  BY TailOfMessages
<1>2. \A i, j \in 1 .. Len(fromPeer') :
        Blocky(fromPeer'[i]) /\ Blocky(fromPeer'[j]) /\ fromPeer'[i].block = fromPeer'[j].block => i = j
  <2>1. TAKE i, j \in 1 .. Len(fromPeer')
  <2>2. Blocky(fromPeer'[i]) /\ Blocky(fromPeer'[j]) /\ fromPeer'[i].block = fromPeer'[j].block
          => i + 1 = j + 1
    BY <1>1
  <2>3. i \in Int /\ j \in Int
    OBVIOUS
  <2> QED
    BY <2>2, <2>3
<1>3. CASE Blocky(m) /\ handlePiece(m)
  <2>1. m.block \in Block /\ m.round = round /\ <<round, m.block>> \notin asked
    BY <1>1, <1>3 DEF Message, Blocky
  <2>2. /\ BlocksState' = [BlocksState EXCEPT ![m.block] = "HAVE"]
        /\ Piece' = [Piece EXCEPT ![m.block] = m.round]
    BY <1>3 DEF handlePiece
  <2>3. ASSUME NEW q \in asked PROVE BlocksState'[q[2]] = "REQUESTED"
    <3>1. q = <<round, q[2]>> /\ q[2] \in Block
      OBVIOUS
    <3>2. q[2] # m.block
      BY <2>1, <3>1
    <3> QED
      BY <2>2, <3>1, <3>2
  <2>4. ASSUME NEW i \in 1 .. Len(fromPeer'), Blocky(fromPeer'[i])
        PROVE  /\ fromPeer'[i].round = round
               /\ BlocksState'[fromPeer'[i].block] = "REQUESTED"
               /\ <<round, fromPeer'[i].block>> \notin asked
    <3>1. i + 1 \in 1 .. Len(fromPeer) /\ i + 1 # 1 /\ fromPeer'[i] = fromPeer[i + 1]
      BY <1>1
    <3>2. fromPeer[i + 1].block # m.block
      BY <1>1, <1>3, <2>4, <3>1
    <3>3. fromPeer[i + 1] \in Message
      BY <3>1
    <3>4. fromPeer[i + 1].block \in Block
      BY <2>4, <3>1, <3>3 DEF Message, Blocky
    <3> QED
      BY <2>2, <2>4, <3>1, <3>2, <3>4
  <2>5. \A b \in Block : pc \in {"loop", "returned"} /\ BlocksState'[b] = "HAVE" => Piece'[b] = round
    BY <2>1, <2>2
  <2> QED
    BY <1>2, <2>3, <2>4, <2>5
<1>4. CASE UNCHANGED request
  BY <1>1, <1>2, <1>4
<1> QED
  BY <1>3, <1>4 DEF HandleMessage, Blocky

\* The peer puts a message behind the others, one it was asked for or one
\* that is no block.
LEMMA OwnAppend ==
  ASSUME TypeOK, OwnInv, NEW m \in Message, fromPeer' = Append(fromPeer, m),
         UNCHANGED <<pc, round, request>>, asked' \subseteq asked,
         Blocky(m) => <<m.round, m.block>> \in asked \ asked'
  PROVE  OwnInv'
<1> USE DEF TypeOK, OwnInv
<1> DEFINE n == Len(fromPeer)
<1>1. /\ n \in Nat /\ Len(fromPeer') = n + 1 /\ fromPeer'[n + 1] = m
      /\ \A i \in 1 .. n : fromPeer'[i] = fromPeer[i]
  OBVIOUS
<1>2. Blocky(m) => m.round = round /\ BlocksState[m.block] = "REQUESTED" /\ <<round, m.block>> \notin asked'
  <2>1. ASSUME NEW q \in asked, q = <<m.round, m.block>>
        PROVE  m.round = round /\ BlocksState[m.block] = "REQUESTED"
    BY <2>1
  <2> QED
    BY <2>1
<1>3. \A i \in 1 .. n : Blocky(m) /\ Blocky(fromPeer[i]) => fromPeer[i].block # m.block
  BY <1>2
<1>4. \A i \in 1 .. n + 1 : i \in 1 .. n \/ i = n + 1
  BY <1>1
<1>5. \A i \in 1 .. Len(fromPeer') : Blocky(fromPeer'[i]) =>
        /\ fromPeer'[i].round = round
        /\ BlocksState[fromPeer'[i].block] = "REQUESTED"
        /\ <<round, fromPeer'[i].block>> \notin asked'
  BY <1>1, <1>2, <1>4, ZenonT(30)
<1>6. \A i, j \in 1 .. Len(fromPeer') :
        Blocky(fromPeer'[i]) /\ Blocky(fromPeer'[j]) /\ fromPeer'[i].block = fromPeer'[j].block => i = j
  BY <1>1, <1>3, <1>4
<1> QED
  BY <1>5, <1>6

LEMMA OwnStep ==
  ASSUME IInv, strays = 0 => OwnInv, [Next]_vars, strays' = 0
  PROVE  OwnInv'
<1> USE DEF IInv
<1>1. OwnInv
  BY DEF Next, Client, RemotePeer, ReadIdle, getPiece, requestBlock, ReadAndHandleMessage, ReadTimeout,
    ConnectionLost, ReadFails, Return, UsePiece, PeerAnswers, PeerUnchokes, PeerChokes,
    PeerStrays, PeerTalks, vars, remote, TypeOK
<1>2. CASE ReadIdle \/ ReadAndHandleMessage
  BY <1>1, <1>2, OwnRead DEF ReadIdle, ReadAndHandleMessage, remote
<1>3. CASE getPiece
  <2>1. \A b \in Block : BlocksState[b] # "REQUESTED"
    BY <1>3 DEF getPiece, CountInv, Requested, InState
  <2>2. asked = {}
    <3>1. \A q \in asked : q[2] \in Block
      BY DEF TypeOK
    <3> QED
      BY <1>1, <2>1, <3>1 DEF OwnInv
  <2>3. \A i \in 1 .. Len(fromPeer) : ~Blocky(fromPeer[i])
    <3>1. ASSUME NEW i \in 1 .. Len(fromPeer), Blocky(fromPeer[i]) PROVE FALSE
      <4>1. fromPeer[i] \in Message
        BY DEF TypeOK
      <4>2. fromPeer[i].block \in Block
        BY <3>1, <4>1 DEF Message, Blocky
      <4> QED
        BY <1>1, <2>1, <3>1, <4>2 DEF OwnInv
    <3> QED
      BY <3>1
  <2>4. BlocksState' = [b \in Block |-> "NOT_REQUESTED"] /\ UNCHANGED <<asked, fromPeer>>
    BY <1>3 DEF getPiece, remote
  <2>5. \A b \in Block : BlocksState'[b] # "HAVE"
    BY <2>4
  <2> QED
    BY <2>2, <2>3, <2>4, <2>5 DEF OwnInv
<1>4. CASE requestBlock
  <2>1. nextRequest \in Block /\ BlocksState[nextRequest] # "REQUESTED"
    BY <1>4 DEF requestBlock, MayRequest, Block, TypeOK, CountInv, Requested, InState
  <2>2. /\ BlocksState' = [BlocksState EXCEPT ![nextRequest] = "REQUESTED"]
        /\ asked' \subseteq asked \cup {<<round, nextRequest>>}
        /\ UNCHANGED <<pc, round, Piece, fromPeer>>
    BY <1>4 DEF requestBlock
  <2>3. \A q \in asked' : q[1] = round /\ BlocksState'[q[2]] = "REQUESTED"
    <3>1. TAKE q \in asked'
    <3>2. CASE q \in asked
      <4>1. q[2] \in Block /\ q[1] = round /\ BlocksState[q[2]] = "REQUESTED"
        BY <1>1, <3>2 DEF OwnInv, TypeOK
      <4> QED
        BY <2>1, <2>2, <4>1 DEF TypeOK
    <3>3. CASE q = <<round, nextRequest>>
      BY <2>1, <2>2, <3>3 DEF TypeOK
    <3> QED
      BY <2>2, <3>2, <3>3
  <2>4. ASSUME NEW i \in 1 .. Len(fromPeer), Blocky(fromPeer[i])
        PROVE  /\ fromPeer[i].round = round
               /\ BlocksState'[fromPeer[i].block] = "REQUESTED"
               /\ <<round, fromPeer[i].block>> \notin asked'
    <3>1. fromPeer[i] \in Message
      BY DEF TypeOK
    <3>2. fromPeer[i].block \in Block
      BY <2>4, <3>1 DEF Message, Blocky
    <3>3. fromPeer[i].round = round /\ BlocksState[fromPeer[i].block] = "REQUESTED" /\ <<round, fromPeer[i].block>> \notin asked
      BY <1>1, <2>4 DEF OwnInv
    <3>4. fromPeer[i].block # nextRequest
      BY <2>1, <3>3
    <3> QED
      BY <2>1, <2>2, <3>2, <3>3, <3>4 DEF TypeOK
  <2>5. \A b \in Block : BlocksState'[b] = "HAVE" => BlocksState[b] = "HAVE"
    BY <2>1, <2>2 DEF TypeOK
  <2> QED
    BY <1>1, <2>2, <2>3, <2>4, <2>5 DEF OwnInv
<1>5. CASE ReadFails \/ Return \/ UsePiece
  <2>1. UNCHANGED <<round, BlocksState, Piece, fromPeer, asked>>
    BY <1>5 DEF ReadFails, Return, UsePiece
  <2>2. pc' \in {"loop", "returned"} => pc \in {"loop", "returned"}
    BY <1>5 DEF ReadFails, Return, UsePiece
  <2> QED
    BY <1>1, <2>1, <2>2 DEF OwnInv
<1>6. CASE PeerAnswers
  <2>1. PICK q \in asked : /\ asked' = asked \ {q}
                          /\ fromPeer' = Append(fromPeer, PieceMessage(q[1], q[2]))
    BY <1>6 DEF PeerAnswers
  <2>2. q = <<q[1], q[2]>> /\ PieceMessage(q[1], q[2]) \in Message
    BY DEF PieceMessage, Message, TypeOK
  <2>3. <<PieceMessage(q[1], q[2]).round, PieceMessage(q[1], q[2]).block>> = q
    BY <2>2 DEF PieceMessage
  <2>4. UNCHANGED <<pc, round, request>>
    BY <1>6 DEF PeerAnswers
  <2> QED
    BY <1>1, <2>1, <2>2, <2>3, <2>4, OwnAppend
<1>7. CASE PeerUnchokes \/ PeerChokes \/ PeerTalks
  <2>1. PICK m \in [type : {"choke", "unchoke", "other", "unknown"}] : fromPeer' = Append(fromPeer, m)
    BY <1>7 DEF PeerUnchokes, PeerChokes, PeerTalks
  <2>2. m \in Message /\ ~Blocky(m)
    BY DEF Message, Blocky
  <2>3. UNCHANGED <<pc, round, request>> /\ asked' \subseteq asked
    BY <1>7 DEF PeerUnchokes, PeerChokes, PeerTalks, remote
  <2> QED
    BY <1>1, <2>1, <2>2, <2>3, OwnAppend
<1>8. ~PeerStrays
  BY DEF PeerStrays, TypeOK
<1>9. CASE UNCHANGED vars
  BY <1>1, <1>9 DEF vars, remote, OwnInv
<1> QED
  BY <1>2, <1>3, <1>4, <1>5, <1>6, <1>7, <1>8, <1>9
  DEF Next, Client, RemotePeer, ReadTimeout, ConnectionLost

\* A peer that sends nothing unasked cannot make getPiece mix two pieces,
\* however it orders its answers and drops them when it chokes (509-519).
THEOREM PiecesAreOwn == Spec => []ReturnsOwnBlocks
<1> DEFINE Own == strays = 0 => OwnInv
<1>1. Init => Own
  BY DEF Init, OwnInv
<1>2. IInv /\ Own /\ [Next]_vars => Own'
  BY OwnStep
<1>3. ReturnsWhole /\ Own => ReturnsOwnBlocks
  BY DEF ReturnsWhole, OwnInv, ReturnsOwnBlocks, InState
<1> QED
  BY <1>1, <1>2, <1>3, IInvHolds, PiecesAreWhole, PTL DEF Spec

-----------------------------------------------------------------------------
(***************************************************************************)
(* The window of getPiece: the REQUESTED blocks exceed it by at most one    *)
(* for each block the peer has sent unasked.                                *)
(*                                                                         *)
(* BlocksRequesting counts down for every block that is read, so it falls   *)
(* behind the REQUESTED blocks by each block that arrives for nothing.  To  *)
(* bound that, what is under way is counted too: a request or a block under *)
(* way will take one off the count when it is read.                         *)
(***************************************************************************)

\* the positions of blocks in a stream of messages
BlocksIn(s) == {i \in 1 .. Len(s) : Blocky(s[i])}

Awaited(b) ==
    \/ \E q \in asked : q[2] = b
    \/ \E i \in BlocksIn(fromPeer) : fromPeer[i].block = b

\* REQUESTED blocks for which nothing is under way: the peer dropped them
Dropped == {b \in Requested : ~Awaited(b)}

UnderWay == Cardinality(asked) + Cardinality(BlocksIn(fromPeer))

WindowInv ==
    /\ BlocksRequesting <= MaxQueuedRequests
    /\ UnderWay + Cardinality(Dropped) <= BlocksRequesting + strays

-----------------------------------------------------------------------------
(* Counting.                                                                *)

LEMMA FiniteAsked ==
  ASSUME NEW a, a \subseteq (1 .. MaxPieces) \X Block
  PROVE  IsFiniteSet(a) /\ Cardinality(a) \in Nat
<1>1. IsFiniteSet(1 .. MaxPieces) /\ IsFiniteSet(Block)
  BY FS_Interval DEF Block
<1>2. IsFiniteSet((1 .. MaxPieces) \X Block)
  BY <1>1, FS_Product
<1>3. IsFiniteSet(a)
  BY <1>2, FS_Subset
<1> QED
  BY <1>3, FS_CardinalityType

LEMMA FiniteBlocks ==
  ASSUME NEW a, a \subseteq Block
  PROVE  IsFiniteSet(a) /\ Cardinality(a) \in Nat
<1>1. IsFiniteSet(Block)
  BY FS_Interval DEF Block
<1>2. IsFiniteSet(a)
  BY <1>1, FS_Subset
<1> QED
  BY <1>2, FS_CardinalityType

LEMMA FinitePositions ==
  ASSUME NEW s \in Seq(Message)
  PROVE  IsFiniteSet(BlocksIn(s)) /\ Cardinality(BlocksIn(s)) \in Nat
<1>1. Len(s) \in Nat
  OBVIOUS
<1>2. IsFiniteSet(1 .. Len(s))
  BY <1>1, FS_Interval
<1>3. IsFiniteSet(BlocksIn(s))
  BY <1>2, FS_Subset DEF BlocksIn
<1> QED
  BY <1>3, FS_CardinalityType

\* The image of a function has no more elements than its domain.
LEMMA ImageCardinality ==
  ASSUME NEW S, IsFiniteSet(S), NEW T, NEW f \in [S -> T],
         \A y \in T : \E x \in S : f[x] = y
  PROVE  IsFiniteSet(T) /\ Cardinality(T) <= Cardinality(S)
<1>1. f \in Surjection(S, T)
  BY DEF Surjection
<1> QED
  BY <1>1, FS_Surjection

LEMMA UnionCardinality ==
  ASSUME NEW S, NEW T, IsFiniteSet(S), IsFiniteSet(T)
  PROVE  /\ IsFiniteSet(S \cup T)
         /\ Cardinality(S) \in Nat /\ Cardinality(T) \in Nat /\ Cardinality(S \cup T) \in Nat
         /\ Cardinality(S \cup T) <= Cardinality(S) + Cardinality(T)
<1>1. /\ IsFiniteSet(S \cup T)
      /\ Cardinality(S \cup T) = Cardinality(S) + Cardinality(T) - Cardinality(S \cap T)
  BY FS_Union
<1>2. IsFiniteSet(S \cap T)
  BY FS_Intersection
<1>3. /\ Cardinality(S) \in Nat /\ Cardinality(T) \in Nat /\ Cardinality(S \cap T) \in Nat
      /\ Cardinality(S \cup T) \in Nat
  BY <1>1, <1>2, FS_CardinalityType
<1> QED
  BY <1>1, <1>3

LEMMA CountAppended ==
  ASSUME NEW s \in Seq(Message), NEW m \in Message
  PROVE  Cardinality(BlocksIn(Append(s, m))) = Cardinality(BlocksIn(s)) + (IF Blocky(m) THEN 1 ELSE 0)
<1> DEFINE n == Len(s)
           t == Append(s, m)
<1>1. n \in Nat /\ Len(t) = n + 1 /\ t[n + 1] = m /\ \A i \in 1 .. n : t[i] = s[i]
  OBVIOUS
<1>2. n + 1 \notin BlocksIn(s)
  BY <1>1 DEF BlocksIn
<1> HIDE DEF t
<1>3. BlocksIn(t) = IF Blocky(m) THEN BlocksIn(s) \cup {n + 1} ELSE BlocksIn(s)
  <2>1. \A i : i \in 1 .. n + 1 <=> i \in 1 .. n \/ i = n + 1
    BY <1>1
  <2> HIDE DEF n
  <2>2. \A i : i \in BlocksIn(t) <=> i \in BlocksIn(s) \/ (i = n + 1 /\ Blocky(m))
    BY <1>1, <2>1 DEF BlocksIn, n
  <2> QED
    BY <2>2
<1>4. IsFiniteSet(BlocksIn(s)) /\ Cardinality(BlocksIn(s)) \in Nat
  BY FinitePositions
<1>5. Cardinality(BlocksIn(s) \cup {n + 1}) = Cardinality(BlocksIn(s)) + 1
  BY <1>2, <1>4, FS_AddElement
<1> QED
  BY <1>3, <1>4, <1>5 DEF t

LEMMA CountTail ==
  ASSUME NEW s \in Seq(Message), s # <<>>
  PROVE  Cardinality(BlocksIn(Tail(s))) = Cardinality(BlocksIn(s)) - (IF Blocky(Head(s)) THEN 1 ELSE 0)
<1> DEFINE t == Tail(s)
           rest == BlocksIn(s) \ {1}
           f == [i \in BlocksIn(t) |-> i + 1]
<1>1. /\ t \in Seq(Message) /\ Len(s) \in Nat \ {0} /\ Len(t) = Len(s) - 1
      /\ \A i \in 1 .. Len(s) - 1 : t[i] = s[i + 1]
      /\ Head(s) = s[1]
  OBVIOUS
<1>2. IsFiniteSet(BlocksIn(t))
  BY <1>1, FinitePositions
<1> HIDE DEF t
<1>3. \A i \in BlocksIn(t) : i \in Nat /\ f[i] \in rest /\ f[i] = i + 1
  BY <1>1 DEF BlocksIn
<1>4. ASSUME NEW j \in rest PROVE \E i \in BlocksIn(t) : f[i] = j
  <2>1. j - 1 \in BlocksIn(t)
    BY <1>1 DEF BlocksIn
  <2>2. f[j - 1] = j
    BY <1>3, <2>1 DEF BlocksIn
  <2> QED
    BY <2>1, <2>2
<1>5. f \in [BlocksIn(t) -> rest]
  BY <1>3
<1> HIDE DEF f, rest
<1>6. f \in Bijection(BlocksIn(t), rest)
  BY <1>3, <1>4, <1>5 DEF Bijection, Injection, Surjection, IsInjective
<1>7. Cardinality(rest) = Cardinality(BlocksIn(t))
  BY <1>2, <1>6, FS_Bijection DEF ExistsBijection
<1>8. IsFiniteSet(BlocksIn(s)) /\ Cardinality(BlocksIn(s)) \in Nat
  BY FinitePositions
<1>9. 1 \in BlocksIn(s) <=> Blocky(Head(s))
  BY <1>1 DEF BlocksIn
<1>10. Cardinality(rest) = Cardinality(BlocksIn(s)) - (IF Blocky(Head(s)) THEN 1 ELSE 0)
  <2>1. CASE 1 \in BlocksIn(s)
    BY <1>8, <1>9, <2>1, FS_RemoveElement DEF rest
  <2>2. CASE 1 \notin BlocksIn(s)
    <3>1. rest = BlocksIn(s)
      BY <2>2 DEF rest
    <3> QED
      BY <1>8, <1>9, <2>2, <3>1
  <2> QED
    BY <2>1, <2>2
<1> QED
  BY <1>7, <1>10 DEF t

-----------------------------------------------------------------------------
(* The invariant.                                                           *)

LEMMA DroppedFinite ==
  IsFiniteSet(Dropped) /\ Cardinality(Dropped) \in Nat
BY FiniteBlocks DEF Dropped, Requested, InState

LEMMA UnderWayFinite ==
  ASSUME TypeOK
  PROVE  /\ IsFiniteSet(asked) /\ Cardinality(asked) \in Nat
         /\ Cardinality(BlocksIn(fromPeer)) \in Nat
         /\ fromPeer \in Seq(Message) /\ BlocksRequesting \in Int /\ strays \in Nat
BY FiniteAsked, FinitePositions DEF TypeOK

\* Every REQUESTED block is dropped or has something under way.
LEMMA RequestedIsUnderWay ==
  ASSUME TypeOK
  PROVE  Cardinality(Requested) <= UnderWay + Cardinality(Dropped)
<1> DEFINE A == {q[2] : q \in asked}
           B == {fromPeer[i].block : i \in BlocksIn(fromPeer)}
<1>1. IsFiniteSet(A) /\ Cardinality(A) <= Cardinality(asked)
  <2> DEFINE f == [q \in asked |-> q[2]]
  <2>1. f \in [asked -> A] /\ \A y \in A : \E q \in asked : f[q] = y
    OBVIOUS
  <2> HIDE DEF A, f
  <2> QED
    BY ONLY <2>1, ImageCardinality, UnderWayFinite, TypeOK
<1>2. IsFiniteSet(B) /\ Cardinality(B) <= Cardinality(BlocksIn(fromPeer))
  <2> DEFINE g == [i \in BlocksIn(fromPeer) |-> fromPeer[i].block]
  <2>1. g \in [BlocksIn(fromPeer) -> B] /\ \A y \in B : \E i \in BlocksIn(fromPeer) : g[i] = y
    OBVIOUS
  <2>2. IsFiniteSet(BlocksIn(fromPeer))
    BY FinitePositions DEF TypeOK
  <2> HIDE DEF B, g
  <2> QED
    BY ONLY <2>1, <2>2, ImageCardinality
<1>3. Requested \subseteq (A \cup B) \cup Dropped
  BY DEF Dropped, Awaited
<1> HIDE DEF A, B
<1>4. /\ IsFiniteSet(A \cup B)
      /\ Cardinality(A \cup B) <= Cardinality(A) + Cardinality(B)
  BY ONLY <1>1, <1>2, UnionCardinality
<1>5. /\ IsFiniteSet((A \cup B) \cup Dropped)
      /\ Cardinality((A \cup B) \cup Dropped) <= Cardinality(A \cup B) + Cardinality(Dropped)
  BY ONLY <1>4, DroppedFinite, UnionCardinality
<1>6. Cardinality(Requested) <= Cardinality((A \cup B) \cup Dropped)
  BY <1>3, <1>5, FS_Subset
<1>7. /\ Cardinality(A) \in Nat /\ Cardinality(B) \in Nat /\ Cardinality(A \cup B) \in Nat
      /\ Cardinality((A \cup B) \cup Dropped) \in Nat /\ Cardinality(Requested) \in Nat
  BY <1>1, <1>2, <1>4, <1>5, RequestedFinite, FS_CardinalityType
<1> QED
  BY <1>1, <1>2, <1>4, <1>5, <1>6, <1>7, DroppedFinite, UnderWayFinite DEF UnderWay

\* Reading a block takes one off the count and one from what is under way, and
\* what was dropped stays so unless the block arrives.
LEMMA WindowRead ==
  ASSUME TypeOK, WindowInv, fromPeer # <<>>, HandleMessage(Head(fromPeer)),
         fromPeer' = Tail(fromPeer), UNCHANGED <<asked, strays>>
  PROVE  WindowInv'
<1> DEFINE m == Head(fromPeer)
<1>1. /\ fromPeer \in Seq(Message) /\ m = fromPeer[1] /\ m \in Message /\ 1 \in 1 .. Len(fromPeer)
      /\ \A i \in 1 .. Len(fromPeer') : i + 1 \in 1 .. Len(fromPeer) /\ fromPeer'[i] = fromPeer[i + 1]
  BY TailOfMessages DEF TypeOK
<1>2. Cardinality(BlocksIn(fromPeer')) = Cardinality(BlocksIn(fromPeer)) - (IF Blocky(m) THEN 1 ELSE 0)
  BY <1>1, CountTail
<1>3. \A i \in BlocksIn(fromPeer) : i # 1 =>
         \E j \in BlocksIn(fromPeer') : fromPeer'[j] = fromPeer[i]
  <2>1. TAKE i \in BlocksIn(fromPeer)
  <2>2. ASSUME i # 1 PROVE i - 1 \in BlocksIn(fromPeer') /\ fromPeer'[i - 1] = fromPeer[i]
    BY <1>1, <2>2, TailOfMessages DEF BlocksIn
  <2> QED
    BY <2>2
<1>4. Dropped' \subseteq Dropped
  <2> SUFFICES ASSUME NEW b \in Dropped' PROVE b \in Dropped
    OBVIOUS
  <2>1. b \in Requested' /\ ~Awaited(b)'
    BY DEF Dropped
  <2>2. b \in Requested /\ (Blocky(m) => b # m.block)
    BY <1>1, <2>1 DEF HandleMessage, handlePiece, Blocky, Requested, InState, TypeOK, Message
  <2>3. ~Awaited(b)
    BY <1>1, <1>3, <2>1, <2>2 DEF Awaited, BlocksIn
  <2> QED
    BY <2>2, <2>3 DEF Dropped
<1>5. Cardinality(Dropped') <= Cardinality(Dropped) /\ Cardinality(Dropped') \in Nat
  BY <1>4, DroppedFinite, FS_Subset, FS_CardinalityType
<1>6. BlocksRequesting' = BlocksRequesting - (IF Blocky(m) THEN 1 ELSE 0)
  BY <1>1 DEF HandleMessage, handlePiece, Blocky, TypeOK
<1> QED
  BY <1>2, <1>5, <1>6, UnderWayFinite, DroppedFinite, SMTT(30) DEF WindowInv, UnderWay

\* A message put behind the others: the blocks under way stay so, and the
\* block of the message joins them.
LEMMA AwaitedAppend ==
  ASSUME TypeOK, NEW m \in Message, fromPeer' = Append(fromPeer, m), NEW b,
         \/ \E i \in BlocksIn(fromPeer) : fromPeer[i].block = b
         \/ Blocky(m) /\ m.block = b
  PROVE  Awaited(b)'
<1> DEFINE n == Len(fromPeer)
<1>1. /\ n \in Nat /\ Len(fromPeer') = n + 1 /\ fromPeer'[n + 1] = m
      /\ \A i \in 1 .. n : fromPeer'[i] = fromPeer[i]
  BY DEF TypeOK
<1>2. CASE \E i \in BlocksIn(fromPeer) : fromPeer[i].block = b
  <2>1. PICK i \in BlocksIn(fromPeer) : fromPeer[i].block = b
    BY <1>2
  <2>2. i \in BlocksIn(fromPeer') /\ fromPeer'[i].block = b
    BY <1>1, <2>1 DEF BlocksIn
  <2> QED
    BY <2>2 DEF Awaited
<1>3. CASE Blocky(m) /\ m.block = b
  <2>1. n + 1 \in BlocksIn(fromPeer') /\ fromPeer'[n + 1].block = b
    BY <1>1, <1>3 DEF BlocksIn
  <2> QED
    BY <2>1 DEF Awaited
<1> QED
  BY <1>2, <1>3

\* A request takes one place in the window, whether the peer takes it or
\* drops it.
LEMMA WindowRequest ==
  ASSUME IInv, WindowInv, requestBlock
  PROVE  WindowInv'
<1> USE DEF IInv
\* the request and its block as they are before the step
<1>0. PICK q, next : q = <<round, nextRequest>> /\ next = nextRequest
  OBVIOUS
<1>1. /\ nextRequest \in Block
      /\ BlocksState' = [BlocksState EXCEPT ![nextRequest] = "REQUESTED"]
      /\ BlocksRequesting' = BlocksRequesting + 1
      /\ BlocksRequesting < MaxQueuedRequests
      /\ UNCHANGED <<fromPeer, strays>>
      /\ asked' = (IF peerChoking THEN asked ELSE asked \cup {q})
  BY <1>0 DEF requestBlock, MayRequest, Block, TypeOK
<1>2. Requested' \subseteq Requested \cup {next}
  BY <1>0, <1>1 DEF Requested, InState, TypeOK
<1>3. \A b : Awaited(b) => Awaited(b)'
  BY <1>1 DEF Awaited
<1>4. CASE peerChoking
  <2>1. Dropped' \subseteq Dropped \cup {next} /\ asked' = asked
    BY <1>1, <1>2, <1>3, <1>4 DEF Dropped
  <2>2. IsFiniteSet({next}) /\ Cardinality({next}) = 1
    BY FS_Singleton
  <2>3. /\ IsFiniteSet(Dropped \cup {next})
        /\ Cardinality(Dropped \cup {next}) <= Cardinality(Dropped) + 1
    BY <2>2, DroppedFinite, UnionCardinality
  <2>4. /\ Cardinality(Dropped') <= Cardinality(Dropped \cup {next})
        /\ Cardinality(Dropped') \in Nat /\ Cardinality(Dropped \cup {next}) \in Nat
    BY <2>1, <2>3, FS_Subset, FS_CardinalityType
  <2>5. UnderWay' = UnderWay
    BY <1>1, <2>1 DEF UnderWay
  <2>6. UnderWay \in Int /\ BlocksRequesting \in Int /\ strays \in Nat /\ Cardinality(Dropped) \in Nat
    BY DroppedFinite, UnderWayFinite DEF UnderWay
  <2> QED
    BY <1>1, <2>3, <2>4, <2>5, <2>6 DEF WindowInv
<1>5. CASE ~peerChoking
  <2>1. asked' = asked \cup {q}
    BY <1>1, <1>5
  <2>2. Awaited(next)'
    <3>1. q \in asked' /\ q[2] = next
      BY <1>0, <2>1
    <3> QED
      BY <3>1 DEF Awaited
  <2>3. Dropped' \subseteq Dropped
    BY <1>2, <1>3, <2>2 DEF Dropped
  <2>4. Cardinality(Dropped') <= Cardinality(Dropped) /\ Cardinality(Dropped') \in Nat
    BY <2>3, DroppedFinite, FS_Subset, FS_CardinalityType
  <2>5. IsFiniteSet({q}) /\ Cardinality({q}) = 1
    BY FS_Singleton
  <2>6. Cardinality(asked') <= Cardinality(asked) + 1 /\ Cardinality(asked') \in Nat
    BY <2>1, <2>5, UnderWayFinite, UnionCardinality
  <2> QED
    BY <1>1, <2>4, <2>6, DroppedFinite, UnderWayFinite, SMTT(30) DEF WindowInv, UnderWay
<1> QED
  BY <1>4, <1>5

\* An answer turns a request under way into a block under way.
LEMMA WindowAnswer ==
  ASSUME IInv, WindowInv, PeerAnswers
  PROVE  WindowInv'
<1> USE DEF IInv
<1>1. PICK q \in asked : /\ asked' = asked \ {q}
                        /\ fromPeer' = Append(fromPeer, PieceMessage(q[1], q[2]))
  BY DEF PeerAnswers
<1> DEFINE m == PieceMessage(q[1], q[2])
<1>2. m \in Message /\ Blocky(m) /\ m.block = q[2] /\ fromPeer \in Seq(Message)
  BY DEF PieceMessage, Message, TypeOK, Blocky
<1>3. UNCHANGED <<request, strays>>
  BY DEF PeerAnswers
<1>4. ASSUME NEW b, Awaited(b) PROVE Awaited(b)'
  <2>1. CASE \E p \in asked : p[2] = b /\ p # q
    BY <1>1, <2>1 DEF Awaited
  <2>2. CASE q[2] = b \/ \E i \in BlocksIn(fromPeer) : fromPeer[i].block = b
    <3> HIDE DEF m
    <3> QED
      BY <1>1, <1>2, <2>2, AwaitedAppend DEF m
  <2> QED
    BY <1>4, <2>1, <2>2 DEF Awaited
<1>5. Dropped' \subseteq Dropped
  BY <1>3, <1>4 DEF Dropped, Requested, InState
<1>6. Cardinality(Dropped') <= Cardinality(Dropped) /\ Cardinality(Dropped') \in Nat
  BY <1>5, DroppedFinite, FS_Subset, FS_CardinalityType
<1>7. Cardinality(asked') = Cardinality(asked) - 1
  BY <1>1, UnderWayFinite, FS_RemoveElement
<1> HIDE DEF m
<1>8. Cardinality(BlocksIn(fromPeer')) = Cardinality(BlocksIn(fromPeer)) + 1
  BY <1>1, <1>2, CountAppended DEF m
<1> QED
  BY <1>3, <1>6, <1>7, <1>8, DroppedFinite, UnderWayFinite, SMTT(30) DEF WindowInv, UnderWay

\* What the peer drops when it chokes moves from the requests to the dropped.
LEMMA WindowChoke ==
  ASSUME IInv, WindowInv, NEW m \in Message, ~Blocky(m), fromPeer' = Append(fromPeer, m),
         asked' \subseteq asked, UNCHANGED <<request, strays>>
  PROVE  WindowInv'
<1> USE DEF IInv
<1> DEFINE gone == asked \ asked'
           G == {q[2] : q \in gone}
<1>1. /\ IsFiniteSet(gone) /\ IsFiniteSet(asked') /\ IsFiniteSet(asked)
      /\ Cardinality(gone) = Cardinality(asked) - Cardinality(asked')
      /\ Cardinality(asked') \in Nat /\ Cardinality(gone) \in Nat
  <2>1. IsFiniteSet(asked) /\ IsFiniteSet(asked') /\ IsFiniteSet(gone)
    BY UnderWayFinite, FS_Subset
  <2>2. asked \cap asked' = asked'
    OBVIOUS
  <2>3. Cardinality(gone) = Cardinality(asked) - Cardinality(asked \cap asked')
    BY <2>1, FS_Difference
  <2>4. Cardinality(asked') \in Nat /\ Cardinality(gone) \in Nat
    BY <2>1, FS_CardinalityType
  <2> QED
    BY <2>1, <2>2, <2>3, <2>4
<1>2. IsFiniteSet(G) /\ Cardinality(G) <= Cardinality(gone)
  <2> DEFINE f == [q \in gone |-> q[2]]
  <2>1. f \in [gone -> G] /\ \A y \in G : \E q \in gone : f[q] = y
    OBVIOUS
  <2> HIDE DEF G, f, gone
  <2> QED
    BY ONLY <1>1, <2>1, ImageCardinality
<1>3. Dropped' \subseteq Dropped \cup G
  <2> SUFFICES ASSUME NEW b \in Dropped', b \notin G PROVE b \in Dropped
    OBVIOUS
  <2>1. b \in Requested /\ ~Awaited(b)'
    BY DEF Dropped, Requested, InState
  <2>2. ~\E i \in BlocksIn(fromPeer) : fromPeer[i].block = b
    BY <2>1, AwaitedAppend
  <2>3. ~\E q \in asked : q[2] = b
    BY <2>1 DEF Awaited
  <2> QED
    BY <2>1, <2>2, <2>3 DEF Dropped, Awaited
<1> HIDE DEF G, gone
<1>4. /\ IsFiniteSet(Dropped \cup G) /\ Cardinality(G) \in Nat /\ Cardinality(Dropped \cup G) \in Nat
      /\ Cardinality(Dropped \cup G) <= Cardinality(Dropped) + Cardinality(G)
  BY ONLY <1>2, DroppedFinite, UnionCardinality
<1>5. Cardinality(Dropped') <= Cardinality(Dropped \cup G) /\ Cardinality(Dropped') \in Nat
  BY <1>3, <1>4, FS_Subset, FS_CardinalityType
<1>6. Cardinality(BlocksIn(fromPeer')) = Cardinality(BlocksIn(fromPeer))
  BY CountAppended, UnderWayFinite
<1> QED
  BY <1>1, <1>2, <1>4, <1>5, <1>6, DroppedFinite, UnderWayFinite, SMTT(30) DEF WindowInv, UnderWay

\* A block sent unasked is one more under way and one more stray.
LEMMA WindowStray ==
  ASSUME IInv, WindowInv, PeerStrays
  PROVE  WindowInv'
<1> USE DEF IInv
<1>1. PICK r \in 1 .. round, b \in Block : fromPeer' = Append(fromPeer, PieceMessage(r, b))
  BY DEF PeerStrays
<1> DEFINE m == PieceMessage(r, b)
<1>2. m \in Message /\ Blocky(m) /\ fromPeer \in Seq(Message)
  BY <1>1 DEF PieceMessage, Message, TypeOK, Blocky
<1>3. UNCHANGED <<request, asked>> /\ strays' = strays + 1
  BY DEF PeerStrays
<1> HIDE DEF m
<1>4. Dropped' \subseteq Dropped
  <2>1. ASSUME NEW c, Awaited(c) PROVE Awaited(c)'
    BY <1>1, <1>2, <1>3, <2>1, AwaitedAppend DEF Awaited, m
  <2> QED
    BY <1>3, <2>1 DEF Dropped, Requested, InState
<1>5. Cardinality(Dropped') <= Cardinality(Dropped) /\ Cardinality(Dropped') \in Nat
  BY <1>4, DroppedFinite, FS_Subset, FS_CardinalityType
<1>6. Cardinality(BlocksIn(fromPeer')) = Cardinality(BlocksIn(fromPeer)) + 1
  BY <1>1, <1>2, CountAppended DEF m
<1> QED
  BY <1>3, <1>5, <1>6, DroppedFinite, UnderWayFinite, SMTT(30) DEF WindowInv, UnderWay

LEMMA WindowStep == ASSUME IInv, WindowInv, [Next]_vars PROVE WindowInv'
<1> USE DEF IInv
<1>1. CASE ReadIdle \/ ReadAndHandleMessage
  BY <1>1, WindowRead DEF ReadIdle, ReadAndHandleMessage, remote
<1>2. CASE getPiece
  <2>1. Dropped = {} /\ Dropped' = {}
    BY <1>2 DEF getPiece, CountInv, Dropped, Requested, InState
  <2>2. UNCHANGED <<BlocksRequesting, strays, asked, fromPeer>>
    BY <1>2 DEF getPiece
  <2> QED
    BY <2>1, <2>2 DEF WindowInv, UnderWay
<1>3. CASE PeerUnchokes \/ PeerChokes \/ PeerTalks
  <2>1. PICK m \in [type : {"choke", "unchoke", "other", "unknown"}] : fromPeer' = Append(fromPeer, m)
    BY <1>3 DEF PeerUnchokes, PeerChokes, PeerTalks
  <2>2. m \in Message /\ ~Blocky(m)
    BY DEF Message, Blocky
  <2>3. UNCHANGED <<request, strays>> /\ asked' \subseteq asked
    BY <1>3 DEF PeerUnchokes, PeerChokes, PeerTalks, remote
  <2> QED
    BY <2>1, <2>2, <2>3, WindowChoke
<1>4. CASE ReadFails \/ Return \/ UsePiece \/ UNCHANGED vars
  <2>1. UNCHANGED <<BlocksState, BlocksRequesting, strays, asked, fromPeer>>
    BY <1>4 DEF ReadFails, Return, UsePiece, vars
  <2> QED
    BY <2>1 DEF WindowInv, UnderWay, Dropped, Awaited, Requested, InState
<1> QED
  BY <1>1, <1>2, <1>3, <1>4, WindowRequest, WindowAnswer, WindowStray
  DEF Next, Client, RemotePeer, ReadTimeout, ConnectionLost

LEMMA WindowInit == Init => WindowInv
<1> SUFFICES ASSUME Init PROVE WindowInv
  OBVIOUS
<1>1. asked = {} /\ BlocksIn(fromPeer) = {} /\ Dropped = {} /\ BlocksRequesting = 0 /\ strays = 0
  BY DEF Init, BlocksIn, Dropped, Requested, InState
<1>2. Cardinality({}) = 0
  BY FS_EmptySet
<1>3. UnderWay = 0 /\ Cardinality(Dropped) = 0
  BY <1>1, <1>2 DEF UnderWay
<1> QED
  BY <1>1, <1>3 DEF WindowInv

\* getPiece (541-558) has at most MaxQueuedRequests blocks outstanding, and one
\* more for each block the peer has sent unasked: the drift of
\* BlocksRequesting, which handlePiece counts down for every block, goes no
\* further, for every window, piece and order of messages.
THEOREM WindowIsBounded == Spec => []WindowBound
<1>1. IInv /\ WindowInv => WindowBound
  <2> SUFFICES ASSUME IInv, WindowInv PROVE WindowBound
    OBVIOUS
  <2>1. Cardinality(Requested) <= UnderWay + Cardinality(Dropped)
    BY RequestedIsUnderWay DEF IInv
  <2>2. UnderWay + Cardinality(Dropped) <= MaxQueuedRequests + strays
    BY UnderWayFinite, DroppedFinite, SMTT(30) DEF WindowInv, UnderWay, IInv
  <2>3. UnderWay \in Int /\ Cardinality(Dropped) \in Nat /\ Cardinality(Requested) \in Nat /\ strays \in Nat
    BY UnderWayFinite, DroppedFinite, RequestedFinite DEF UnderWay, IInv
  <2> QED
    BY <2>1, <2>2, <2>3 DEF WindowBound, Requested
<1> QED
  BY <1>1, WindowInit, WindowStep, IInvHolds, PTL DEF Spec
=============================================================================
