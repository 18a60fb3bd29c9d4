------------------------ MODULE MagnetDownloadProofs ------------------------
(***************************************************************************)
(* A session starts with the right metadata only, an answer holds the peers *)
(* its tracker announced, and only pieces of the buffer are asked for, for  *)
(* any trackers, peers and messages.                                        *)
(***************************************************************************)
EXTENDS MagnetDownload, FiniteSetTheorems, TLAPS

-----------------------------------------------------------------------------
(* Metadata.                                                                *)

Known ==
    /\ ti # NoInfo => ti \in Metadata
    /\ pc \in {"fetch", "session"} => ti # NoInfo

\* Only VerifyMetadata sets ti; the steps that stay with a peer or a tracker
\* do not get to the session.
LEMMA KnownStep == Known /\ [Next]_vars => Known'
<1> SUFFICES ASSUME Known, [Next]_vars PROVE Known'
  OBVIOUS
<1> USE DEF Known
<1>1. CASE VerifyMetadata
  BY <1>1 DEF VerifyMetadata, GiveUp
<1>2. CASE GetLiveTrackerAddresses
  BY <1>2 DEF GetLiveTrackerAddresses
<1>3. CASE TakeAnswer
  BY <1>3 DEF TakeAnswer
<1>4. CASE GetPeers \/ StartSession
  BY <1>4 DEF GetPeers, StartSession, NewUDPTrackerConn
<1>5. CASE ParseMagnetUri \/ NextTracker \/ NoTracker \/ NextPeer \/ AwaitUnchoke
  BY <1>5 DEF ParseMagnetUri, NextTracker, NoTracker, NextPeer, AwaitUnchoke, NewUDPTrackerConn
<1>6. CASE getMetadata \/ RequestPiece \/ SendFails \/ NextPiece
  BY <1>6 DEF getMetadata, RequestPiece, SendFails, NextPiece, GiveUp
<1>7. CASE Asking
  BY <1>7 DEF Asking, Ask, ReadConnectAnswer, ReadAnnounceAnswer, ReadTimeout
<1>8. CASE ReadMessage
  BY <1>8 DEF ReadMessage, ReadFails, GiveUp
<1>9. CASE ReadNothing
  BY <1>9 DEF ReadNothing, ReadFails, GiveUp
<1>10. CASE Handshake \/ HandshakeFails
  BY <1>10 DEF Handshake, HandshakeFails, GiveUp
<1>11. CASE Environment
  BY <1>11 DEF Environment, TrackerAnswers, PeerSends, PeerCloses, SeedAnswers
<1>12. CASE UNCHANGED vars
  BY <1>12 DEF vars
<1> QED
  BY <1>1, <1>2, <1>3, <1>4, <1>5, <1>6, <1>7, <1>8, <1>9, <1>10, <1>11, <1>12 DEF Next, MagnetStep

\* downloadFromMagnet (main.go 72-80) starts a session with metadata whose
\* hash is the one of the link, whatever peers send.
THEOREM MetadataIsVerified == Spec => []MetadataVerified
<1>1. Init => Known
  BY DEF Init, Known
<1>2. Known => MetadataVerified
  BY DEF Known, MetadataVerified
<1> QED
  BY <1>1, <1>2, KnownStep, PTL DEF Spec

-----------------------------------------------------------------------------
(* Answers.                                                                 *)

\* what may be on the socket of a tracker
Datagram(t) == {ConnectAnswer(t), AnnounceAnswer(t)}
                 \cup {d \in {ErrorAnswer(8), ErrorAnswer(24)} : t \in Erring}

From(t) == ToSet(Announces[t]) \cup {x \in {Junk} : t \in Erring}

SocketOK ==
    /\ tracker \in Trackers
    /\ addrs \in Seq(Trackers)
    /\ datagrams \in Seq(Datagram(tracker))
    /\ ToSet(answer) \subseteq From(tracker)

LEMMA EmptyAnswer == ToSet(<<>>) = {}
BY DEF ToSet

LEMMA SixBytesEach ==
  ASSUME NEW n \in Nat, NEW l \in Int, l = 20 + 6 * n
  PROVE  ~(l < 20) /\ (l - 20) \div 6 = n
<1>1. PICK q \in Int : q = (6 * n) \div 6
  OBVIOUS
<1>2. 6 * q <= 6 * n /\ 6 * n < 6 * q + 6
  BY <1>1
<1>3. q = n
  BY <1>2
<1> QED
  BY <1>1, <1>3

\* What parseAnnounceResponse (tracker.go 153-176) makes of a datagram of t.
LEMMA ParsedFromTracker ==
  ASSUME NEW t \in Trackers, NEW d \in Datagram(t)
  PROVE  ToSet(parseAnnounceResponse(d)) \subseteq From(t)
<1>1. CASE d = ConnectAnswer(t)
  <2>1. parseAnnounceResponse(d) = <<>>
    BY <1>1 DEF ConnectAnswer, parseAnnounceResponse
  <2> QED
    BY <2>1, EmptyAnswer
<1>2. CASE d = AnnounceAnswer(t)
  <2> DEFINE n == Len(Announces[t])
             parsed == parseAnnounceResponse(d)
  <2>1. Announces[t] \in Seq(UNION {ToSet(Announces[u]) : u \in Trackers}) /\ n \in Nat
    BY MagnetAssumption
  <2>2. d.length = 20 + 6 * n /\ d.length \in Int /\ d.peers = Announces[t]
    BY <1>2, <2>1 DEF AnnounceAnswer
  <2>3. ~(d.length < 20) /\ (d.length - 20) \div 6 = n
    BY <2>1, <2>2, SixBytesEach
  <2>4. parsed = [k \in 1 .. n |-> IF k \in DOMAIN d.peers THEN d.peers[k] ELSE Junk]
    BY <2>3 DEF parseAnnounceResponse
  <2>5. DOMAIN Announces[t] = 1 .. n
    BY <2>1
  <2>6. \A k \in DOMAIN parsed : k \in DOMAIN Announces[t] /\ parsed[k] = Announces[t][k]
    BY <2>2, <2>4, <2>5
  <2> QED
    BY <2>6 DEF ToSet, From
<1>3. CASE t \in Erring /\ d \in {ErrorAnswer(8), ErrorAnswer(24)}
  <2>1. d.peers = <<>>
    BY <1>3 DEF ErrorAnswer
  <2>2. \A k \in DOMAIN parseAnnounceResponse(d) : parseAnnounceResponse(d)[k] = Junk
    BY <2>1 DEF parseAnnounceResponse
  <2> QED
    BY <1>3, <2>2 DEF ToSet, From
<1> QED
  BY <1>1, <1>2, <1>3 DEF Datagram

LEMMA NewSocket ==
  ASSUME NEW t \in Trackers, NewUDPTrackerConn(t)
  PROVE  tracker' = t /\ datagrams' \in Seq(Datagram(t)) /\ ToSet(answer') \subseteq From(t)
BY EmptyAnswer DEF NewUDPTrackerConn

LEMMA SocketStep == SocketOK /\ [Next]_vars => SocketOK'
<1> SUFFICES ASSUME SocketOK, [Next]_vars PROVE SocketOK'
  OBVIOUS
<1> USE DEF SocketOK
<1>1. CASE NextTracker
  <2>1. Head(addrs) \in Trackers /\ addrs' \in Seq(Trackers)
    BY <1>1 DEF NextTracker
  <2> QED
    BY <1>1, <2>1, NewSocket DEF NextTracker
<1>2. CASE GetPeers
  <2>1. CASE \E t \in ToSet(addrs) : NewUDPTrackerConn(t) /\ addrs' = addrs
    <3>1. PICK t \in ToSet(addrs) : NewUDPTrackerConn(t)
      BY <2>1
    <3>2. t \in Trackers
      BY DEF ToSet
    <3> QED
      BY <2>1, <3>1, <3>2, NewSocket
  <2>2. CASE UNCHANGED <<trackerVars, addrs>>
    BY <2>2 DEF trackerVars, socket
  <2> QED
    BY <1>2, <2>1, <2>2 DEF GetPeers
<1>3. CASE GetLiveTrackerAddresses
  <2>1. PICK live \in SUBSET Trackers : addrs' \in SetToSeqs(live)
    BY <1>3 DEF GetLiveTrackerAddresses
  <2>2. Cardinality(live) \in Nat
    BY MagnetAssumption, FS_Subset, FS_CardinalityType
  <2>3. addrs' \in [1 .. Cardinality(live) -> live]
    BY <2>1 DEF SetToSeqs
  <2>4. addrs' \in Seq(Trackers)
    BY <2>2, <2>3
  <2> QED
    BY <1>3, <2>4 DEF GetLiveTrackerAddresses, trackerVars, socket
<1>4. CASE Asking
  <2>1. CASE ReadConnectAnswer
    BY <1>4, <2>1 DEF Asking, ReadConnectAnswer
  <2>2. CASE ReadAnnounceAnswer
    <3>1. Head(datagrams) \in Datagram(tracker)
      BY <2>2 DEF ReadAnnounceAnswer
    <3> QED
      BY <1>4, <2>2, <3>1, ParsedFromTracker DEF Asking, ReadAnnounceAnswer
  <2>3. CASE ReadTimeout
    BY <1>4, <2>3 DEF Asking, ReadTimeout
  <2> QED
    BY <1>4, <2>1, <2>2, <2>3 DEF Asking, Ask
<1>5. CASE TrackerAnswers /\ UNCHANGED addrs
  <2>1. PICK d : /\ \E r \in requests : AnswerTo(r, d)
                 /\ datagrams' = Append(datagrams, d)
    BY <1>5 DEF TrackerAnswers
  <2>2. d \in Datagram(tracker)
    BY <2>1 DEF AnswerTo, Datagram
  <2> QED
    BY <1>5, <2>1, <2>2 DEF TrackerAnswers
<1>6. CASE UNCHANGED <<trackerVars, addrs>>
  BY <1>6 DEF trackerVars, socket
<1>7. \/ NextTracker \/ GetPeers \/ GetLiveTrackerAddresses \/ Asking
      \/ TrackerAnswers /\ UNCHANGED addrs
      \/ UNCHANGED <<trackerVars, addrs>>
  <2>1. CASE MagnetStep
    BY <2>1 DEF MagnetStep, ParseMagnetUri, NoTracker, TakeAnswer, NextPeer, AwaitUnchoke, getMetadata,
      RequestPiece, SendFails, NextPiece, VerifyMetadata, StartSession, GiveUp
  <2>2. CASE ReadMessage \/ ReadNothing \/ Handshake \/ HandshakeFails
    BY <2>2 DEF ReadMessage, ReadNothing, ReadFails, Handshake, HandshakeFails, GiveUp
  <2>3. CASE Environment
    BY <2>3 DEF Environment, PeerSends, PeerCloses, SeedAnswers
  <2>4. CASE UNCHANGED vars
    BY <2>4 DEF vars
  <2> QED
    BY <2>1, <2>2, <2>3, <2>4 DEF Next
<1> QED
  BY <1>1, <1>2, <1>3, <1>4, <1>5, <1>6, <1>7

\* Announce (tracker.go 71-90) yields peers of the tracker it asked, however
\* datagrams are lost, repeated or belated; only an error packet can make up
\* others.
THEOREM AnswersAreTheTrackers == Spec => []AnswerFromTracker
<1>1. Init => SocketOK
  <2>1. ASSUME Init PROVE tracker \in Trackers
    BY <2>1, MagnetAssumption DEF Init
  <2> QED
    BY <2>1, EmptyAnswer DEF Init, SocketOK
<1>2. SocketOK => AnswerFromTracker
  BY DEF SocketOK, AnswerFromTracker, From
<1> QED
  BY <1>1, <1>2, SocketStep, PTL DEF Spec

-----------------------------------------------------------------------------
(* Types.  What a connection keeps of the pieces it asks for matches its    *)
(* buffer, which getMetadata makes anew each time: before that nothing is   *)
(* asked for, and while a piece is awaited there is one to wait for.        *)

Byte == {"zero", "right", "wrong"}

Receivable ==
    [type : {"choke", "unchoke", "other", "unknown", "request"}]
    \cup [type : {"extended"}, utMetadata : BOOLEAN, size : Int]
    \cup [type : {"data"}, piece : Nat, bytes : {"right", "wrong"}]

Link == [choked : BOOLEAN, interested : BOOLEAN, open : BOOLEAN, extensions : BOOLEAN,
         utMetadata : BOOLEAN, size : Int, buffer : Seq(Byte), received : Nat,
         next : Nat, asked : SUBSET Nat, inbox : Seq(Receivable), sent : Nat]

LinkOK ==
    /\ link \in Link
    /\ link.next <= Len(link.buffer)
    /\ link.asked \subseteq 0 .. Len(link.buffer) - 1
    /\ pc \notin {"request", "await", "verify", "panicked"} => link.next = 0 /\ link.asked = {}
    /\ pc = "await" => link.next < Len(link.buffer)

LEMMA NewLink == NewPeerConnection \in Link /\ NewPeerConnection.next = 0
                   /\ NewPeerConnection.asked = {} /\ NewPeerConnection.buffer = <<>>
<1>1. <<>> \in Seq(Byte) /\ <<>> \in Seq(Receivable)
  OBVIOUS
<1> QED
  BY <1>1 DEF NewPeerConnection, Link

LEMMA GivenUp == ASSUME GiveUp PROVE LinkOK'
<1>1. link' = NewPeerConnection /\ pc' = "nextPeer"
  BY DEF GiveUp
<1>2. Len(<<>>) = 0
  OBVIOUS
<1> QED
  BY <1>1, <1>2, NewLink DEF LinkOK

\* a step that leaves the connection alone, but for one not begun
LEMMA LinkStays ==
  ASSUME LinkOK, link' = link,
         \/ pc' = pc
         \/ pc' = "panicked"
         \/ /\ pc \notin {"request", "await", "verify", "panicked"}
            /\ pc' \notin {"request", "await", "verify", "panicked"}
         \/ pc' = "verify"
  PROVE  LinkOK'
BY DEF LinkOK

LEMMA Handled ==
  ASSUME LinkOK, link.inbox # <<>>, HandleMessage(Head(link.inbox)), pc' = pc
  PROVE  LinkOK'
<1> DEFINE m == Head(link.inbox)
<1>1. m \in Receivable /\ Tail(link.inbox) \in Seq(Receivable)
  BY DEF LinkOK, Link
<1>2. CASE m.type = "extended" /\ link' = [link EXCEPT !.inbox = Tail(@), !.size = m.size,
                               !.utMetadata = @ \/ m.utMetadata]
  <2>1. m.size \in Int /\ m.utMetadata \in BOOLEAN
    BY <1>1, <1>2 DEF Receivable
  <2>2. link' \in Link /\ link'.buffer = link.buffer /\ link'.next = link.next /\ link'.asked = link.asked
    BY <1>1, <1>2, <2>1 DEF LinkOK, Link
  <2> QED
    BY <2>2 DEF LinkOK
<1>3. CASE /\ m.type = "data"
           /\ link' = [link EXCEPT !.inbox = Tail(@), !.received = @ + 1,
                !.buffer = [k \in DOMAIN @ |-> IF k = m.piece + 1 THEN m.bytes ELSE @[k]]]
  <2> DEFINE b == [k \in DOMAIN link.buffer |->
                     IF k = m.piece + 1 THEN m.bytes ELSE link.buffer[k]]
  <2>1. m.bytes \in Byte
    BY <1>1, <1>3 DEF Receivable, Byte
  <2>2. link.buffer \in Seq(Byte) /\ Len(link.buffer) \in Nat
    BY DEF LinkOK, Link
  <2>3. b \in Seq(Byte) /\ Len(b) = Len(link.buffer)
    <3>1. DOMAIN link.buffer = 1 .. Len(link.buffer) /\ \A k \in 1 .. Len(link.buffer) : link.buffer[k] \in Byte
      BY <2>2
    <3>2. b \in [1 .. Len(link.buffer) -> Byte]
      BY <2>1, <3>1
    <3> QED
      BY <2>2, <3>2
  <2> DEFINE t == Tail(link.inbox)
             n == link.received + 1
  <2>4. link' = [link EXCEPT !.inbox = t, !.received = n, !.buffer = b]
    BY <1>3
  <2>5. t \in Seq(Receivable) /\ n \in Nat
    BY <1>1 DEF LinkOK, Link
  <2> HIDE DEF b, t, n
  <2>6. link' \in Link /\ link'.buffer = b /\ link'.next = link.next /\ link'.asked = link.asked
    BY <2>3, <2>4, <2>5 DEF LinkOK, Link
  <2> QED
    BY <2>3, <2>6 DEF LinkOK
<1>4. CASE link' = [link EXCEPT !.inbox = Tail(@), !.choked = (m.type = "choke")]
  <2>1. link' \in Link /\ link'.buffer = link.buffer /\ link'.next = link.next /\ link'.asked = link.asked
    BY <1>1, <1>4 DEF LinkOK, Link
  <2> QED
    BY <2>1 DEF LinkOK
<1>5. CASE link' = [link EXCEPT !.inbox = Tail(@)]
  <2>1. link' \in Link /\ link'.buffer = link.buffer /\ link'.next = link.next /\ link'.asked = link.asked
    BY <1>1, <1>5 DEF LinkOK, Link
  <2> QED
    BY <2>1 DEF LinkOK
<1> QED
  BY <1>2, <1>3, <1>4, <1>5 DEF HandleMessage, handleExtension

LEMMA ReadFailed == ASSUME LinkOK, ReadFails PROVE LinkOK'
<1>1. CASE GiveUp
  BY <1>1, GivenUp
<1>2. CASE pc = "reading" /\ pc' = "getMetadata" /\ link' = [link EXCEPT !.inbox = <<>>]
  <2>1. <<>> \in Seq(Receivable)
    OBVIOUS
  <2>2. link' \in Link /\ link'.buffer = link.buffer /\ link'.next = link.next /\ link'.asked = link.asked
    BY <1>2, <2>1 DEF LinkOK, Link
  <2> QED
    BY <1>2, <2>2 DEF LinkOK
<1> QED
  BY <1>1, <1>2 DEF ReadFails

LEMMA MessageArrives ==
  ASSUME LinkOK, NEW m \in Receivable, NEW n \in Nat, NEW a \in SUBSET link.asked, pc' = pc,
         link' = [link EXCEPT !.inbox = <<m>>, !.sent = n, !.asked = a]
  PROVE  LinkOK'
<1>1. <<m>> \in Seq(Receivable)
  OBVIOUS
<1>2. link' \in Link /\ link'.buffer = link.buffer /\ link'.next = link.next /\ link'.asked = a
  BY <1>1 DEF LinkOK, Link
<1> QED
  BY <1>2 DEF LinkOK

LEMMA LinkStep == LinkOK /\ [Next]_vars => LinkOK'
<1> SUFFICES ASSUME LinkOK, [Next]_vars PROVE LinkOK'
  OBVIOUS
<1>1. CASE VerifyMetadata
  <2>1. CASE GiveUp
    BY <2>1, GivenUp
  <2>2. CASE link' = NewPeerConnection /\ pc' = "main"
    <3>1. Len(<<>>) = 0
      OBVIOUS
    <3> QED
      BY <2>2, <3>1, NewLink DEF LinkOK
  <2>3. CASE pc' = "panicked" /\ link' = link
    BY <2>3, LinkStays
  <2> QED
    BY <1>1, <2>1, <2>2, <2>3 DEF VerifyMetadata
<1>2. CASE getMetadata
  <2>1. CASE GiveUp
    BY <2>1, GivenUp
  <2>2. CASE /\ link.size >= 0 /\ pc' = "request"
             /\ link' = [link EXCEPT !.buffer = [k \in 1 .. link.size |-> "zero"]]
    <3> DEFINE b == [k \in 1 .. link.size |-> "zero"]
    <3>1. link.size \in Nat
      BY <2>2 DEF LinkOK, Link
    <3>2. b \in Seq(Byte) /\ Len(b) = link.size
      BY <3>1 DEF Byte
    <3> HIDE DEF b
    <3>3. link' = [link EXCEPT !.buffer = b]
      BY <2>2 DEF b
    <3>4. link' \in Link /\ link'.buffer = b /\ link'.next = link.next /\ link'.asked = link.asked
      BY <3>2, <3>3 DEF LinkOK, Link
    <3>5. link.next = 0 /\ link.asked = {}
      BY <1>2 DEF getMetadata, LinkOK
    <3> QED
      BY <2>2, <3>1, <3>2, <3>4, <3>5 DEF LinkOK
  <2>3. CASE pc' = "panicked" /\ link' = link
    BY <2>3, LinkStays
  <2> QED
    BY <1>2, <2>1, <2>2, <2>3 DEF getMetadata
<1>3. CASE RequestPiece
  <2>1. link.next \in Nat /\ link.asked \in SUBSET Nat /\ Len(link.buffer) \in Nat /\ link.next < Len(link.buffer)
    BY <1>3 DEF RequestPiece, LinkOK, Link
  <2>2. /\ link' \in Link /\ link'.buffer = link.buffer /\ link'.next = link.next
        /\ link'.asked = link.asked \cup {link.next}
    BY <1>3, <2>1 DEF RequestPiece, LinkOK, Link
  <2> QED
    BY <1>3, <2>1, <2>2 DEF RequestPiece, LinkOK
<1>4. CASE NextPiece
  <2>1. CASE pc = "await" /\ pc' = "request" /\ link' = [link EXCEPT !.next = @ + 1]
    <3>1. link.next \in Nat /\ Len(link.buffer) \in Nat /\ link.next < Len(link.buffer)
      BY <2>1 DEF LinkOK, Link
    <3>2. link' \in Link /\ link'.buffer = link.buffer /\ link'.next = link.next + 1 /\ link'.asked = link.asked
      BY <2>1, <3>1, SMTT(30) DEF LinkOK, Link
    <3> QED
      BY <2>1, <3>1, <3>2 DEF LinkOK
  <2>2. CASE pc' = "verify" /\ link' = link
    BY <2>2, LinkStays
  <2> QED
    BY <1>4, <2>1, <2>2 DEF NextPiece
<1>5. CASE SendFails \/ HandshakeFails
  BY <1>5, GivenUp DEF SendFails, HandshakeFails
<1>6. CASE ReadMessage
  <2>1. CASE HandleMessage(Head(link.inbox)) /\ UNCHANGED pc
    BY <1>6, <2>1, Handled DEF ReadMessage
  <2>2. CASE ReadFails
    BY <2>2, ReadFailed
  <2>3. CASE pc' = "panicked" /\ link' = link
    BY <2>3, LinkStays
  <2> QED
    BY <1>6, <2>1, <2>2, <2>3 DEF ReadMessage
<1>7. CASE ReadNothing
  <2>1. CASE ReadFails
    BY <2>1, ReadFailed
  <2>2. CASE pc = "reading" /\ pc' = "choked" /\ link' = link
    BY <2>2, LinkStays
  <2> QED
    BY <1>7, <2>1, <2>2 DEF ReadNothing
<1>8. CASE Handshake
  <2>1. link' \in Link /\ link'.buffer = link.buffer /\ link'.next = link.next /\ link'.asked = link.asked
    <3>1. CASE \E e \in BOOLEAN : link' = [link EXCEPT !.extensions = e]
      BY <3>1 DEF LinkOK, Link
    <3>2. CASE link' = [link EXCEPT !.extensions = TRUE, !.inbox =
                 <<[type |-> "extended", utMetadata |-> TRUE, size |-> MetadataPieces]>>]
      <4>1. [type |-> "extended", utMetadata |-> TRUE, size |-> MetadataPieces] \in Receivable
        BY MagnetAssumption DEF Receivable
      <4>2. <<[type |-> "extended", utMetadata |-> TRUE, size |-> MetadataPieces]>> \in Seq(Receivable)
        BY <4>1
      <4> QED
        BY <3>2, <4>2 DEF LinkOK, Link
    <3> QED
      BY <1>8, <3>1, <3>2 DEF Handshake
  <2> QED
    BY <1>8, <2>1 DEF Handshake, LinkOK
<1>9. CASE AwaitUnchoke
  <2>1. link' \in Link /\ link'.buffer = link.buffer /\ link'.next = link.next /\ link'.asked = link.asked
    BY <1>9 DEF AwaitUnchoke, LinkOK, Link
  <2>2. pc = "choked" /\ pc' \in {"reading", "getMetadata"}
    BY <1>9 DEF AwaitUnchoke
  <2> QED
    BY <2>1, <2>2 DEF LinkOK
<1>10. CASE PeerSends
  <2>1. PICK m \in Messages : link' = [link EXCEPT !.inbox = <<m>>, !.sent = @ + 1]
    BY <1>10 DEF PeerSends
  <2>2. m \in Receivable
    BY MagnetAssumption DEF Messages, Receivable, Sizes
  <2>3. link \in Link /\ link.sent + 1 \in Nat
    BY DEF LinkOK, Link
  <2>4. link' = [link EXCEPT !.inbox = <<m>>, !.sent = link.sent + 1, !.asked = link.asked]
    BY <2>1, <2>3 DEF Link
  <2> QED
    BY <1>10, <2>2, <2>3, <2>4, MessageArrives DEF PeerSends
<1>11. CASE PeerCloses
  <2>1. link' \in Link /\ link'.buffer = link.buffer /\ link'.next = link.next /\ link'.asked = link.asked
    BY <1>11 DEF PeerCloses, LinkOK, Link
  <2> QED
    BY <1>11, <2>1 DEF PeerCloses, LinkOK
<1>12. CASE SeedAnswers
  <2>1. link \in Link /\ link.sent \in Nat /\ link.asked \in SUBSET Nat
    BY DEF LinkOK, Link
  <2>2. CASE link' = [link EXCEPT !.inbox = <<[type |-> "unchoke"]>>]
    <3>1. [type |-> "unchoke"] \in Receivable
      BY DEF Receivable
    <3>2. link' = [link EXCEPT !.inbox = <<[type |-> "unchoke"]>>, !.sent = link.sent, !.asked = link.asked]
      BY <2>1, <2>2 DEF Link
    <3> QED
      BY <1>12, <2>1, <3>1, <3>2, MessageArrives DEF SeedAnswers
  <2>3. CASE \E p \in link.asked :
              link' = [link EXCEPT !.asked = @ \ {p},
                  !.inbox = <<[type |-> "data", piece |-> p, bytes |-> "right"]>>]
    <3>1. PICK p \in link.asked :
              link' = [link EXCEPT !.asked = @ \ {p},
                  !.inbox = <<[type |-> "data", piece |-> p, bytes |-> "right"]>>]
      BY <2>3
    <3>2. [type |-> "data", piece |-> p, bytes |-> "right"] \in Receivable
      BY <2>1 DEF Receivable
    <3>3. link' = [link EXCEPT !.inbox = <<[type |-> "data", piece |-> p, bytes |-> "right"]>>,
                               !.sent = link.sent, !.asked = link.asked \ {p}]
      BY <2>1, <3>1 DEF Link
    <3>4. link.asked \ {p} \in SUBSET link.asked /\ pc' = pc
      BY <1>12 DEF SeedAnswers
    <3> DEFINE m == [type |-> "data", piece |-> p, bytes |-> "right"]
               a == link.asked \ {p}
    <3> HIDE DEF m, a
    <3> QED
      BY <2>1, <3>2, <3>3, <3>4, MessageArrives DEF m, a
  <2> QED
    BY <1>12, <2>2, <2>3 DEF SeedAnswers
<1>13. CASE \/ ParseMagnetUri \/ GetLiveTrackerAddresses \/ NextTracker \/ NoTracker \/ TakeAnswer
            \/ NextPeer \/ GetPeers \/ StartSession
  BY <1>13, LinkStays DEF ParseMagnetUri, GetLiveTrackerAddresses, NextTracker, NoTracker, TakeAnswer,
    NextPeer, GetPeers, StartSession, NewUDPTrackerConn
<1>14. CASE Asking
  BY <1>14, LinkStays DEF Asking, Ask, ReadConnectAnswer, ReadAnnounceAnswer, ReadTimeout
<1>15. CASE TrackerAnswers /\ UNCHANGED <<addrs, peers, peer, link, ti, tried, named>>
  BY <1>15, LinkStays DEF TrackerAnswers
<1>16. CASE UNCHANGED vars
  BY <1>16, LinkStays DEF vars
<1> QED
  BY <1>1, <1>2, <1>3, <1>4, <1>5, <1>6, <1>7, <1>8, <1>9, <1>10, <1>11, <1>12, <1>13, <1>14, <1>15,
     <1>16 DEF Next, MagnetStep, Environment

\* the addresses, the peers and the metadata
ProgressOK ==
    /\ pc \in {"uri", "ping", "tracker", "connecting", "announcing", "answered", "refused",
               "nextPeer", "handshake", "choked", "reading", "getMetadata", "request", "await",
               "verify", "main", "fetch", "session", "nilInfo", "panicked"}
    /\ answer \in Seq(Peer)
    /\ peers \in Seq(Peer)
    /\ peer \in Peer
    /\ ti \in {NoInfo} \cup Seq(Byte)
    /\ tried \in 0 .. MaxAddresses
    /\ named \in {"info", "nothing", "panic"}

LEMMA AnswerType == SocketOK /\ ReadAnnounceAnswer => answer' \in Seq(Peer)
<1> SUFFICES ASSUME SocketOK, ReadAnnounceAnswer PROVE answer' \in Seq(Peer)
  OBVIOUS
<1> DEFINE d == Head(datagrams)
           n == (d.length - 20) \div 6
<1>1. d \in Datagram(tracker) /\ answer' = parseAnnounceResponse(d)
  BY DEF ReadAnnounceAnswer, SocketOK
<1>2. ToSet(parseAnnounceResponse(d)) \subseteq Peer
  BY <1>1, ParsedFromTracker DEF SocketOK, From, Peer
<1>3. d.length \in Nat
  <2>1. Len(Announces[tracker]) \in Nat
    BY MagnetAssumption DEF SocketOK
  <2> QED
    BY <1>1, <2>1 DEF Datagram, ConnectAnswer, AnnounceAnswer, ErrorAnswer
<1>4. CASE d.length < 20
  BY <1>1, <1>4 DEF parseAnnounceResponse
<1>5. CASE ~(d.length < 20)
  <2>1. n \in Nat
    <3>1. d.length - 20 \in Nat
      BY <1>3, <1>5
    <3> HIDE DEF d
    <3> QED
      BY <3>1
  <2>2. DOMAIN answer' = 1 .. n
    BY <1>1, <1>5 DEF parseAnnounceResponse
  <2>3. answer' = [k \in 1 .. n |-> answer'[k]]
    BY <1>1, <1>5 DEF parseAnnounceResponse
  <2>4. \A k \in 1 .. n : answer'[k] \in Peer
    BY <1>1, <1>2, <2>2 DEF ToSet
  <2> HIDE DEF n
  <2> QED
    BY <2>1, <2>3, <2>4
<1> QED
  BY <1>4, <1>5

LEMMA ProgressStep == SocketOK /\ LinkOK /\ ProgressOK /\ [Next]_vars => ProgressOK'
<1> SUFFICES ASSUME SocketOK, LinkOK, ProgressOK, [Next]_vars PROVE ProgressOK'
  OBVIOUS
<1> USE MagnetAssumption DEF ProgressOK, trackerVars, socket
<1>1. CASE TakeAnswer
  BY <1>1 DEF TakeAnswer
<1>2. CASE NextPeer
  <2>1. peers # <<>> => Head(peers) \in Peer /\ Tail(peers) \in Seq(Peer)
    OBVIOUS
  <2> QED
    BY <1>2, <2>1 DEF NextPeer
<1>3. CASE VerifyMetadata
  <2>1. link.buffer \in Seq(Byte)
    BY DEF LinkOK, Link
  <2> QED
    BY <1>3, <2>1 DEF VerifyMetadata, GiveUp
<1>4. CASE GetPeers
  <2>1. tried < MaxAddresses /\ tried' \in {tried, tried + 1}
    BY <1>4 DEF GetPeers
  <2>2. tried' \in 0 .. MaxAddresses
    BY <2>1
  <2>3. pc' \in {"connecting", "refused", "panicked"} /\ answer' \in {<<>>, answer}
    BY <1>4 DEF GetPeers, NewUDPTrackerConn
  <2>4. peers' = peers /\ peer' = peer /\ ti' = ti /\ named' = named
    BY <1>4 DEF GetPeers
  <2>5. answer' \in Seq(Peer)
    <3>1. <<>> \in Seq(Peer) /\ answer \in Seq(Peer)
      OBVIOUS
    <3> QED
      BY ONLY <2>3, <3>1
  <2> QED
    BY <2>2, <2>3, <2>4, <2>5
<1>5. CASE GetLiveTrackerAddresses
  BY <1>5 DEF GetLiveTrackerAddresses
<1>6. CASE Asking
  <2>1. CASE ReadAnnounceAnswer
    BY <1>6, <2>1, AnswerType DEF Asking, ReadAnnounceAnswer
  <2>2. CASE ReadConnectAnswer \/ ReadTimeout
    BY <1>6, <2>2 DEF Asking, ReadConnectAnswer, ReadTimeout
  <2> QED
    BY <1>6, <2>1, <2>2 DEF Asking, Ask
<1>7. CASE NextTracker
  BY <1>7 DEF NextTracker, NewUDPTrackerConn
<1>8. CASE ParseMagnetUri \/ NoTracker \/ AwaitUnchoke \/ RequestPiece \/ NextPiece \/ StartSession
  BY <1>8 DEF ParseMagnetUri, NoTracker, AwaitUnchoke, RequestPiece, NextPiece, StartSession
<1>9. CASE getMetadata \/ SendFails \/ Handshake \/ HandshakeFails
  BY <1>9 DEF getMetadata, SendFails, Handshake, HandshakeFails, GiveUp
<1>10. CASE ReadMessage \/ ReadNothing
  BY <1>10 DEF ReadMessage, ReadNothing, ReadFails, GiveUp
<1>11. CASE Environment
  BY <1>11 DEF Environment, TrackerAnswers, PeerSends, PeerCloses, SeedAnswers
<1>12. CASE UNCHANGED vars
  BY <1>12 DEF vars
<1> QED
  BY <1>1, <1>2, <1>3, <1>4, <1>5, <1>6, <1>7, <1>8, <1>9, <1>10, <1>11, <1>12 DEF Next, MagnetStep

LEMMA InitTypes == Init => SocketOK /\ LinkOK /\ ProgressOK
<1> SUFFICES ASSUME Init PROVE SocketOK /\ LinkOK /\ ProgressOK
  OBVIOUS
<1>1. SocketOK
  BY MagnetAssumption, EmptyAnswer DEF Init, SocketOK
<1>2. LinkOK
  <2>1. Len(<<>>) = 0
    OBVIOUS
  <2> QED
    BY <2>1, NewLink DEF Init, LinkOK
<1>3. ProgressOK
  <2>1. Seed \in Peer /\ 0 \in 0 .. MaxAddresses
    BY MagnetAssumption DEF Peer
  <2> QED
    BY <2>1 DEF Init, ProgressOK
<1> QED
  BY <1>1, <1>2, <1>3

\* The metadata pieces asked for (extensions.go, getMetadata) are pieces of
\* the buffer that the connection holds, on whatever connection and whatever
\* size its peer names; addresses and peers are those of the trackers.
THEOREM TypeCorrect == Spec => []TypeOK
<1>1. SocketOK /\ LinkOK /\ ProgressOK => TypeOK
  <2> SUFFICES ASSUME SocketOK, LinkOK, ProgressOK PROVE TypeOK
    OBVIOUS
  <2>1. /\ link.next \in 0 .. Len(link.buffer)
        /\ link.buffer \in Seq(Byte)
        /\ link.received \in Nat
    BY DEF LinkOK, Link
  <2> QED
    BY <2>1 DEF SocketOK, LinkOK, ProgressOK, TypeOK, Byte
<1> QED
  BY <1>1, InitTypes, SocketStep, LinkStep, ProgressStep, PTL DEF Spec
=============================================================================
