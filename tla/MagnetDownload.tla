---------------------------- MODULE MagnetDownload ----------------------------
(***************************************************************************)
(* From a magnet link to the start of the session: downloadFromMagnet of    *)
(* cmd/client/main.go, GetMetadataFromMagnetUri and getMetadataFromPeer of  *)
(* src/pkg/torrent/magnet.go, getMetadata and handleExtension of            *)
(* extensions.go, TrackersPeerFetcher of peerfetcher.go.                    *)
(*                                                                         *)
(* The trackers that answer a ping are asked in turn, and the peers of each *)
(* answer are dialled in turn until one delivers metadata with the right    *)
(* hash.  Then the trackers are asked again for the peers of the session.   *)
(*                                                                         *)
(* The metadata is a sequence of pieces; a piece holds the right bytes,     *)
(* wrong ones, or the zeros of make.  A peer is anybody: it may send any    *)
(* message, be silent or close, except Seed, which is a prompt honest       *)
(* client.  A message is put on the wire when the one before has been read: *)
(* the client sees no more of a stream than its order.                      *)
(***************************************************************************)
EXTENDS TrackerClient

CONSTANTS
    Seed,             \* an honest peer that some tracker knows
    MetadataPieces,   \* pieces of the real metadata, the last one short
    MaxMessages,      \* bound on the messages of a peer that is not Seed
    WantedPeers,      \* 50 in GetPeers
    MaxAddresses,     \* 5 in GetPeers
    NoInfo

ASSUME MagnetAssumption ==
    /\ MetadataPieces \in Nat \ {0}
    /\ IsFiniteSet(Trackers) /\ Trackers # {}   \* a link names any part of them
    /\ Erring \subseteq Trackers
    /\ \A t \in Trackers : Announces[t] \in Seq(UNION {ToSet(Announces[u]) : u \in Trackers})
    /\ \E t \in Trackers : Seed \in ToSet(Announces[t])
    /\ MaxAddresses \in Nat

VARIABLES
    addrs,    \* addresses still to try, or to choose from
    peers,    \* peers still to dial; later those of the session
    peer,     \* the one dialled
    link,     \* its PeerConnection
    ti,       \* the metadata got
    tried,    \* addressesTried
    named     \* what the decoder makes of the metadata the link names

vars == <<pc, trackerVars, addrs, peers, peer, link, ti, tried, named>>

Peer     == {Junk} \cup UNION {ToSet(Announces[t]) : t \in Trackers}
Metadata == [1 .. MetadataPieces -> {"right"}]
Sizes    == {-1, 0, MetadataPieces}

\* NewPeerConnection: everything about a peer starts anew
NewPeerConnection == [
    choked |-> TRUE, interested |-> FALSE, open |-> TRUE, extensions |-> FALSE,
    utMetadata |-> FALSE, size |-> 0, buffer |-> <<>>, received |-> 0,
    next |-> 0, asked |-> {}, inbox |-> <<>>, sent |-> 0]

TypeOK ==
    /\ pc \in {"uri", "ping", "tracker", "connecting", "announcing", "answered", "refused",
               "nextPeer", "handshake", "choked", "reading", "getMetadata", "request", "await",
               "verify", "main", "fetch", "session", "nilInfo", "panicked"}
    /\ addrs \in Seq(Trackers)
    /\ peers \in Seq(Peer)
    /\ peer \in Peer
    /\ link.next \in 0 .. Len(link.buffer)
    /\ link.asked \subseteq 0 .. Len(link.buffer) - 1
    /\ link.buffer \in Seq({"zero", "right", "wrong"})
    /\ link.received \in Nat
    /\ ti \in {NoInfo} \cup Seq({"zero", "right", "wrong"})
    /\ tried \in 0 .. MaxAddresses
    /\ named \in {"info", "nothing", "panic"}

Init ==
    /\ pc = "uri"
    /\ tracker = CHOOSE t \in Trackers : TRUE
    /\ connectionId = Junk
    /\ requests = {}
    /\ datagrams = <<>>
    /\ repeats = 0
    /\ answer = <<>>
    /\ addrs = <<>>
    /\ peers = <<>>
    /\ peer = Seed
    /\ link = NewPeerConnection
    /\ ti = NoInfo
    /\ tried = 0
    /\ named \in {"info", "nothing", "panic"}

-----------------------------------------------------------------------------
(* Wrong variants of the definitions below, substituted for them to see     *)
(* that a property notices; not part of the specification.                  *)

\* one piece more than there are is requested
RequestMorePieces ==
    /\ pc = "request"
    /\ link' = [link EXCEPT !.asked = @ \cup {link.next}]
    /\ pc' = "await"
    /\ UNCHANGED <<trackerVars, addrs, peers, peer, ti, tried, named>>

\* the hash is not compared
VerifyAnything ==
    /\ pc = "verify"
    /\ ti' = link.buffer
    /\ link' = NewPeerConnection
    /\ pc' = "main"
    /\ UNCHANGED <<trackerVars, addrs, peers, peer, tried, named>>

\* PiecesReceived is counted from one connection to the next
GiveUpCounting ==
    /\ pc' = "nextPeer"
    /\ link' = [NewPeerConnection EXCEPT !.received = link.received]
    /\ UNCHANGED <<trackerVars, addrs, peers, peer, ti, tried, named>>

-----------------------------------------------------------------------------
\* handlers.  A request for a block meets a nil pieceCache, a metadata piece
\* outside the buffer a slice out of range; both end the process.  So do messages
\* too short for their type and negative pieces, which "request" stands for too.
Panics(m) ==
    \/ m.type = "request"
    \/ m.type = "data" /\ m.piece # 0 /\ m.piece >= Len(link.buffer)

handleExtension(m) ==
    \/ /\ m.type = "extended"
       /\ link' = [link EXCEPT !.inbox = Tail(@), !.size = m.size,
                               !.utMetadata = @ \/ m.utMetadata]
    \/ /\ m.type = "data"
       /\ link' = [link EXCEPT !.inbox = Tail(@), !.received = @ + 1,
              !.buffer = [k \in DOMAIN @ |-> IF k = m.piece + 1 THEN m.bytes ELSE @[k]]]

HandleMessage(m) ==
    \/ handleExtension(m)
    \/ /\ m.type \in {"choke", "unchoke"}
       /\ link' = [link EXCEPT !.inbox = Tail(@), !.choked = (m.type = "choke")]
    \/ /\ m.type = "other"
       /\ link' = [link EXCEPT !.inbox = Tail(@)]

GiveUp ==
    /\ pc' = "nextPeer"
    /\ link' = NewPeerConnection
    /\ UNCHANGED <<trackerVars, addrs, peers, peer, ti, tried, named>>

\* An error while still choked leaves the loop, and since it is kept in a
\* variable of the loop getMetadata is called all the same.
ReadFails ==
    \/ pc = "await" /\ GiveUp
    \/ /\ pc = "reading"
       /\ pc' = "getMetadata"
       /\ link' = [link EXCEPT !.inbox = <<>>]
       /\ UNCHANGED <<trackerVars, addrs, peers, peer, ti, tried, named>>

Reading == pc = "reading" \/ (pc = "await" /\ link.received <= link.next)

ReadMessage ==
    /\ Reading
    /\ link.inbox # <<>>
    /\ LET m == Head(link.inbox) IN
        \/ /\ ~Panics(m)
           /\ HandleMessage(m)
           /\ UNCHANGED <<pc, trackerVars, addrs, peers, peer, ti, tried, named>>
        \/ /\ m.type = "unknown"
           /\ ReadFails
        \/ /\ Panics(m)
           /\ pc' = "panicked"
           /\ UNCHANGED <<trackerVars, addrs, peers, peer, link, ti, tried, named>>

\* Seed answers within the second that ReadAndHandleMessages waits.
Owing == peer = Seed /\ (link.asked # {} \/ (link.interested /\ link.choked))

ReadNothing ==
    /\ Reading
    /\ link.inbox = <<>>
    /\ ~Owing
    /\ \/ /\ pc = "reading" /\ link.open
          /\ pc' = "choked"
          /\ UNCHANGED <<trackerVars, addrs, peers, peer, link, ti, tried, named>>
       \/ /\ pc = "await" \/ ~link.open
          /\ ReadFails

-----------------------------------------------------------------------------
\* the bytes of the magnet link; without a usable hash, or with a tracker that
\* has no port, downloadFromMagnet or the parser panics
ParseMagnetUri ==
    /\ pc = "uri"
    /\ pc' \in {"ping", "panicked"}
    /\ UNCHANGED <<trackerVars, addrs, peers, peer, link, ti, tried, named>>

\* One goroutine per address pings it and appends it: any order of any of them.
\* downloadFromMagnet does so again before it looks at what it got: without
\* metadata it dereferences a nil pointer.
GetLiveTrackerAddresses ==
    /\ pc \in {"ping", "main"}
    /\ \E live \in SUBSET Trackers : addrs' \in SetToSeqs(live)
    /\ pc' = IF pc = "ping" THEN "tracker" ELSE IF ti = NoInfo THEN "nilInfo" ELSE "fetch"
    /\ peers' = <<>>
    /\ tried' = 0
    /\ UNCHANGED <<trackerVars, peer, link, ti, named>>

NextTracker ==
    /\ pc = "tracker"
    /\ addrs # <<>>
    /\ NewUDPTrackerConn(Head(addrs))
    /\ addrs' = Tail(addrs)
    /\ UNCHANGED <<peers, peer, link, ti, tried, named>>

NoTracker ==
    /\ pc = "tracker"
    /\ addrs = <<>>
    /\ pc' = "main"
    /\ UNCHANGED <<trackerVars, addrs, peers, peer, link, ti, tried, named>>

\* back from Announce, to GetPeers when there is metadata
TakeAnswer ==
    /\ pc \in {"answered", "refused"}
    /\ pc' = IF ti # NoInfo THEN "fetch" ELSE IF pc = "answered" THEN "nextPeer" ELSE "tracker"
    /\ peers' = IF pc = "answered" THEN peers \o answer ELSE peers
    /\ UNCHANGED <<trackerVars, addrs, peer, link, ti, tried, named>>

NextPeer ==
    /\ pc = "nextPeer"
    /\ IF peers = <<>>
       THEN pc' = "tracker" /\ UNCHANGED <<peers, peer>>
       ELSE pc' = "handshake" /\ peer' = Head(peers) /\ peers' = Tail(peers)
    /\ UNCHANGED <<trackerVars, addrs, link, ti, tried, named>>

\* the deferred handshake of extensions is sent and answered at once by Seed
Handshake ==
    /\ pc = "handshake"
    /\ \/ /\ peer # Seed
          /\ \E e \in BOOLEAN : link' = [link EXCEPT !.extensions = e]
       \/ /\ peer = Seed
          /\ link' = [link EXCEPT !.extensions = TRUE, !.inbox =
                 <<[type |-> "extended", utMetadata |-> TRUE, size |-> MetadataPieces]>>]
    /\ pc' = "choked"
    /\ UNCHANGED <<trackerVars, addrs, peers, peer, ti, tried, named>>

HandshakeFails ==
    /\ pc = "handshake"
    /\ peer # Seed
    /\ GiveUp

AwaitUnchoke ==
    /\ pc = "choked"
    /\ pc' = IF link.choked THEN "reading" ELSE "getMetadata"
    /\ link' = [link EXCEPT !.interested = @ \/ link.choked]
    /\ UNCHANGED <<trackerVars, addrs, peers, peer, ti, tried, named>>

\* a buffer of a negative size cannot be made
getMetadata ==
    /\ pc = "getMetadata"
    /\ \/ /\ link.extensions /\ link.utMetadata /\ link.size >= 0
          /\ link' = [link EXCEPT !.buffer = [k \in 1 .. link.size |-> "zero"]]
          /\ pc' = "request"
          /\ UNCHANGED <<trackerVars, addrs, peers, peer, ti, tried, named>>
       \/ /\ link.extensions /\ link.utMetadata /\ link.size < 0
          /\ pc' = "panicked"
          /\ UNCHANGED <<trackerVars, addrs, peers, peer, link, ti, tried, named>>
       \/ /\ ~(link.extensions /\ link.utMetadata)
          /\ GiveUp

RequestPiece ==
    /\ pc = "request"
    /\ link.next < Len(link.buffer)
    /\ link' = [link EXCEPT !.asked = @ \cup {link.next}]
    /\ pc' = "await"
    /\ UNCHANGED <<trackerVars, addrs, peers, peer, ti, tried, named>>

SendFails ==
    /\ pc = "request"
    /\ link.next < Len(link.buffer)
    /\ ~link.open
    /\ GiveUp

NextPiece ==
    \/ /\ pc = "await"
       /\ link.received > link.next
       /\ link' = [link EXCEPT !.next = @ + 1]
       /\ pc' = "request"
       /\ UNCHANGED <<trackerVars, addrs, peers, peer, ti, tried, named>>
    \/ /\ pc = "request"
       /\ link.next = Len(link.buffer)
       /\ pc' = "verify"
       /\ UNCHANGED <<trackerVars, addrs, peers, peer, link, ti, tried, named>>

\* What has the right hash is decoded: an error, or a value that is not a
\* dictionary, is given up like a wrong hash; a dictionary without the keys of a
\* torrent panics.
VerifyMetadata ==
    /\ pc = "verify"
    /\ \/ /\ link.buffer \in Metadata /\ named = "info"
          /\ ti' = link.buffer
          /\ link' = NewPeerConnection
          /\ pc' = "main"
          /\ UNCHANGED <<trackerVars, addrs, peers, peer, tried, named>>
       \/ /\ link.buffer \in Metadata /\ named = "panic"
          /\ pc' = "panicked"
          /\ UNCHANGED <<trackerVars, addrs, peers, peer, link, ti, tried, named>>
       \/ /\ link.buffer \notin Metadata \/ named = "nothing"
          /\ GiveUp

\* GetPeers: a random address each time, the same again if it comes to that
GetPeers ==
    /\ pc = "fetch"
    /\ Len(peers) < WantedPeers
    /\ tried < MaxAddresses
    /\ \/ /\ \E t \in ToSet(addrs) : NewUDPTrackerConn(t)
          /\ tried' = tried + 1
          /\ UNCHANGED <<addrs, peers, peer, link, ti, named>>
       \/ /\ addrs = <<>>
          /\ pc' = "panicked"
          /\ UNCHANGED <<trackerVars, addrs, peers, peer, link, ti, tried, named>>

StartSession ==
    /\ pc = "fetch"
    /\ Len(peers) >= WantedPeers \/ tried >= MaxAddresses
    /\ pc' = "session"
    /\ UNCHANGED <<trackerVars, addrs, peers, peer, link, ti, tried, named>>

-----------------------------------------------------------------------------
\* remote peers
Messages ==
    [type : {"choke", "unchoke", "other", "unknown", "request"}]
    \cup [type : {"extended"}, utMetadata : BOOLEAN, size : Sizes]
    \cup [type : {"data"}, piece : 0 .. MetadataPieces, bytes : {"right", "wrong"}]

PeerSends ==
    /\ Reading
    /\ link.inbox = <<>> /\ link.open /\ link.sent < MaxMessages
    /\ \E m \in Messages :
        /\ peer = Seed => m.type \in {"choke", "other"}
        /\ link' = [link EXCEPT !.inbox = <<m>>, !.sent = @ + 1]
    /\ UNCHANGED <<pc, trackerVars, addrs, peers, peer, ti, tried, named>>

PeerCloses ==
    /\ peer # Seed
    /\ Reading
    /\ link.open
    /\ link' = [link EXCEPT !.open = FALSE]
    /\ UNCHANGED <<pc, trackerVars, addrs, peers, peer, ti, tried, named>>

SeedAnswers ==
    /\ Owing
    /\ Reading
    /\ link.inbox = <<>>
    /\ \/ /\ link.interested /\ link.choked
          /\ link' = [link EXCEPT !.inbox = <<[type |-> "unchoke"]>>]
       \/ \E p \in link.asked :
              link' = [link EXCEPT !.asked = @ \ {p},
                  !.inbox = <<[type |-> "data", piece |-> p, bytes |-> "right"]>>]
    /\ UNCHANGED <<pc, trackerVars, addrs, peers, peer, ti, tried, named>>

-----------------------------------------------------------------------------
Asking == Ask /\ UNCHANGED <<addrs, peers, peer, link, ti, tried, named>>

MagnetStep ==
    \/ ParseMagnetUri \/ GetLiveTrackerAddresses \/ NextTracker \/ NoTracker \/ TakeAnswer
    \/ NextPeer \/ AwaitUnchoke \/ getMetadata \/ RequestPiece \/ SendFails \/ NextPiece
    \/ VerifyMetadata \/ GetPeers \/ StartSession

Environment ==
    \/ TrackerAnswers /\ UNCHANGED <<addrs, peers, peer, link, ti, tried, named>>
    \/ PeerSends \/ PeerCloses \/ SeedAnswers

Next ==
    \/ MagnetStep \/ Asking \/ ReadMessage \/ ReadNothing
    \/ Handshake \/ HandshakeFails
    \/ Environment

Spec == Init /\ [][Next]_vars

\* The client runs on, reads have deadlines, and Seed answers; nobody else need.
FairSpec ==
    /\ Spec
    /\ WF_vars(MagnetStep)
    /\ WF_vars(Asking)
    /\ WF_vars(ReadMessage \/ ReadNothing)
    /\ WF_vars(peer = Seed /\ Handshake)
    /\ WF_vars(SeedAnswers)

-----------------------------------------------------------------------------
(* Properties *)

\* A session starts from the metadata the link names, whatever peers send, in
\* whatever order, before or after they are asked.
MetadataVerified == (ti # NoInfo \/ pc = "session") => ti \in Metadata

\* Lost and repeated datagrams never make up a peer or mix the answers of two
\* trackers: what an answer yields is what this tracker announced.  Only an
\* error packet may be read as peers.
AnswerFromTracker ==
    ToSet(answer) \subseteq ToSet(Announces[tracker]) \cup {x \in {Junk} : tracker \in Erring}

Held == pc \in {"handshake", "choked", "reading", "await"}

\* An honest peer in an answer is enough for metadata that can be decoded,
\* whatever the peers before it did, unless one of those keeps the client for
\* ever or ends the process.
SeedSuffices ==
    \/ (named = "info" /\ pc = "answered" /\ Seed \in ToSet(answer))
          ~> (ti # NoInfo \/ pc = "panicked")
    \/ <>[](Held /\ peer # Seed)

\* The only thing that can hold the client up for ever is one peer: no tracker
\* does, and neither do the loops over trackers, peers and pieces.
OnlyPeersHold == <>(pc \in {"session", "nilInfo", "panicked"}) \/ <>[](Held /\ peer # Seed)
=============================================================================
