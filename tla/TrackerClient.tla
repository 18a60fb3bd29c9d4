---------------------------- MODULE TrackerClient ----------------------------
(***************************************************************************)
(* Asking one UDP tracker for peers: src/pkg/torrent/tracker.go.            *)
(*                                                                         *)
(* NewUDPTrackerConn opens a socket, sends a connect request and reads one  *)
(* datagram; Announce sends the connection id it read and reads one more.   *)
(* Neither looks at the action or the transaction id of what it reads, and  *)
(* how many peers an answer holds is told from its length alone.  Datagrams *)
(* get lost and come twice; a read gives up after 5 or 10 seconds.          *)
(***************************************************************************)
EXTENDS Integers, Sequences, FiniteSets, SequencesExt

CONSTANTS
    Trackers,
    Announces,    \* the peers each tracker knows
    Erring,       \* trackers that may answer with an error packet
    Junk,         \* what six bytes that are no address are taken for
    MaxRepeats    \* bound on datagrams that come twice on one socket

VARIABLES
    pc,
    tracker,       \* the tracker being asked
    connectionId,
    requests,      \* requests on their way, or repeated
    datagrams,     \* what has arrived on the socket
    repeats,
    answer         \* AnnounceResponse.Peers

socket      == <<tracker, connectionId, requests, datagrams, repeats>>
trackerVars == <<socket, answer>>

-----------------------------------------------------------------------------
(* Wrong variants of the definitions below, substituted for them to see     *)
(* that a property notices; not part of the specification.                  *)

\* the header of an answer is counted as peers
parseHeader(d) == [k \in 1 .. d.length \div 6 |->
    IF k \in DOMAIN d.peers THEN d.peers[k] ELSE Junk]

\* Announce has no deadline
ReadWithoutDeadline ==
    /\ pc = "connecting"
    /\ datagrams = <<>>
    /\ requests' = {}
    /\ repeats' = 0
    /\ pc' = "refused"
    /\ UNCHANGED <<tracker, connectionId, datagrams, answer>>

-----------------------------------------------------------------------------
\* Ids stand for eight bytes each: the one a tracker grants is its name here.
ConnectAnswer(t)  == [length |-> 16, id |-> t, peers |-> <<>>]
AnnounceAnswer(t) == [length |-> 20 + 6 * Len(Announces[t]), id |-> Junk, peers |-> Announces[t]]
ErrorAnswer(text) == [length |-> 8 + text, id |-> Junk, peers |-> <<>>]

parseAnnounceResponse(d) ==
    IF d.length < 20 THEN <<>>
    ELSE [k \in 1 .. (d.length - 20) \div 6 |->
             IF k \in DOMAIN d.peers THEN d.peers[k] ELSE Junk]

NewUDPTrackerConn(t) ==
    /\ tracker' = t
    /\ connectionId' = Junk
    /\ requests' = {"connect"}
    /\ datagrams' = <<>>
    /\ repeats' = 0
    /\ answer' = <<>>
    /\ pc' \in {"connecting", "refused"}   \* not resolved, or resolved to us

\* what NewUDPTrackerConn reads is sent back by Announce
ReadConnectAnswer ==
    /\ pc = "connecting"
    /\ datagrams # <<>>
    /\ connectionId' = Head(datagrams).id
    /\ datagrams' = Tail(datagrams)
    /\ requests' = requests \cup {"announce"}
    /\ pc' = "announcing"
    /\ UNCHANGED <<tracker, repeats, answer>>

\* nobody reads the socket after that
ReadAnnounceAnswer ==
    /\ pc = "announcing"
    /\ datagrams # <<>>
    /\ answer' = parseAnnounceResponse(Head(datagrams))
    /\ datagrams' = <<>>
    /\ requests' = {}
    /\ repeats' = 0
    /\ pc' = "answered"
    /\ UNCHANGED <<tracker, connectionId>>

ReadTimeout ==
    /\ pc \in {"connecting", "announcing"}
    /\ datagrams = <<>>
    /\ requests' = {}
    /\ repeats' = 0
    /\ pc' = "refused"
    /\ UNCHANGED <<tracker, connectionId, datagrams, answer>>

Ask == ReadConnectAnswer \/ ReadAnnounceAnswer \/ ReadTimeout

-----------------------------------------------------------------------------
\* The tracker, or the network between: a request that is never answered is
\* lost, one that stays is answered again.
AnswerTo(r, d) ==
    \/ r = "connect" /\ d = ConnectAnswer(tracker)
    \/ r = "announce" /\ connectionId = tracker /\ d = AnnounceAnswer(tracker)
    \/ tracker \in Erring /\ d \in {ErrorAnswer(8), ErrorAnswer(24)}

TrackerAnswers ==
    /\ pc \in {"connecting", "announcing"}
    /\ \E r \in requests :
        /\ \E d \in {ConnectAnswer(tracker), AnnounceAnswer(tracker), ErrorAnswer(8), ErrorAnswer(24)} :
              AnswerTo(r, d) /\ datagrams' = Append(datagrams, d)
        /\ \/ requests' = requests \ {r} /\ UNCHANGED repeats
           \/ repeats < MaxRepeats /\ repeats' = repeats + 1 /\ UNCHANGED requests
    /\ UNCHANGED <<pc, tracker, connectionId, answer>>
=============================================================================
