------------------------------- MODULE Seeding -------------------------------
(***************************************************************************)
(* Seeding: StartSeeding of src/pkg/torrent/torrentsession.go, the          *)
(* connections it accepts and the cache (PieceCache) they share.            *)
(*                                                                         *)
(* One goroutine accepts.  It does the handshake itself, without a          *)
(* deadline, and takes a slot only for a peer whose handshake succeeded;    *)
(* the goroutine of the connection gives the slot back.  That goroutine     *)
(* goes on after a deadline, so a silent peer keeps its slot.  No           *)
(* connection is ever closed by this side.  SendPiece asks neither the      *)
(* bitfield nor PeerChoked, and the error of getPieceFromFile is dropped:   *)
(* a piece whose read failed is cached and sent as zeros.                   *)
(*                                                                         *)
(* A peer connects once, and asks for blocks within the pieces.  Whether it *)
(* leaves is its own choice; those in Prompt complete or break off their    *)
(* handshake.                                                               *)
(***************************************************************************)
EXTENDS Integers, Sequences, FiniteSets

CONSTANTS
    Peers,
    Prompt,        \* the peers that do not stay silent in the handshake
    Limit,         \* Threads
    Index, Endless, cacheSize, MaxRequests

ASSUME SeedingAssumption ==
    /\ Prompt \subseteq Peers
    /\ Limit \in Nat \ {0}

VARIABLES
    backlog,       \* the connections of the listener that wait to be accepted
    conn,          \* per peer: "none", "backlog", "handshake", "served", "left"
    peersStarted,
    pieces, list, pieceLock, pc, wanted, request, element, requests, raced

slots == <<backlog, conn, peersStarted>>
cached == <<pieces, list, pieceLock, pc, wanted, request, element, requests, raced>>
vars == <<slots, cached>>

Cache == INSTANCE PieceCache WITH Threads <- Peers

Init ==
    /\ backlog = <<>>
    /\ conn = [p \in Peers |-> "none"]
    /\ peersStarted = 0
    /\ Cache!Init

Becomes(p, state) == conn' = [conn EXCEPT ![p] = state]
Accepting == \A p \in Peers : conn[p] # "handshake"

-----------------------------------------------------------------------------
(* Wrong variants of the definitions below, substituted for them to see     *)
(* that a property notices; not part of the specification.                  *)

\* the slot is taken before the handshake and a failed one does not return it
HandshakeFailsCounted(p) ==
    /\ conn[p] = "handshake"
    /\ Becomes(p, "left")
    /\ peersStarted' = peersStarted + 1
    /\ UNCHANGED <<backlog, cached>>

\* the handshake is the goroutine's, and the loop goes on meanwhile
AcceptMore ==
    /\ peersStarted < Limit
    /\ backlog # <<>>
    /\ Becomes(Head(backlog), "handshake")
    /\ backlog' = Tail(backlog)
    /\ UNCHANGED <<peersStarted, cached>>

-----------------------------------------------------------------------------
\* a peer dials the port
Connect(p) ==
    /\ conn[p] = "none"
    /\ Becomes(p, "backlog")
    /\ backlog' = Append(backlog, p)
    /\ UNCHANGED <<peersStarted, cached>>

\* With every slot taken the loop sleeps and looks again; only the loop takes
\* slots, so what it saw free is still free after Accept.
Accept ==
    /\ Accepting
    /\ peersStarted < Limit
    /\ backlog # <<>>
    /\ Becomes(Head(backlog), "handshake")
    /\ backlog' = Tail(backlog)
    /\ UNCHANGED <<peersStarted, cached>>

HandshakeDone(p) ==
    /\ conn[p] = "handshake"
    /\ Becomes(p, "served")
    /\ peersStarted' = peersStarted + 1
    /\ UNCHANGED <<backlog, cached>>

\* a read or a write failed, or the answer is not for this torrent
HandshakeFails(p) ==
    /\ conn[p] = "handshake"
    /\ Becomes(p, "left")
    /\ UNCHANGED <<backlog, peersStarted, cached>>

\* handleRequest
Request(p) ==
    /\ conn[p] = "served"
    /\ Cache!Request(p)
    /\ UNCHANGED slots

\* GetPieceBlock, as far as GetPiece goes on, which may be never; the answer is
\* cut from what it returns.
SendPiece(p) ==
    /\ Cache!GetPiece(p)
    /\ UNCHANGED slots

\* any error of ReadAndHandleMessage but a deadline
Leave(p) ==
    /\ conn[p] = "served"
    /\ pc[p] = "idle"
    /\ Becomes(p, "left")
    /\ peersStarted' = peersStarted - 1
    /\ UNCHANGED <<backlog, cached>>

Race ==
    /\ Cache!Race
    /\ UNCHANGED slots

Handshake(p) == HandshakeDone(p) \/ HandshakeFails(p)

Next ==
    /\ ~raced
    /\ \/ Accept
       \/ \E p \in Peers :
            \/ Connect(p)
            \/ HandshakeDone(p)
            \/ HandshakeFails(p)
            \/ Request(p)
            \/ SendPiece(p)
            \/ Leave(p)
       \/ Race

Spec == Init /\ [][Next]_vars

\* The accept loop runs, and prompt peers end their handshake.
FairSpec ==
    /\ Spec
    /\ WF_vars(~raced /\ Accept)
    /\ \A p \in Prompt : WF_vars(~raced /\ Handshake(p))

-----------------------------------------------------------------------------
(* Properties *)

Served == {p \in Peers : conn[p] = "served"}

\* The slots are checked before a connection is accepted and taken after its
\* handshake, and goroutines give them back; still peersStarted is the number
\* of peers served, at most Limit, and only they are in GetPiece.
SlotsAreCounted ==
    /\ peersStarted = Cardinality(Served)
    /\ peersStarted <= Limit
    /\ \A p \in Peers : pc[p] # "idle" => p \in Served

HeldUp ==
    \/ raced
    \/ \E p \in Peers \ Prompt : conn[p] = "handshake"
    \/ Cardinality(Served) = Limit

\* The slots come back: a peer stays in the backlog for ever only when the
\* loop is held for ever by a handshake that stays silent, or by connections
\* that really take every slot.
WaitersAreAccepted ==
    \A p \in Peers : <>[](conn[p] = "backlog") => <>[]HeldUp
=============================================================================
