# A TLA+ model of torrent-client

This directory models the BitTorrent client in `src/`: specifications, the TLC
configurations that check them on small instances, and proofs, checked by the
TLA+ proof system, of what holds for every value of the constants.

## The system

| Component | Source | State | Operations | Talks to |
|---|---|---|---|---|
| download session | `pkg/torrent/torrentsession.go` | `workChan`, `failedWorkChan`, `pieceBitField`, `peersStarted`, the files; per worker the piece it carries | `NewTorrentSession`/`initialize`, `StartSession` (`startPeers`, `scheduleWork`), `handlePeerConnection`, `StartSeeding`, `GetMetadata` | starts one goroutine per peer; two channels, one bitfield, one file lock shared |
| peer wire protocol | `pkg/torrent/peerprotocol.go` | `Choked`, the peer's bitfield, `PieceRequestState` | `Handshake`, `ReadAndHandleMessage(s)`, message handlers, `getPiece` | called by one worker; sends and receives on one TCP connection |
| piece cache | `pkg/torrent/cache.go` | map from index to list element, list, two locks | `GetPiece`, `GetPieceBlock` | shared by all seeding connections |
| bitfields | `pkg/torrent/bitfield.go` | bytes, a RWMutex | set, test, copy | session, connections |
| torrent info | `common.go`, `file.go` | lengths, hashes | parse, `GetNumPieces`, `GetPieceHash` | everything |
| torrent creation | `util.go` | none; the locals of the read loop | hash files or a directory | torrent info, bencode |
| metadata exchange | `extensions.go`, `extension_messages.go`, `magnet.go` | `MetadataRequestState` | `GetMetadataFromMagnetUri`, `getMetadata`, `handleExtension` | trackers, peer wire protocol |
| trackers | `tracker.go`, `peerfetcher.go` | connection and transaction ids | connect, announce, `GetPeers` | session |
| DHT | `pkg/dht/*` | routing table: buckets, mask | `PutNode`, `SplitBucket`, queries | not used by the client yet |
| bencode | `pkg/bencode/*` | none | encode, decode | files, metadata, DHT |
| utilities | `pkg/util/*` | none | create files, ping addresses | session, trackers |
| programs | `cmd/client`, `cmd/trackerwidget` | none | command line, a demo | session |

What is hard here, and what makes each part correct:

* **Session.** Three kinds of goroutine meet over two bounded channels, and an
  idle worker goes on with index 0 instead of waiting. No index may be lost
  whatever a worker meets; nothing may be announced before it is stored; a
  crash must not announce what is not stored, and must not lose what is, except
  where `CreateEmptyFile` was cut off; slots must be counted right; the download
  must end if somebody keeps serving us and nobody holds an index for ever.
* **Piece download.** `BlocksRequesting` and the buffer live longer than one
  call of `getPiece`, messages arrive in any order, late or unasked, and the
  piece index of a message is ignored. `getPiece` must return whole pieces, keep
  to its window, and end when the peer falls silent.
* **Cache.** Lookups are not locked, misses are. The cache must keep its map and
  its list consistent, stay within its size and answer everybody whose piece can be read.
* **Files.** A piece may straddle files; offsets, short files and lengths that
  are multiples of the piece length are the boundaries. Hashing a directory has
  the same loop again, with short reads and empty files in it.
* **Seeding.** One goroutine accepts, shakes hands and takes slots, one per
  connection gives them back, and all share the cache. Slots must come back, and
  a peer must get the piece it asked for while others evict it.
* **Metadata.** A peer may send any message in any order, before it is asked or
  twice; data messages are counted and not looked at. Only the metadata the link
  names may be used, and one honest peer must be enough for metadata that can be
  decoded.
* **Trackers.** Datagrams are lost or come twice, and an answer is matched with
  its request by nothing. It must not yield peers the tracker did not name, and no
  tracker may hold the client up.
* **Routing table.** A split moves nodes between buckets inside a recursive call;
  it must lose none, separate them and end.
* **Bencode.** What is written must be read back unchanged and encode to the same
  bytes, or the info hash changes.

`PROJECT.json` lists every hazard at its line with the properties that cover it.

## Modules

| Module | Models | Role |
|---|---|---|
| `PieceStore` | what a session promises: stored, then announced, then finished; a restart announces nothing that is not stored, and all that is stored unless a crash left a file short | abstract specification |
| `TorrentSession` | the download session | detailed specification, refines `PieceStore` |
| `MCTorrentSession` | constants of the instances | model checking |
| `TorrentSessionProofs` | typing, bitfield, disk; no work lost or doubled, slots, refinement | proofs |
| `FileLayout` | where the bytes of a piece are in the files | operators, with the direct definition |
| `FileLayoutProofs` | what the sums, `FileAt` and the pieces are, for every torrent | lemmas |
| `SessionFiles` | creating, hashing, writing and reading the files | detailed specification of the session's disk |
| `SessionFilesProofs` | bitfield and files, across crashes | proofs |
| `PieceDownload` | `getPiece` and its handlers on one connection | detailed specification |
| `MCPieceDownload`, `PieceDownloadProofs` | its instance and its proofs | |
| `LRU` | a least-recently-used cache | abstract specification |
| `PieceCache` | the shared cache | detailed specification, refines `LRU` with one connection |
| `MCPieceCache`, `PieceCacheProofs` | its instances and its proofs | |
| `Seeding` | the accept loop, its slots and its connections, composed with `PieceCache` | composition |
| `MCSeeding` | its instance; its proofs are in `PieceCacheProofs` | model checking |
| `TrackerClient` | connect and announce over UDP | detailed specification, extended by |
| `MagnetDownload` | from a magnet link over trackers and peers to the metadata and the session | composition |
| `MCMagnetDownload`, `MagnetDownloadProofs` | its instance and its proofs | |
| `RoutingTable` | `PutNode` and `SplitBucket` | detailed specification |
| `MCRoutingTable`, `RoutingTableProofs` | its instance and its proofs | |
| `Bencode` | encoder and decoder | operators (recursive) |
| `TorrentCreation` | making an info from files | detailed specification, over `FileLayout` |
| `TorrentCreationProofs` | its hashes, for every flat directory | proofs |
| `InfoEncoding` | writing a created info and reading it back | operators over `TorrentCreation` and `Bencode` |
| `MCTorrentCreation` | the instance of both | model checking |

### TorrentSession

One variable per shared variable of the Go struct, under the same name:
`workChan`, `failedWorkChan` (sequences of at most `Threads` indices),
`pieceBitField` (the set of its bits), `peersStarted`. `piecesScheduled` and
`schedPc`/`schedPiece` are the locals and the position of `scheduleWork`,
`nextPeer` the index of the loop of `startPeers`, and `pc[p]`, `has[p]`,
`piece[p]`, `data[p]`, `seg[p]` those of the worker of peer `p`. `disk[i]` is the
set of file segments of piece `i` that hold the right bytes, and `whole` says that
no crash has cut `CreateEmptyFile` off and left a file short for good.

Each action is what a goroutine does between two points at which another can
see a difference:

* `scheduleWork`: `SchedCheck`, then the `select` (`SchedTakeFailed` with
  `SchedResend`, or `SchedNoFailed`), then `SchedPick` or `SchedIdle`, then
  `SchedSend`. The sends are disabled while the channel is full.
* `startPeers`: `SkipPeer`, `HandshakeOk`, `HandshakeFails`, `HandshakeHangs`.
* `handlePeerConnection`: `StayChoked`, `Unchoked`, `ConnectionLost`,
  `TakeWork`, `GetPiece` / `GetBadPiece` / `GetPieceFails`, `VerifyPiece`,
  `WriteSegment` (one file under `fileLock`), `MarkPiece`, `Requeue`, `Reject`,
  `Exit`.
* `Crash` ends the process at any point and starts the next one, which hashes
  the files. `RequestPanics` does so because a peer asked for a block on a
  connection whose `pieceCache` is nil. What hashing finds is `Hashed`: exactly the
  stored pieces when the files have their lengths (`FilesWhole`: no file was left
  short, or everything has been stored since); otherwise any part of them, or the
  panic of `initializeBitField` on the closed last file (`schedPc = "panicked"`,
  from which only another start leads on).

`initializeBitField` and `writePieceToFiles` are taken at the level of pieces
and segments; their arithmetic is in `SessionFiles`, whose `BitfieldExact` is what
`Hashed` takes over. The starting disk is any disk, with a short file or without, so
`session_safety` covers resumed downloads and interrupted creations too;
`session_liveness` starts from an empty one without short files.

### FileLayout and SessionFiles

`FileLayout` has the sums and the loop over the files that `writePieceToFiles`
and `getPieceFromFile` share (`FileAt`, `LengthCounter`), and beside them the
definition they must agree with: a piece is a range of the concatenated files.
A byte is its position in the torrent, so a byte in the wrong place is visible.

`SessionFiles` walks through `initialize` call by call (`CreateFile`, `GrowFile`,
`FileDone`, `KeepFile`, `OpenFirst`, `ReadChunk`, `ReadClosed`, `ComparePiece`), then
writes pieces (`WriteBytes`, one file per step) and reads them for peers
(`ReadForPeer`). Nothing checks the index a peer asks for, so `BeginServe` takes any, up
to `MaxBeyond` past the last; `SourceFile` and `SourceOffset` are where the loop over
the files then ends up, and a read that gets nothing is repeated, as EOF is no error
there. `buf`, `fileCounter`, `offset` (the position of the open file), `bytesWritten`
and `pieceIndex` are the locals of the functions. `Crash` may come between any two
steps, so files can be missing or short when the next process finds them. One operation
runs at a time here; the interleavings are in `TorrentSession`.

A crash in `CreateEmptyFile` has consequences worth knowing. The short file is
kept as it is, because it exists; `initializeBitField` then takes bytes of the
next file for it, clears bits of pieces that are stored, or reads past the last
file and panics, at this and every later start. The model reaches all three.
`BitfieldExact` and `WholeNeverPanics` say what holds nevertheless: no bit is
ever set wrongly, and with files of full length none is missed and nothing
panics. A peer that asks for a piece behind the end of a short file, or past the last,
makes `getPieceFromFile` read nothing for ever; `LoopsEnd` says which reads end, those
of announced pieces and those of the torrent's pieces when no file is short.

### PieceDownload

`BlocksState`, `BlocksRequesting`, `nextRequest`, `Piece`, `Choked` are the Go
variables. `Piece[b]` remembers for which call the bytes of block `b` were sent,
which is what tells a piece from a mixture of two. `fromPeer` is the TCP stream
towards us; `asked` the requests the peer still has. The peer answers each
request once in any order, or drops some when it chokes; the blocks it sends beyond
that are counted in `strays`. `PeerTalks` sends messages that have nothing to do with
the piece, as many as the peer likes: `other` ones (keep-alive, have, bitfield and so
on) are read and ignored, `unknown` ones are an error, and each one that is read gives
the next read five seconds more. So `ReadTimeout` needs an empty stream, and a peer that
chokes us and goes on talking holds `getPiece`, and with it the worker's index,
for ever.

### PieceCache

`pieces` and `list` are the map and the list, `pieceLock` its holder. An element carries
the number of the request that made it, so that two elements for one piece are told
apart, and `element[t]` is the one whose piece the last call of connection `t` returned.
`LRU` has the request of its one client in `asked`, so that refinement says which piece
was answered and not only which ones are kept. Lookup, move to the back, `Lock`, the
read of the files (`getPieceFromFile`), eviction and insertion are steps of their own.
The read holds the lock, and that of an index in `Endless` owes no end: those are the
indices whose bytes the files do not have, which `SessionFiles` shows to be read for
ever, or for as long as the files stay so. Whoever misses then waits; whoever hits does
not. `raced` marks an unsynchronised access of two goroutines of which one writes; the
Go memory model promises nothing after it, and neither does the model.

### Seeding

`backlog` is the queue of the listener, `conn[p]` says how far the connection of
peer `p` has come, `peersStarted` is the Go variable. `Accept`, `HandshakeDone`
and `HandshakeFails` are the loop of `StartSeeding`; the handshake is done in it
and has no deadline. `Request`, `SendPiece` and `Leave` are the goroutine of a
connection; the first two drive an instance of `PieceCache` whose threads are the
peers, so every interleaving of lookups, locks, evictions and insertions with the
accept loop is there. Worth knowing: a silent handshake holds the accept
loop, a silent connection keeps its slot, a connection whose read never ends keeps its
slot too and all that miss with it, and a piece whose read failed is cached and sent
as zeros, since the error of `getPieceFromFile` is dropped.

### TrackerClient and MagnetDownload

`TrackerClient` is one socket: `requests` are our datagrams on their way,
`datagrams` what has arrived, `connectionId` what was taken from the first
answer. A datagram is its length, an id and the peers it lists, which is all that
the parser looks at: `parseAnnounceResponse` counts peers by the length alone, so
a connect answer is an empty list and a long error packet yields an address
(`Junk`). `ReadConnectAnswer`, `ReadAnnounceAnswer` and `ReadTimeout` are the
reads; `TrackerAnswers` is the network.

`MagnetDownload` has the client's position in `pc`: `ParseMagnetUri`,
`GetLiveTrackerAddresses` (any order of any subset, since one goroutine per address
appends), `NextTracker`, `NextPeer`, `Handshake`, `AwaitUnchoke` and `ReadMessage` until
unchoked, `getMetadata` with `RequestPiece` and `NextPiece`, `VerifyMetadata`, then
`GetPeers` with random trackers and `StartSession`. `link` is the `PeerConnection`, with
`MetadataRequestState` in `buffer` and `received`. A peer sends any sequence of
`Messages`; `Seed` is an honest one, which adds only chokes and messages without effect.
`named` is what the decoder makes of the metadata the link names: an info dictionary,
`nothing` (an error, such as it makes of an empty list, or a value that is not a
dictionary), or the panic of a dictionary without the keys; `VerifyMetadata` comes to it
only after the hash was found right. Worth knowing: a client that has found no metadata
logs nothing and dereferences the nil pointer (`nilInfo`), a list without live trackers
panics in `rand.Intn`, a negative metadata size panics in `make`, a connection lost
while choked is followed by `getMetadata` all the same, right metadata that cannot be
decoded makes the client give up every honest peer, and a peer that never unchokes and
never closes is asked again for ever.

### RoutingTable

An identifier is the set of its one-bits, `buckets` the map from a bucket's key,
`pending` the argument of the call of `PutNode` that is running. `Exists`,
`Insert` and `Split` are the three ways through `PutNode`, and after `Split` the
call runs once more, as the recursion does. Worth knowing: `maskCounter` is
never raised, so there is one split only, and `PutNode` never returns from the
ninth node that shares the first bit with us; the bucket of the others has no
limit.

### TorrentCreation, Bencode and InfoEncoding

`TorrentCreation` starts from a tree of files: every subset of a listing, every
combination of lengths. `createSingleFileTorrentInfo` and `ReadSingleFile` are
the loop over one file, `createMultiFileTorrentInfo`, `ReadFile`, `ReadFails` and
`HashPiece` that over a directory; `FileLayout` says what the hashes should be.

In `Bencode` a text is a sequence of tokens, a number or a string being one
token each; `Encode` and `DecodeWithCount` with `decodeList` and `decodeDict` are
the Go functions, recursive as they are. `InfoEncoding` is a module of its own so
that `TorrentCreation` stays free of recursion and can be proved about:
`ToBencodedString` and `NewTorrentInfoFromBencodedDict` write the info and read it.

Worth knowing: a directory whose length is a multiple of the piece length
gets the hash of an empty piece more (`HashesTheContents` states exactly when), a
file in a subdirectory is recorded by its last name alone, so that the file of
that name at the top is read in its place or none is, and in the latter case the
info is left without any hash and without an error.

## Runs

| Run | Instance | What it shows |
|---|---|---|
| `session_safety` | 2 pieces (one over 2 files), 3 peers, 2 slots, 1 fault of any kind, every starting disk, short files or not | types, `BitfieldSound`, `NoLostPiece`, `NoDoubleDownload`, `SlotBound`, `Durable`, `NeverSpoiled`, refinement of `PieceStore` |
| `session_liveness` | 2 pieces, an unreliable peer, then a steady seed, 2 slots, 2 faults of any kind | `Completes`, `FailedIsRescheduled` |
| `session_jam` | 4 pieces, 1 steady peer, capacity 1, 4 bad pieces | `FailedIsRescheduled` fails: a deadlock |
| `session_files` | every layout of up to 3 files of 0 to 2 bytes in pieces of 1 to 3 bytes, 2 crashes, indices up to 2 past the last | `BitfieldExact`, `WritesStayInside`, `ServesThePiece`, `WholeNeverPanics`, `LoopsEnd` |
| `piece_download` | 2 pieces of 3 blocks, window 2, 1 stray, 1 choke, any number of other messages | `ReturnsWhole`, `ReturnsOwnBlocks`, `WindowBound`, `CallEnds` |
| `cache_shared` | 2 connections, 3 pieces of which 1 may be read for ever, size 2, 5 requests | `MappedInList`, `AnswersOwnPiece`, `Served` |
| `cache_sequential` | 1 connection, 4 pieces, size 2, 7 requests | `MapListAgree`, refinement of `LRU` |
| `cache_bound` | 2 connections, 4 pieces, size 2, 5 requests | `CacheBounded` fails |
| `seeding` | 3 peers of which 1 may be silent, 2 slots, 3 requests for 2 pieces, cache of 1 | `SlotsAreCounted`, `WaitersAreAccepted` |
| `magnet` | 2 trackers of which 1 may err, a seed and an arbitrary peer with 4 messages, 2 pieces of metadata, 1 repeated datagram | `MetadataVerified`, `AnswerFromTracker`, `SeedSuffices`, `OnlyPeersHold` |
| `routing_table` | all 8 identifiers of 3 bits, buckets of 3 | `KeepsNodes`, `LastBucketBound`, `PutReturns` |
| `torrent_creation` | every subset of 4 files of 0 to 2 bytes, one in a subdirectory, pieces of 1 to 3 bytes | `HashesTheContents`, `ReadsBack`, `CreationEnds` |

**Why these bounds.** Two pieces separate the index an empty channel yields (0)
from an ordinary one, and one of them straddles two files, so that a crash
between files happens. Three peers for two slots make the last one skipped or
given a freed slot. One fault of each kind meets every position of every
goroutine. Both channels fill in `session_safety`, since idle workers give back an
index 0 nobody handed them, and every send is met while it blocks; `session_jam`
is the instance in which all block at once. Three files of at most two bytes
with pieces of at most three give pieces over three files, files of several
pieces, empty files in every position and last pieces that are short or whole; reads
for indices past the last find bytes of the last file, some, or none.
Three blocks with a window of two make the window full, and two calls let a late
block and the left-over of `BlocksRequesting` meet the next piece. Two
connections and five requests are enough for a duplicate element, its eviction
and one more insertion, and for a hit that moves an element evicted, or read in
again, since it was looked up. In `seeding` the third peer waits while two hold the
slots and while the silent one holds the loop. In `magnet` the tracker asked
first may hand out the arbitrary peer before the seed, or nothing; four messages
are an extension handshake, an unchoke and two data messages, that is, complete
metadata right or wrong, or any shorter mischief; one repeat on a socket lets a
second connect answer be read as the answer to announce. In `routing_table` four of the
eight identifiers share the first bit with us, one more than a bucket holds, so
the recursion that does not end is reached and so is every state before it; the
other four overfill the far bucket. In `torrent_creation` a file of the
subdirectory has the name of one at the top, and the lengths give short and whole
last pieces, pieces over three files, empty files first, last and in between.

Deadlock checking is off in all runs but one because the systems may really stop: the
session when the download is over and the workers have left (and in the jam
above), the download and the cache runs when their bounds are used up. `routing_table`
checks it: putting a node that is there already is always possible.

**Fairness.** `TorrentSession!Fairness` is weak fairness of the scheduler, of
`startPeers`, and of each worker once it has left the head of its loop: the Go runtime
runs a goroutine that can run. Sends on full channels are not enabled and so owe
nothing. A peer owes nothing either, neither an unchoke nor an end of `getPiece`, except
one in `Steady`, which unchokes us again and again and answers our requests; the
liveness run has one such seed. A session without such a peer need not finish, and
`Completes` names what else may keep it from it: the seed has no slot, a peer that is
not steady holds an index in `getPiece` for ever (`HeldByPeer`), or the channels jam
(`Jammed`). In `PieceDownload` the reads of the client are fair and the peer is not; the
read timeout is fair only where nothing arrives, since every message restarts it, so
`CallEnds` excepts a peer that sends messages for ever. In `PieceCache` the goroutines
run, reads of indices in `Endless` need not end, and taking `pieceLock` is strongly
fair, since `sync.Mutex` hands itself to a waiter that has waited a millisecond;
`Served` names the endless read as the only reason not to be answered. In `SessionFiles`
a process that has something to do goes on; a read that gets nothing goes on too, and
gets nowhere. In `MagnetDownload` the client runs on, its reads have deadlines, and the
seed, nobody else, completes its handshake and answers within the second the client
waits; trackers owe nothing. In `Seeding` only the accept loop and the handshakes of
`Prompt` peers are fair: connections may ask, stay silent or leave as they like. In
`RoutingTable` a call goes on, and so does the one of `TorrentCreation`.

**What the two violations say.** `session_jam`: after resending one failed
index `scheduleWork` pushes a new one without looking at `failedWorkChan`; when
`workChan` is full and every worker waits to give back an index, both sides
wait for ever. `cache_bound`: two connections that miss the same piece insert it
twice; when the older element is evicted the map entry of the newer one goes,
and the eviction of the orphan later removes no entry. The map then holds
`cacheSize + 1` pieces, and because the test is `==` it is never trimmed again.

**Mutants.** Each property is accompanied by a wrong variant of an action, kept
next to the actions in a section of its own, that makes it fail.

## Proofs

Checked by `tlapm`; the assumptions are only those named in the modules
(`SessionAssumption`, `FilesAssumption`, `DownloadAssumption`, `TableAssumption`,
`MagnetAssumption`, `CacheAssumption`, `LockAssumption`, `CreationAssumption`:
constants are of the right kind, some tracker knows the seed, nobody is called like
the free lock, and a walk meets no path twice) and, for the slots, that the limit is a
number.
Every theorem holds for any number of peers, pieces, segments, slots and faults.

`TorrentSessionProofs`
* `TypeCorrect`. The type invariant is inductive as it stands.
* `BitfieldIsSound` (`BitfieldSound`). Not inductive: that a bit is set only
  after the last file was written needs to know what a worker has written so
  far. `WritersKnow` says that a worker that writes carries verified bytes, that
  the segments before `seg[p]` are right, and that at `mark` all are. It survives
  the steps of *other* workers because no step takes right bytes off the disk,
  which in turn holds because whoever writes carries verified bytes.
* `DiskIsNeverSpoiled` (`NeverSpoiled`) and `BitfieldIsDurable` (`Durable`)
  follow from that invariant. Across a restart, durability is soundness: with files of
  full length hashing finds what is stored, and what was announced is among it. With a
  short file the code keeps no such promise and the theorem makes none (`FilesWhole`).
* `NoPieceIsLost` (`NoLostPiece`): each piece handed out and not had is
  *somewhere*. One case per action that takes an index from one place and puts
  it in another.
* `NoPieceIsDoubled` (`NoDoubleDownload`): not inductive, since two copies in one
  channel and one copy in each of two places must be told apart. `AtMostOnce` says
  of an index other than 0 that it occurs once at most in each channel, is carried
  by one worker at most, is in one *kind* of place only, and is anywhere only
  while it is handed out and not had. Every step that puts an index somewhere
  takes it from where it was; only `SchedPick` creates a copy, of an index that was
  nowhere. Index 0, which `TakeWork` makes up, is the exception the theorem names.
* `SlotsAreBounded` (`SlotBound`): the number of active workers changes exactly
  with `peersStarted`; uses the cardinality theorems of the library.
* `SessionImplementsStore` (`ImplementsPieceStore`): each step maps to a step of
  `PieceStore` or a stutter, under the invariant above. A restart maps to `Recover`,
  which may lose announcements only when `intact`, that is `whole`, is false and something
  is still missing.

`FileLayoutProofs`, for every sequence of lengths and every `PieceLength`
* `LengthCounter` is a recursive function; that it sums the lengths, and grows
  with its argument, is by induction on the file. The library's induction theorem takes
  the property as an operator, which the provers cannot instantiate; `SetInduction`
  has a set of numbers instead, and rests on a minimal element of its complement.
* `FileAtFound` and `OneFile`: the file of a position is where the search stops,
  and no other, files of no bytes notwithstanding. `PieceStarts`, `PieceSizeIs`,
  `PieceBytes`, `PieceContents`: what rounding up and the shorter last piece come
  to, by the laws of division in `DivisionIs`; the bytes of a piece, defined by
  `\div`, are one run, and `Contents` lists it.

`SessionFilesProofs`
* `Invariant` has nine parts, checked with TLC on the bounds of `session_files`
  before the proof. `DiskOK`, the heart of it: each byte in a file is blank or in its
  place. It holds because `CreateEmptyFile` appends blanks, and `WriteBytes` writes
  a byte at its position less the lengths of the files before its file, which is
  inside the file.
* `BitsAreExact` (`BitfieldExact`). *Not too many* needs no assumption about the
  files: whatever short files make `initializeBitField` read, the buffer has blanks
  and bytes that are held somewhere in their place (`Hashing`), so a buffer that is
  the contents of a piece shows that the piece is intact. *None too few* needs files
  of full length: then `LengthCounter` of the current file plus `offset` is
  `pieceIndex * PieceLength` plus the bytes in `buf`, through every file that ends
  before, with or after the buffer (`HashingWhole`), so an intact piece is found so.
* `WritesInside` (`WritesStayInside`): a held byte is at one place of one file, and a
  write puts there what is there or is elsewhere. That no *other* piece becomes intact
  unnoticed, which exactness also needs, is part of the same lemma (`WriteBytesOK`).
* `PeersAreServed` (`ServesThePiece`): an announced piece is intact, so at each
  position the file `FileAt` names has the byte (`ReadAnnounced`), and the reads end at
  the end of the piece (`Serving`). Of any other index the invariant keeps only that the
  buffer is no longer than the piece (`ReadAny`).
* `WholeFilesHashed` (`WholeNeverPanics`): with full files the cursor cannot be past
  the last file while bytes of a piece are missing.
* `TypeCorrect` (`TypeOK`).

`PieceDownloadProofs`
* `TypeCorrect` (`TypeOK`), inductive but for the first call having been made.
* `PiecesAreWhole` (`ReturnsWhole`): the invariant is that in the loop the
  blocks before `nextRequest` are those asked for and `BlocksRequesting` is at
  most the number of REQUESTED blocks. When none is REQUESTED the count is not
  positive, the window is open, so the loop would have asked for the next block
  if there were one.
* `PiecesAreOwn` (`ReturnsOwnBlocks`): while the peer has sent nothing unasked
  (`strays = 0`), what is under way, as a request at the peer or as a message in
  the stream, belongs to a REQUESTED block of the piece being fetched, and at most
  one thing does for each block (`OwnInv`). So when `getPiece` returns, nothing is
  REQUESTED and therefore nothing is under way that could land in the next piece.
  The invariant is only needed and only kept before the first stray, and strays
  never decrease.
* `WindowIsBounded` (`WindowBound`): `BlocksRequesting` falls behind the REQUESTED
  blocks by each block that arrives for nothing, and one that arrives late may be
  still under way, so the bound is not inductive. `WindowInv` counts what is under
  way, as a request or as a block in the stream, plus the REQUESTED blocks that the
  peer has dropped: together at most `BlocksRequesting + strays`, since whatever is
  under way takes one off the count when it is read. Every REQUESTED block is
  dropped or under way, which gives the bound.

`PieceCacheProofs`
* `TypeCorrect` (`TypeOK`) and `EntriesAreListed` (`MappedInList`), for any number
  of connections: they need each other, because eviction takes the front of the
  list, and a full map has an entry and therefore an element in the list.
* `AnswersAreOwn` (`AnswersOwnPiece`): the map files every element under its own
  index, and what a connection has looked up is what it looked for until it has
  moved it (`Found`), whatever the others evict or read in again meanwhile.
* `MapAndListAgree` (`MapListAgree`) and `OneConnectionIsLRU` (`ImplementsLRU`), for
  `Threads = {t}`: each index is in the list once, the map has exactly the indices
  of the list, and what the connection has found is still so when it acts on it.
  With two connections the first fails (`cache_bound` shows how).
* `SlotsAreTaken` (`SlotsAreCounted`): the slot is checked before the connection is
  accepted and taken after its handshake; `Slots` adds that one peer at most is
  in its handshake, that a slot is still free for it, and that the backlog holds
  waiting peers only, each once, so no step serves a peer that is served already; steps
  of the cache move only peers that are in `GetPiece` or served.

`RoutingTableProofs`
* `TypeCorrect` (`TypeOK`): the keys are the subsets of the mask, which is empty or the
  first bit. Inductive as it stands; no run repeats it, and the other two use it.
* `NodesAreKept` (`KeepsNodes`): not inductive, since the node of the running
  call may be filed already; `Filed` says that every filed node, put or pending,
  is where `PutNode` looks for it. A split keeps it because it redistributes the last
  bucket by the new mask, and a second split does not change the mask.
* `LastBucketIsBounded` (`LastBucketBound`): a split can only shrink the last
  bucket, and an insertion happens only when it is not full.

`MagnetDownloadProofs`
* `MetadataIsVerified` (`MetadataVerified`): `ti` is set only after the hash was
  compared, and the positions before the session are reached only with it.
* `AnswersAreTheTrackers` (`AnswerFromTracker`): what lies on a socket was sent
  by the tracker the socket was opened to (`SocketOK`), and of these datagrams
  only an error packet is longer than a header without listing peers.
* `TypeCorrect` (`TypeOK`): the part that says something is that the pieces asked
  for, and the next one, are pieces of the buffer. `getMetadata` makes the buffer
  anew with whatever size the peer has named by then, and a peer may name another
  size later; `LinkOK` adds that nothing is asked for before there is a buffer, that
  an awaited piece is one of it, and that no message changes its length.

`TorrentCreationProofs`
* `HashesAreOfContents` (`HashesTheContents`), for every listing, all lengths and
  every piece length; the invariant was checked with TLC on the bounds of
  `torrent_creation` first. `ReadInv` is the loop over a directory: the lengths of
  the files before the open one plus `offset` are what is hashed plus what is in
  `buf`, and `buf` is the run of bytes that follows the last hash. A `Read` keeps it
  whether it fills the piece, ends a file inside it, or finds a file of no bytes; and
  when the last file has ended `buf` is less than a piece, so the last hash is of
  the rest of the contents, which may be nothing (`CreatedInv`). `SingleInv` is the
  same for one file, where `offset` alone is the cursor. That `os.Open` opens the file
  the loop means needs that no path occurs twice and that no directory is cut from
  a path, hence `Flat`, as the property says: `IInv` claims nothing of the loop in
  other directories.

Only model-checked, and why
* `ReadsBack`: what `Bencode` computes is recursive over data.
* All liveness: `Completes`, `FailedIsRescheduled`, `CallEnds`, `LoopsEnd`,
  `PutReturns`, `Served`, `SeedSuffices`, `OnlyPeersHold`, `WaitersAreAccepted`,
  `CreationEnds`. `CallEnds`, `Completes`, `Served`, `LoopsEnd` (for reads),
  `SeedSuffices`, `OnlyPeersHold` and `WaitersAreAccepted` each name the ways in which
  the code really can be held up for ever, and say that there is no other.

## Not modelled, and why

* The bytes within frames, datagrams, magnet links and bitfields, SHA-1 (data is
  right or not), logging and timing. A frame cut by a deadline is, for the reader,
  a stream of arbitrary messages, which `MagnetDownload` has.
* A stray message before the first `getPiece` divides by zero and ends the process;
  that the process may end at any point is a fault of `TorrentSession`, and
  `PieceDownload` starts with the first call.
* What is read from the wrong place, by `initializeBitField` behind a short file or for
  a peer past the end, never hashes like a piece (in `SessionFiles` bytes are distinct).
* A request for bytes outside of a piece slices out of range and ends the process;
  `Seeding` has blocks within pieces only, whatever their index.
* Errors of the file system panic in the code and are therefore instances of
  `Crash`. A data race on `peersStarted`, which `startPeers` reads without its lock,
  has no effect: only `startPeers` raises it, and a stale read is a read at an
  earlier point of the same interleaving.
* `GetMetadata` of a session and `UDPTracker.AnnounceAndGetPeers`: called by
  nothing but a debugging function and by nothing; their loops are those of
  `MagnetDownload`. `ParseTorrentFile` reads fields of a decoded dictionary.
  `CreateDir` and `CalcInfoHash` are plain file I/O.
* The DHT's queries and `AddNode`: the client leaves `RoutingBucket` nil, a query
  is one datagram and its answer, and no state outlives it.
* `cmd/trackerwidget` prints what a tracker answers; of `cmd/client` the flags.

## Plan

What is left, in the order of what it would add:

1. `PeerWire`: the frame reader byte by byte under its two deadlines, composed
   with `PieceDownload`, to say what an honest but slow peer is taken for.
2. `GetMetadata` of a session.
3. A proof that `TorrentSession` with one worker at the disk does what `SessionFiles`
   does byte by byte.
