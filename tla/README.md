# A TLA+ model of sbnet

sbnet is an onion-routing overlay: a client picks three relays from a signed
consensus, builds a circuit through them one hop at a time, and sends proxied
requests through layers of AES-GCM. Directories keep and gossip the list of
relays; a broker, bridges and volunteer "kinds" (WebRTC peers) help clients that
cannot reach an entry relay directly. Paths below are relative to the repository
(`src/`).

## 1. The system

| Part | Code | State | Operations that change it | Module |
|---|---|---|---|---|
| Relay | `relay/main.go` | circuit table (`Key`, `InConn`, `OutConn`), one `handleConn` goroutine per connection, one `forwardCells` goroutine per extended circuit | Create, Extend (forwarded or local), Relay, Destroy, connection end, response forwarding | `Telescope` |
| Idle sweeper | `common/replay.go` (`TimeoutTracker`) | `lastSeen` | Touch, Remove, sweep + callback | `Telescope` |
| Client handshake | `client/main.go` (`buildCircuit*`, `extendCircuit`, `close`) | `Circuit.Keys`, the connection | dial, Create, two Extends, close | `Telescope` |
| Requests on a circuit | `client/main.go` (`sendRequest`), `relay/main.go` (`handleExitRelay`, `sendExitError`, `sendDone`, `forwardCells`) | the shared connection, its read deadline, cells in flight | send, read a cell in two reads, deadline, cancel, exit chunk / error / done | `Stream` |
| Circuit pool | `client/main.go` (`CircuitPool`, `main`) | `circuits`, `ready`, `counter` | `get`, `send`, `buildAll`, bridge-mode fill, shutdown | `CircuitPool` |
| Directories | `directory/main.go` | `relays`, `brokers` with `LastSeen` | `/register`, gossip, `/sync`, `/consensus`, restart | `Directory`, `LWWRegistry` |
| Kind rendezvous | `broker/kind.go`, `kind/main.go`, `webrtcx/conn.go` | `pending`, `offers`, answer channels, workers, peer connections | connect, poll, answer, serve, open, open timeout | `KindRendezvous` |
| Path selection | `client/main.go`, `kind/main.go`, `common/consensus.go` | the copies of the consensus, the guard file | rotate, rebuild, load or pick and write the guard, refresh | `Paths` |
| Broker assignment | `broker/main.go` | relay list, tokens | assign, validate, gc, poll, restart | `Paths` |
| Bridge | `bridge/main.go`, `client/main.go` | one session: stage, two pumps, two connections | handshake, dial, Created, pump, close | `Bridge`, `Tunnel`, `BridgeMode` |
| Cells on the wire | `common/cell.go`, `common/obfs.go`, `webrtcx/conn.go` | `Reassembler`, `rbuf`, the reader's position | preamble, write, read, reassemble | `Wire` |
| Front ends, keys, config, logging | `client/main.go`, `common/*` | none shared | parsing, I/O, cryptography | not modelled |

How they interact: the client fetches the consensus and chooses a path from it,
or lets a broker or a volunteer choose; the pool builds a circuit along it
(handshake with the relays), requests share it, and a failed request rebuilds
it. Relays and brokers register with the directories. In kind mode the client's
entry connection is a WebRTC data channel that the broker arranged and a
volunteer splices to an entry relay. In bridge mode a bridge takes the client's
connection to an entry of another network and renames circuit IDs on the way.

What makes it hard: proxy goroutines share one connection without a reader lock;
what is read under `p.mu` is used after the unlock; the sweeper collects under a
lock and acts after it; a connection may vanish between any two steps of an
extension, leaving hops the client can no longer reach; response cells grow at
each hop and must still fit; gossip is one hop, unordered, lossy and stamped by
clocks that differ; a data channel's opening races its timeout; the client, the
broker and the volunteer choose from lists of different age; two builders share
one guard file; a bridge's pumps block on peers that do not read. `PROJECT.json`
lists these hazards at their source lines with the properties that watch them.

## 2. The modules and the code

### Telescope

One circuit identifier, `N` relays, the client as node 0. Identifiers are fresh
random numbers and each connection carries one circuit, so circuits are
independent. `fwd[h]` and `bwd[h]` are the two directions of the TCP connection
that relay `h` accepted; `closed[h]` its closed ends. A key is the pair of
ephemeral keys it was derived from; a body is the sequence of keys it is
encrypted under. Decryption succeeds under the outermost key only (GCM
authenticates).

`Dial`, `HandshakeReply`, `HandshakeFails`, `SendRequest`, `ReadResponse`,
`ResponseEnds` and `Close` are the client. `ReadCell` is `handleConn`'s read and
the `Touch` with which `handleCell` begins; `HandleCreate`, `ForwardExtend`,
`StartExtend`, `HandleRelay` and `HandleDestroy` are its branches, in steps of
their own because other goroutines run between the tracker's lock and the
table's. For the same reason `destroyCircuit` is two steps, the table and then
the tracker's `Remove` (`DestroyEnds` for a Destroy cell, `SweepEnds` for the
sweeper). An extension performed by the relay itself blocks its
`handleConn`, so it is split where it blocks: `StartExtend` (up to the dial),
`ExtendDialed` / `ExtendDialFails`, `ExtendCreated` / `ExtendFails`. `ConnEnds`
is `handleConn`'s return, `forwardCells` / `ForwarderEnds` the response
goroutine, `ExitChunk` / `ExitDone` the exit's goroutine, `Idle`,
`SweepCollect`, `SweepDestroy` and `SweepEnds` the sweeper, `ConnLost` the
network. `Idlers` bounds the relays at which `circuit_idle_secs` may pass;
`overtaken` is a history variable: the relays where a sweep came between the
`Touch` and the insert of the Create. `OutConn` is written without a lock while `destroyCircuit` reads it: a
read that misses the write behaves as if it came before it, which is one of the
interleavings the model has.

### Stream

A built three-hop circuit with several concurrent `sendRequest`s. Cells carry
their body length, since whether a body still fits after the next layer
(`CellBodyMax` = 505, 28 bytes per layer) decides whether a forwarder survives.
A cell is read in two reads (length, then body) and two goroutines can interleave
them; a reader that takes a length from the middle of a frame is in state
`"lost"` and reads garbage. `Deadline(S)` lets the 60 s deadline fire for any of
the goroutines reading at that time; `armed` is cleared by whichever
`sendRequest` returns first, as the deferred `SetReadDeadline` does.
`EntryTimeout` is the entry's five-minute read deadline. DNS and the origin are
the choice between chunks, an error reply and the end.

### CircuitPool

Calls of `send` and two `buildAll`s (start-up and rotation). `get` reads its slot
under the lock, and `ReplaceBuilt` and `Install` come after the unlock; `send`
goes on with `Send`, `RebuildBuilt`, `Swap`, `Resend`. `TakeAll`, `BuildOne` and
`ReplaceAll` are `buildAll`. `outcome` says how `sendRequest` ended; `"full"` and
`"cut"` both come with a nil error, as in the code. `bridge` is the
configuration: with it, `BridgeStart`, `BuildOne` and `BridgeFill` are the
start-up goroutine's own fill, there is no rotation, `buildOne` has no relays to
build from, and `sendRequest` fails, since a bridge circuit has the key of its
first hop only. `Shutdown` closes what is in the pool and ends the process; its
memory is reset, as nothing of it can be observed.

### Directory and LWWRegistry

`Register` is `/register` up to the stamp, `Store` the rest: the stamp is read
before the lock is taken, so handlers can overtake each other. `gossip` reads
the clock for its POSTs right after the unlock, in the same goroutine; the model
does it in the step that stores, so a clock tick between the two is left out.
`handleSync` refuses what lies outside the window and applies only what is
newer. `LoseGossip` is a failed,
refused or abandoned POST, `Restart` a process that starts again with empty maps.
`LWWRegistry` is the abstract specification: each directory holds for each id at
most one accepted registration and replaces it only by a strictly newer one.
`issued` and `missed` are history variables.

### KindRendezvous

`Offer`, `Enqueue`, `TakeAnswer`, `WaitExpires` and `ConnectReturns` are
`ClientDial`'s POST and `handleKindConnect`; `poll`, `PollTakes`, `PollCheck` and
`PollExpires` the worker's long poll; `VolunteerAnswer`, `Submitted`,
`SubmitFails`, `TakeResult` and `TunnelEnds` are `serve`; `AnswerLookup` and
`AnswerSend` are `handleKindAnswer` before and after its unlock; `OnOpen`,
`TimerFires` and `TimerCloses` the callbacks of the peer connection. `resCh` is
the one-slot channel between them.

### Bridge, Tunnel and BridgeMode

`Bridge` is one `handleClientConn`: `ReadHandshake`, `Dial`, `ReadCreated` and
`SetupFails` (deadlines, refusals, a foreign entry that cannot be had) up to the
pipe, then two pumps, `PumpRead` and `PumpWrite` with their failures, and `Done`,
the receive from `done` with the deferred closes. A cell that a pump has read and
not yet written is in `held`. The four half-connections are queues of at most
`Buf` cells, so a write can block; a peer may write, read or close at any point,
and what it had written before closing may or may not still arrive. `Tunnel` is
what one direction promises, over what went in and what came out. `UpTunnel` and
`DownTunnel` instantiate it with a refinement mapping: what went in is what the
source wrote, under the other side's circuit ID.

`BridgeMode` replaces the free peers by the client's `dialBridge` and
`buildCircuitViaBridge` and by the `Create` branch of the foreign entry's
`handleCell`, and follows the keys.

### Wire

One direction of a connection, in bytes that are counted and not spelled out.
`Init` has written the obfuscation preamble; `Pass` gives the relay a payload,
`Write` writes one cell of it in any of the frames `MarshalCell` can make, and
`Segmented` cuts and joins what is written as TCP and `io.Copy` do. `Read` is one
read (`Conn.Read` with its `rbuf`, of which TCP is the case that it is empty at
message boundaries), and `Waited` what follows when an `io.ReadFull` or
`io.CopyN` has its bytes: `readObfsPreamble`, `ReadCell` in its two reads,
`UnmarshalCell`, and the fragment branch of `handleCell` (`Handle`). A piece of a
payload is an interval; what `Joined` makes of intervals that do not follow one
another is `Torn`.
`common/obfs.go` does not compile as committed (`function tlsObfsHandshake`, and
its callers pass one argument where `ObfsHandshake` takes three); the model has
`basicObfsHandshake`, to which each mode comes in the end.

### Paths

Three configurations: direct, broker, kind. `list` holds the consensus each of
client, broker and volunteer has; `Change` is the directory serving another one,
`pollConsensus`, `refreshConsensus` and `Rotate` the refresh loops, with the
freshness window of `FetchVerifiedConsensus` against each holder's clock skew,
to which a download adds up to the HTTP client's 15 s. A
build takes its list at the start (`Rotate`, `NextOfAll`, `Rebuild`) and then its
hops: `loadOrPickGuard`, `TruncateGuard`, `WriteGuard` (`os.WriteFile` in its two
halves, whose errors are ignored) and `buildDirect`; or three `handleAssign`s; or
`buildViaKind` and the volunteer's `pickEntry`. The random choice and the
broker's score are a choice among the relays of the role. The token store's
entries do not affect each other, so one token, any of those issued, is
followed, with the clock in half seconds because the client is told whole ones.
`raced` and `served` are history variables.

## 3. The runs

| Run | Bounds | Checks | Shows |
|---|---|---|---|
| `telescope` | 3 hops, 1 request, 1 chunk, idle time at hop 2 | `KeyAgreement`, `OnionIntact`, `TelescopeOrder` | passes, 692 k states |
| `telescope_teardown` | 2 hops, 1 request, idle time at both | `SweeperSeesAll`, `EventuallyTornDown` | passes, 343 k states |
| `stream` | 2 requests, 2 chunks or error replies, 1 lost connection | `UnsharedResponse`, `ChunksOnceInOrder`, `ForwarderStopsWithConn`, `EveryRequestReturns` | passes, 1.1 M states |
| `pool` | 2 calls, pool of 2, 5 circuits, 1 rotation, 1 death, both modes | `ClosedOnlyInTransit`, `ReadyWhenSettled` | passes, 2.3 M states |
| `pool_failure` | 2 calls, pool of 2, 4 circuits, 1 rotation, 1 death | `FailureRebuilds` | violated: a response cut off by a broken circuit counts as success |
| `directory` | 3 meshed directories, 1 id, 2 contents, clocks to 3, 2 registrations, 1 restart | `GossipReaches`, `SameConsensus`, `RegistrySpec` | passes, 593 k states |
| `kind` | 2 clients, 2 workers, capacity 1 | `OfferHandedOutOnce`, `NoOrphanPeer`, `WorkerComesBack` | passes, 269 k states |
| `kind_timeout` | same | `TimeoutSparesTunnel` | violated: the open timeout closes a tunnel in use |
| `bridge` | 4 cells up, 3 down, buffers of 1 cell | `UpTunnel`, `DownTunnel`, `SessionEnds`, `UpDelivers` | passes, 110 k states |
| `bridge_keys` | handshake and Create | `SessionKeyShared` | violated: the entry answers the handshake's key, the client uses the other |
| `wire` | 2 payloads of 8 sizes, 4 preambles, 2 frames in flight, 3 fragment indices | `PayloadsInOrder`, `ReaderInStep`, `NothingLeftBehind` | passes, 778 k states |
| `paths` | 4 relays, 3 consensuses, 2 builders, 2 builds, 2 changes, 1 restart, clock to 4 | `SoundPath`, `TokenHonoured`, `GuardKept`, `ListsConverge` | passes, 469 k states |

Every module's `TypeOK` is checked in its main run. Each property of a passing
run has a mutant of the modelled code (defined just before the operator it mutates)
under which the run fails.

Why the bounds are enough. Three hops are the code's number, and every role
(entry, middle, exit) occurs; the idle time may pass at the middle one, which has
a neighbour on either side. The teardown run has two hops and lets it pass at
both: with every lock a step of its own three would be much larger, each relay
only interacts with its neighbours, and the theorem `SweeperComplete` covers any
number. Two
requests, two builders, two clients and two workers are what an interleaving
needs; two chunks in all are needed for order and gaps, within a response or
between two; a pool of two tells slots apart, and five circuits let each of them
be replaced and rebuilt. The request sizes 421 and 422 stand on both sides of
the largest request, the chunk size 421 is the largest the exit uses, and the
error sizes 422 and 478 are the smallest that overflow at the entry and the
smallest the exit itself refuses. Clocks to 3 with a window of 1 and an age of 2
give skews inside and outside both. A buffer of one cell makes every bridge
write block. The payload sizes of `wire` are those at the edges of a padding
bucket, of a cell, of one, two and three fragments; with three index values
instead of 65,536 the wrap-around happens at 1,498 bytes; the preamble bytes give
lengths on both sides of 255. The consensuses of `paths` include one where an
entry has become the exit and one without exit or brokers; the client's clock is
585 s ahead, where the slowest download just makes the window, and the broker's
60 s behind, at its other end.

Symmetry is used for requests, directories and contents only in runs without
liveness properties. `CHECK_DEADLOCK FALSE` is used for the directories, whose
bounded clocks and registrations run out, for the bridge, whose session ends, and
for the wire, whose payloads do; elsewhere a behaviour may only stop in a state
where every process has finished, so deadlock is checked.

Fairness. *Telescope*: a runnable `handleConn` runs (its reads and dials have
deadlines; its writes, which have none, are taken to return), time passes, and
the sweeper ticks and completes. *Stream*:
goroutines with something to read run, and the entry's five-minute deadline
passes; the 60 s deadline is not assumed, because another request may have
cleared it. The set of requests is finite: a client that keeps sending cells
keeps the entry's deadline from passing. *KindRendezvous*: the volunteer's
timer, its HTTP client's 35 s timeout and its receive from `resCh`; nothing about
clients, broker or network. *Bridge*: the session's goroutine and the pumps run
when they can, its deadlines pass, and the foreign entry, whose `handleConn`
loops on `ReadCell`, reads what it is sent. Nothing is assumed of a session in
`foreignDial`, whose TLS handshake has no deadline, and nothing obliges the
client to read: `SessionEnds` excepts both, the dial and a pump that waits for
the client, as writes have no deadline either. *Paths*: the refresh loops come
round, and a fetch that no slow download can make too old succeeds in the end,
that is, the directory is reached some time; a builder gets on, except while it
waits for `assignViaBroker`, which has no timeout. Apart from those fetches and
from the foreign entry's reads, no run assumes that a message arrives.

## 4. The proofs

All proofs are checked by TLAPS with SMT, Zenon and LS4. They use the named
assumptions of the modules only (`N >= 1`, natural bounds, values that are not
members of the sets they stand outside of, chunks that fit under three layers).

* `TelescopeProofs`: `TypeCorrect`, for any number of hops. `TypeOK` is not
  inductive: `OutConn` and `target` index the connection arrays, so the
  invariant adds `ControlOK` (a relay in the middle of an extension has a
  target, a running forwarder has an `OutConn`) and `HandOK` (a handler at work has
  a cell). The main part of the module is the handshake: `KeysAgree`
  (`KeyAgreement`), `OnionsIntact` (`OnionIntact`) and `TelescopeInOrder`
  (`TelescopeOrder`), for any number of hops. None of the three is inductive: a stray `Extended` would give the client a wrong key, a
  second `Extend` a relay a second `OutConn`. `CircInv` says what can be where.
  `KeysInv`: the client has the keys of the hops before `hop`, each the one its
  relay has. `ChainInv`: the `OutConn`s are a chain as long as these keys or one
  hop longer, and only the relay at its end extends it. `CellInv`: a handshake
  message is at the head of its channel, names the hop in progress and wears the
  layers of the relays from its reader on; the cells behind it are requests,
  responses and `Destroy`s. `OneInv`: there is one `Extend` and one `Extended` at
  most. A lost connection, a timeout or a sweep only empties channels and closes
  ends, which `CircInv` allows everywhere (`Calm`). `SweeperComplete`
  (`SweeperSeesAll`) rests on it. Its invariant `SweepInv` follows the tracker
  through the steps between two locks (`TrackAt`): a circuit that is in the table,
  or whose Create is being handled, has an entry, or its entry has just been
  collected; whoever is about to `Remove` an entry has seen the circuit leave the
  table. That no Create comes after it needs the handshake: the first cell a relay
  handles is its only Create, and nothing has touched the tracker before
  (`FirstCell`, `Untouched`), which in turn needs that a relay is written to only
  by one that has had its Created (`NextHasKey`). What is left is the sweep that
  overtakes the Create it was started by, and the theorem says so.
* `StreamProofs`: `TypeCorrect`, and `ForwardersLast`
  (`ForwarderStopsWithConn`). The invariant adds `Fit`: a cell written by relay
  `h` leaves room for the `h - 1` layers before it. A forwarder adds one layer
  and moves one hop, so `Fit` is kept, and the size check of `forwardCells`
  never fires. `ChunksInOrder` (`ChunksOnceInOrder`) needs `OrderInv`: the cells
  of one response that are on their way have rising numbers from the client to
  the exit, each was sent by a job that has not gone further back, and what has
  been read has smaller numbers than all of them. Moving, reading, tearing and
  losing cells only take from this order. `OnceInv` keeps a job from starting
  twice. `OwnResponse` (`UnsharedResponse`) needs more: `AloneInv` (a request
  outside `overlapped` is alone while it is busy, so every cell it can still
  read is its own) and `OwnInv` with `Continues`: what stands on the three
  connections goes on, without a gap, from what has been read. A relay that has
  stopped forwarding or has lost its connection ends this from its hop on; as
  long as none has, the three connections hold all that was sent, which is why
  a `RelayDone` that arrives is preceded by every chunk.
* `CircuitPoolProofs`: `TypeCorrect`, `ClosedInTransit` (`ClosedOnlyInTransit`)
  and `ReadySettled` (`ReadyWhenSettled`), for any number of calls, any pool size
  and any bounds. The invariant says who may know a circuit. `NewInv` and
  `BuiltInv`: a replacement and the circuits of a new pool are known to their
  builder only (`Fresh`), so nobody else closes them before they are in the
  pool. `PoolInv`: a circuit is in the pool once, in the slot that every call
  holding it remembers; so the slot a call overwrites after the unlock holds the
  circuit it has closed, or one that is not closed by it. `HoldInv` says that a
  call that sends or replaces has a circuit. `ModeInv`: in bridge mode, and when
  no `buildAll` runs, `ready` and the pool agree.
* `KindRendezvousProofs`: `TypeCorrect`, `HandedOutOnce` (`OfferHandedOutOnce`)
  and `PeersHaveOwners` (`NoOrphanPeer`), for any clients, workers and capacity.
  `QueueInv`: an offer is in the channel once and only from its `Enqueue` to the
  poll that claims it. `SessionInv`: a worker has a claimed session from the poll
  on, no two the same, and has no peer connection before its answer. `PeerInv`
  follows a peer connection through the race of the opening against the timeout:
  a timeout that has passed without closing it has found it open, and then the
  connection is in `resCh` or in a tunnel. The number of times an offer stands
  in the channel is a cardinality; the proof uses the library's facts about
  finite sets.
* `DirectoryProofs`: `TypeCorrect`, `GossipReachesAll`, `ConsensusAgrees` and
  `ImplementsRegistry`. The invariant adds `Filed` (a registration is filed
  under its id and was issued) and `Sourced` (so was what is in flight).
  `GossipReaches` needs that a directory's version of an id only gets newer.
  `ConsensusAgrees` follows in a mesh: what one directory holds was issued,
  hence is held, as new or newer, by the other. The refinement maps
  `registry` and `issued` to themselves; `Register`, `LoseGossip`, `Tick` and
  refused messages stutter.
* `PathsProofs`: `TypeCorrect`, `PathsSound`, `GuardStays` and
  `TokensHonoured`, for every set of relays, consensuses and builders and every
  bound. `TypeOK` needs `ShapeAt` (how many hops a builder has at each point of
  its build). `SoundPath` needs `PathInv`: each hop chosen so far had, in some
  consensus there has been, the role of its position, and for a direct build
  that consensus is the builder's own snapshot; relays with different roles in
  one list, or in lists that agree, are different. `GuardKept` needs
  `GuardInv`: a builder about to write that has not been raced had found no
  usable guard, and the file has since changed only to `Torn`. `TokenHonoured`
  needs `TokenInv`: the token is in the store until it expires.
* `BridgeProofs`: `TypeCorrect`, `ImplementsUp` (`UpTunnel`) and
  `ImplementsDown` (`DownTunnel`), for every set of commands, buffer size and
  number of cells. The invariant is `FlowInv`: per direction, the cells written
  are, in this order, at the target, on their way to it and already renamed,
  held by the bridge, and not yet read.
  It says nothing once the target has
  closed, nor of what is unread once no goroutine is left to read it. Three
  facts keep it: the pumps are off during the set-up (`PumpInv`), nothing has
  gone to the foreign entry before the Create, which stands for the client's
  first cell (`SetupInv`), and that cell, the only one with a token
  (`TokenInv`), is never the one a pump renames (`FirstInv`). The peers' writes
  are then sends of `Tunnel`, their reads deliveries, and every other step
  stutters. The safety part of `Spec` is all the proof uses.
* `WireProofs`: `TypeCorrect`, `InStep` (`ReaderInStep`), `PayloadsArrive`
  (`PayloadsInOrder`) and `NothingLeft` (`NothingLeftBehind`), for payloads of any
  number and sizes, any number of fragment indices, every value of the preamble's
  random byte and every place a write may be cut. `ByteInv`: the bytes of the
  segments and of `rbuf` are those of the frames, less what has been read of the
  first one, and what is left of the preamble. It says so when the reader is in
  step; a lost reader reads nothing more. With it, a read that has its bytes
  stands at the end of a length or of a body. `FrameInv`: every frame passes the
  checks of `ReadCell` and `UnmarshalCell`, so none is refused. `OrderInv`: the
  cells in the transport and then those not yet written (`Transit`) go on from one
  another, fragment by fragment and payload by payload, up to the end of the last
  payload. `ReaderInv`: the `Reassembler` has the first `m` fragments of the
  payload that is next to be delivered, and the next cell is fragment `m` of it;
  past the last index, later fragments have replaced earlier ones.
  `DeliveredInv`: what has been delivered is each payload up to the cut to
  `CellBodyMax`, for every payload that has indices enough, also after one that
  has not. The byte counts are sums over
  sequences of any length; in place of an induction, `Adds` says that a function
  of partial sums exists, which a write extends and a read shortens.

`CircInv`, `SweepInv`, the `SInv` of `StreamProofs`, the rendezvous' `IInv` and the `IInv` of
`WireProofs` also hold on the instances of the runs, where TLC checked them
before they were proved.

Only model-checked: liveness (outside the prover's reach: `EventuallyTornDown`,
`EveryRequestReturns`, `WorkerComesBack`, `SessionEnds`, `UpDelivers`,
`ListsConverge`), and `BridgeMode`, whose run shows a violation.

## 5. What the runs found

Eight things that a comment or document of the repository states do not hold of
the code. A run shows the first three as a violated property.

1. `client/main.go:290`: a broken circuit ends a response with a nil error, so
   `send` does not rebuild.
2. `webrtcx/conn.go:242`: the open timeout closes a tunnel that was opened and
   taken.
3. `client/main.go:591`: in bridge mode the foreign entry answers the key of the
   handshake, whose private half the client has dropped; the key the client
   derives is not the entry's.

The other five are seen in the definitions of passing properties, which state or
except what the code does; no run of the project has them as a violated property.

4. `client/main.go:66`: `assignViaBroker` has no timeout, so a broker that never
   answers stops the rotation that the README (`README.md:141`) promises "Every
   `circuit_rotate_secs` seconds". `ListsConverge` excepts such a client.
5. `relay/main.go:147`: a circuit is inserted after its `Touch`, under another
   lock. If `circuit_idle_secs` (300 s) passes in between, which takes a process
   that is held up that long, the sweeper removes the entry and not the circuit,
   and "Idle circuits destroyed after `circuit_idle_secs`" (`README.md:143`) fails
   for it. `overtaken` in `SweeperSeesAll` is the set of these circuits.
6. `relay/main.go:298`: RelayDone gains a layer at each hop, as the client
   expects and `OnionIntact` states; the function's comment (lines 285-286) says
   that it "passes through unmodified".
7. `directory/main.go:173`: a direct registration is stored only if its second is
   newer than the one held, as `RegistrySpec` states; the comment (lines 147-148)
   calls the update "unconditional".
8. `relay/main.go:128`: a reassembled payload is cut to 505 bytes, so the README's
   "Payloads > CellBodyMax split across fragment cells" (`README.md:145`) gets no
   more across than one cell does (`Kept` in `PayloadsInOrder`). The program's own
   cells never reach that size.

Exceptions that a property names, because the code behaves so:

* `ForwarderStopsWithConn`: an error reply is measured against one layer, not
  three (`relay/main.go:415`); a body of 422 to 477 bytes ends a forwarder for
  good while the circuit stays in use.
* `UnsharedResponse`: with concurrent requests on a circuit, one's `RelayDone`
  ends another (`client/main.go:311`).
* `ReaderInStep`: a preamble longer than 255 bytes does not fit its length byte
  (`common/obfs.go:84`), a deadline inside the preamble is ignored
  (`common/obfs.go:93`), and a payload that needs the last fragment index keeps
  `Add` in its loop (`common/cell.go:237`). With the sizes the client and the
  exit use no payload is fragmented at all (`relay/main.go:259`).
* `SweeperSeesAll`, `EventuallyTornDown`: a circuit whose Create a sweep has
  overtaken (5 above).
* `PayloadsInOrder`: the cut of a reassembled payload (8 above).
* `SessionEnds`: a pump blocked on a client that does not read hides that the
  foreign entry has gone (`bridge/main.go:309`); a session whose `foreignDial`
  does not return does not notice that its client has gone (`bridge/main.go:122`).
* `ListsConverge`: a client whose rotation waits for the broker (4 above), and
  clocks within 15 s of the window's upper end, where it depends on the download.
* `GuardKept`: two builders that both read the guard file before either wrote it
  pin one guard and then the other (`client/main.go:106`).
* `SoundPath`: a relay that changes its role between two of the broker's
  assignments, or between the client's choice and the volunteer's, can be in a
  path twice (`client/main.go:445`).

Observations without a run: `sweep` calls back for circuits that have become
active since it collected them (`common/replay.go:105`); `get` stores its
replacement at an index that may be stale, so a fresh circuit can be overwritten
and is never closed (`client/main.go:495`); `buildAll` empties the pool while
`ready` stays true; a client set to use a broker builds directly when the
consensus lists no broker at all; bridge circuits are never replaced, and no
request can be sent on them, as they have one key of three; two
registrations with equal stamps leave directories with different contents
(`SameConsensus` therefore compares ids); sessions whose client has gone occupy
the offers channel until they are polled; `ReplayFilter.Allow` is never called.

## 6. Not modelled

* Cryptography beyond keys and layers, signatures, TLS and its masquerade,
  WebRTC: external, or without a state of this program's.
* SOCKS5 and HTTP parsing, configuration, logging, key files: sequential input
  and output; what reaches the pool is modelled.
* `ReplayFilter`, which has no behaviour in the program; Ping, which changes
  nothing; `/health`, `/pubkey` and `/kind/info`, which only read.
* The registration loops of relay and broker, which repeat one POST: the
  directories' side is `Register`. The bridge's refresh of the foreign consensus
  is a failure of `Dial` that may or may not happen.
* Accept loops and process set-up.

What would be next: an abstract request/response specification that `Stream`
implements for unshared circuits, and one of a stream of payloads that `Wire`
implements.
