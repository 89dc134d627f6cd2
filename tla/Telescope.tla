----------------------------- MODULE Telescope -----------------------------
(***************************************************************************)
(* The life of one circuit: the client's telescoping handshake             *)
(* (client/main.go), the cell handler, forwarder and circuit table of each *)
(* relay on the path (relay/main.go), and the relay's idle-circuit sweeper *)
(* (common/replay.go).                                                     *)
(*                                                                         *)
(* Node 0 is the client, relay h is hop h of the path.  Connection h is    *)
(* the TCP connection whose listening end is relay h: fwd[h] carries cells *)
(* towards relay h, bwd[h] carries cells back.  Circuit identifiers are    *)
(* fresh 32-bit random numbers, so the state of one circuit is independent *)
(* of every other and the model follows a single identifier.               *)
(*                                                                         *)
(* An X25519 exchange is abstracted to the pair <<e, r>> of the client's   *)
(* ephemeral key e (one per hop) and the relay's ephemeral key r; a cell   *)
(* body is the sequence of keys it is encrypted under, outermost first,    *)
(* around one value.  AES-GCM authenticates, so decryption succeeds under  *)
(* the outermost key and fails under any other.                            *)
(***************************************************************************)
EXTENDS Integers, Sequences, FiniteSets

CONSTANTS
    N,             \* number of hops (3 in the code)
    MaxRequests,   \* bound: requests the client sends on the circuit
    MaxChunks,     \* bound: response chunks the exit sends in total
    Idlers,        \* bound: the relays where circuit_idle_secs may pass
    NoKey          \* a key slot that is still nil

ASSUME NAssumption == N \in Nat /\ N >= 1
ASSUME BoundsAssumption == MaxRequests \in Nat /\ MaxChunks \in Nat
ASSUME IdlersAssumption == Idlers \subseteq 1..N
ASSUME NoKeyAssumption == NoKey \notin (0..N) \X (0..N)

Relays == 1..N
Keys == (0..N) \X (0..N)
KeySlots == Keys \cup {NoKey}
Ends == {"up", "dn"}
Commands == {"Create", "Created", "Extend", "Extended", "Relay", "RelayDone",
             "Destroy"}
Cells == [cmd : Commands, layers : Seq(KeySlots), arg : 0..N]

VARIABLES
    phase,      \* client: "idle", "wait" (for a handshake reply), "open", "closed"
    hop,        \* client: the hop whose handshake is in progress
    clientKeys, \* client: Circuit.Keys
    busy,       \* client: a sendRequest is reading the response
    requests,   \* client: requests sent so far
    fwd, bwd,   \* cells in flight on each connection
    closed,     \* the ends of each connection that are closed
    handler,    \* relay: handleConn; "none", "read", "handle" (the cell at the head
                \* of fwd), "remove", "dial", "await", "gone"
    target,     \* relay: the hop the Extend in progress asks for (0: none)
    circuits,   \* the relays whose circuit table holds the circuit
    key,        \* relay: Circuit.Key
    OutConn,    \* relay: Circuit.OutConn (0: nil)
    forwarder,  \* relay: the forwardCells goroutine; "off", "run", "done"
    jobs,       \* exit: running handleExitRelay goroutines
    chunks,     \* exit: response chunks sent so far
    lastSeen,   \* relay: TimeoutTracker.lastSeen; "absent", "fresh", "stale"
    sweeper,    \* relay: sweep; "asleep", "expired" (it has collected the circuit
                \* and unlocked), "remove" (destroyCircuit has unlocked the table)
    overtaken   \* history: the relays whose sweep destroyed the circuit while
                \* its Create was handled, and found nothing to destroy

clientVars == <<phase, hop, clientKeys, busy, requests>>
connVars == <<fwd, bwd, closed>>
extendVars == <<handler, target>>
circVars == <<circuits, key, OutConn, forwarder>>
exitVars == <<jobs, chunks>>
idleVars == <<lastSeen, sweeper, overtaken>>
vars == <<clientVars, connVars, extendVars, circVars, exitVars, idleVars>>

TypeOK ==
    /\ phase \in {"idle", "wait", "open", "closed"}
    /\ hop \in Relays
    /\ clientKeys \in [Relays -> KeySlots]
    /\ busy \in BOOLEAN
    /\ requests \in 0..MaxRequests
    /\ fwd \in [Relays -> Seq(Cells)]
    /\ bwd \in [Relays -> Seq(Cells)]
    /\ closed \in [Relays -> SUBSET Ends]
    /\ handler \in [Relays -> {"none", "read", "handle", "remove", "dial",
                              "await", "gone"}]
    /\ target \in [Relays -> 0..N]
    /\ circuits \in SUBSET Relays
    /\ key \in [Relays -> KeySlots]
    /\ OutConn \in [Relays -> 0..N]
    /\ forwarder \in [Relays -> {"off", "run", "done"}]
    /\ jobs \in Nat
    /\ chunks \in 0..MaxChunks
    /\ lastSeen \in [Relays -> {"absent", "fresh", "stale"}]
    /\ sweeper \in [Relays -> {"asleep", "expired", "remove"}]
    /\ overtaken \in SUBSET Relays

Init ==
    /\ phase = "idle"
    /\ hop = 1
    /\ clientKeys = [h \in Relays |-> NoKey]
    /\ busy = FALSE
    /\ requests = 0
    /\ fwd = [h \in Relays |-> <<>>]
    /\ bwd = [h \in Relays |-> <<>>]
    /\ closed = [h \in Relays |-> {}]
    /\ handler = [h \in Relays |-> "none"]
    /\ target = [h \in Relays |-> 0]
    /\ circuits = {}
    /\ key = [h \in Relays |-> NoKey]
    /\ OutConn = [h \in Relays |-> 0]
    /\ forwarder = [h \in Relays |-> "off"]
    /\ jobs = 0
    /\ chunks = 0
    /\ lastSeen = [h \in Relays |-> "absent"]
    /\ sweeper = [h \in Relays |-> "asleep"]
    /\ overtaken = {}

-----------------------------------------------------------------------------
(* Cells, keys and connections.                                            *)

Cell(cmd, layers, arg) == [cmd |-> cmd, layers |-> layers, arg |-> arg]

DeriveKey(clientEph, relayEph) == <<clientEph, relayEph>>

Encrypt(k, layers) == <<k>> \o layers

Decryptable(k, c) == c.layers # <<>> /\ Head(c.layers) = k

Decrypted(c) == [c EXCEPT !.layers = Tail(@)]

(* A write to a connection that either side has closed is an error the     *)
(* code ignores: the cell is lost.                                         *)
Write(channel, h, c) ==
    IF closed[h] = {} THEN [channel EXCEPT ![h] = Append(@, c)] ELSE channel

CloseEnd(h, end) == [closed EXCEPT ![h] = @ \cup {end}]

(* ReadCell fails at the listening end: the peer has closed and everything *)
(* it sent has been read, or the connection is lost.                       *)
BrokenAtRelay(h) == "dn" \in closed[h] \/ ("up" \in closed[h] /\ fwd[h] = <<>>)

BrokenAtDialer(h) == "up" \in closed[h] \/ ("dn" \in closed[h] /\ bwd[h] = <<>>)

-----------------------------------------------------------------------------
(* The client.                                                             *)

(* buildCircuit and the first write of buildCircuitOnConn: dial the entry, *)
(* shake hands, send Create with the ephemeral key of hop 1.               *)
Dial ==
    /\ phase = "idle"
    /\ phase' = "wait"
    /\ handler' = [handler EXCEPT ![1] = "read"]
    /\ fwd' = Write(fwd, 1, Cell("Create", <<>>, 1))
    /\ UNCHANGED <<hop, clientKeys, busy, requests, bwd, closed, target,
                   circVars, exitVars, idleVars>>

(* The first k of the client's keys as onion layers, the entry's outermost.*)
Onion(ks, k) == [i \in 1..k |-> ks[i]]

(* The client peels one layer per hop, entry first.                        *)
Peels(c) == \A i \in Relays : i <= Len(c.layers) /\ c.layers[i] = clientKeys[i]

(* One handshake reply is read; hop's key is derived from it, and the next *)
(* Extend is sent under the keys negotiated so far.                        *)
HandshakeReply ==
    LET c == Head(bwd[1])
        wanted == IF hop = 1 THEN "Created" ELSE "Extended"
        newKey == DeriveKey(hop, c.arg)
    IN /\ phase = "wait"
       /\ ~ BrokenAtDialer(1)
       /\ bwd[1] # <<>>
       /\ bwd' = [bwd EXCEPT ![1] = Tail(@)]
       /\ IF c.cmd # wanted
          THEN /\ phase' = "closed"
               /\ closed' = CloseEnd(1, "up")
               /\ UNCHANGED <<hop, clientKeys, fwd>>
          ELSE /\ clientKeys' = [clientKeys EXCEPT ![hop] = newKey]
               /\ IF hop = N
                  THEN /\ phase' = "open"
                       /\ UNCHANGED <<hop, fwd>>
                  ELSE /\ hop' = hop + 1
                       /\ fwd' = Write(fwd, 1, Cell("Extend",
                                                    Onion(clientKeys', hop),
                                                    hop + 1))
                       /\ UNCHANGED phase
               /\ UNCHANGED closed
       /\ UNCHANGED <<busy, requests, extendVars, circVars, exitVars, idleVars>>

(* A handshake read fails or its 15s deadline passes: the connection is    *)
(* closed without a Destroy cell.                                          *)
HandshakeFails ==
    /\ phase = "wait"
    /\ phase' = "closed"
    /\ closed' = CloseEnd(1, "up")
    /\ UNCHANGED <<hop, clientKeys, busy, requests, fwd, bwd, extendVars,
                   circVars, exitVars, idleVars>>

(* sendRequest writes one Relay cell under all the keys.                   *)
SendRequest ==
    /\ phase = "open"
    /\ ~ busy
    /\ requests < MaxRequests
    /\ busy' = TRUE
    /\ requests' = requests + 1
    /\ fwd' = Write(fwd, 1, Cell("Relay", Onion(clientKeys, N), 0))
    /\ UNCHANGED <<phase, hop, clientKeys, bwd, closed, extendVars, circVars,
                   exitVars, idleVars>>

(* sendRequest's read loop: control cells are skipped, a Relay cell is     *)
(* peeled and appended to the response, RelayDone or a layer that does not *)
(* decrypt ends the request.                                               *)
ReadResponse ==
    LET c == Head(bwd[1])
    IN /\ busy
       /\ ~ BrokenAtDialer(1)
       /\ bwd[1] # <<>>
       /\ bwd' = [bwd EXCEPT ![1] = Tail(@)]
       /\ busy' = (c.cmd = "Relay" => Peels(c)) /\ c.cmd # "RelayDone"
       /\ UNCHANGED <<phase, hop, clientKeys, requests, fwd, closed, extendVars,
                      circVars, exitVars, idleVars>>

(* A read error or the 60s deadline ends the request with what arrived.    *)
ResponseEnds ==
    /\ busy
    /\ busy' = FALSE
    /\ UNCHANGED <<phase, hop, clientKeys, requests, connVars, extendVars,
                   circVars, exitVars, idleVars>>

(* Circuit.close: a Destroy cell, then the connection is closed.  The pool *)
(* calls it whatever the circuit's requests are doing.                     *)
Close ==
    /\ phase = "open"
    /\ phase' = "closed"
    /\ fwd' = Write(fwd, 1, Cell("Destroy", <<>>, 0))
    /\ closed' = CloseEnd(1, "up")
    /\ UNCHANGED <<hop, clientKeys, busy, requests, bwd, extendVars, circVars,
                   exitVars, idleVars>>

-----------------------------------------------------------------------------
(* The relays: the circuit table and the cell handler.                     *)

(* Mutant of Touch: only a circuit already tracked is refreshed.           *)
TouchTracked(h) ==
    lastSeen' = IF lastSeen[h] = "absent" THEN lastSeen
                ELSE [lastSeen EXCEPT ![h] = "fresh"]

(* TimeoutTracker.Touch, the first thing handleCell does with any cell.    *)
Touch(h) == lastSeen' = [lastSeen EXCEPT ![h] = "fresh"]

(* handleConn reads the next cell and calls handleCell, which first of all *)
(* touches the tracker; the cell is still the head of fwd.                 *)
ReadCell(h) ==
    /\ handler[h] = "read"
    /\ "dn" \notin closed[h]
    /\ fwd[h] # <<>>
    /\ Touch(h)
    /\ handler' = [handler EXCEPT ![h] = "handle"]
    /\ UNCHANGED <<clientVars, connVars, target, circVars, exitVars, sweeper,
                   overtaken>>

(* handleCell's switch, after the Touch and whatever came in between.      *)
Handles(h, cmd) == handler[h] = "handle" /\ Head(fwd[h]).cmd = cmd

Reads(h) == [handler EXCEPT ![h] = "read"]

Taken(h) == [fwd EXCEPT ![h] = Tail(@)]

(* What handleCell forwards down OutConn, if it is set, else nothing.      *)
TakenAndForwarded(h, c) ==
    IF OutConn[h] # 0 /\ closed[OutConn[h]] = {}
    THEN [Taken(h) EXCEPT ![OutConn[h]] = Append(@, c)]
    ELSE Taken(h)

(* destroyCircuit under circuitsMu: tell the next hop, close OutConn and   *)
(* forget the circuit.  channel is fwd as the caller leaves it.            *)
destroyCircuit(h, channel) ==
    LET next == OutConn[h]
        tell == h \in circuits /\ next # 0
    IN /\ fwd' = IF tell /\ closed[next] = {}
                 THEN [channel EXCEPT ![next] =
                          Append(@, Cell("Destroy", <<>>, 0))]
                 ELSE channel
       /\ closed' = IF tell THEN CloseEnd(next, "up") ELSE closed
       /\ circuits' = circuits \ {h}

(* TimeoutTracker.Remove, by which destroyCircuit ends, the table unlocked.*)
Remove(h) == lastSeen' = [lastSeen EXCEPT ![h] = "absent"]

HandleCreate(h) ==
    LET c == Head(fwd[h])
    IN /\ Handles(h, "Create")
       /\ fwd' = Taken(h)
       /\ handler' = Reads(h)
       /\ circuits' = circuits \cup {h}
       /\ key' = [key EXCEPT ![h] = DeriveKey(c.arg, h)]
       /\ bwd' = Write(bwd, h, Cell("Created", <<>>, h))
       /\ UNCHANGED <<clientVars, closed, target, OutConn, forwarder, exitVars,
                      idleVars>>

(* An Extend is passed on under one layer less when this hop already has a *)
(* next hop.                                                               *)
ForwardExtend(h) ==
    LET c == Head(fwd[h])
    IN /\ Handles(h, "Extend")
       /\ h \in circuits => OutConn[h] # 0
       /\ fwd' = IF h \in circuits /\ Decryptable(key[h], c)
                 THEN TakenAndForwarded(h, Decrypted(c))
                 ELSE Taken(h)
       /\ handler' = Reads(h)
       /\ UNCHANGED <<clientVars, bwd, closed, target, circVars, exitVars,
                      idleVars>>

(* The last hop of the circuit dials the relay the Extend names; the read  *)
(* loop is blocked until the extension is over.  A body that does not      *)
(* decrypt, is still encrypted once peeled or names no relay is dropped.   *)
StartExtend(h) ==
    LET c == Head(fwd[h])
        ok == Decryptable(key[h], c) /\ Len(c.layers) = 1 /\ c.arg # 0
    IN /\ Handles(h, "Extend")
       /\ h \in circuits /\ OutConn[h] = 0
       /\ fwd' = Taken(h)
       /\ handler' = IF ok THEN [handler EXCEPT ![h] = "dial"] ELSE Reads(h)
       /\ target' = IF ok THEN [target EXCEPT ![h] = c.arg] ELSE target
       /\ UNCHANGED <<clientVars, bwd, closed, circVars, exitVars, idleVars>>

HandleRelay(h) ==
    LET c == Head(fwd[h])
        ok == h \in circuits /\ Decryptable(key[h], c)
    IN /\ Handles(h, "Relay")
       /\ handler' = Reads(h)
       /\ IF h = N /\ ok
          THEN jobs' = jobs + 1 /\ fwd' = Taken(h)
          ELSE /\ fwd' = IF ok THEN TakenAndForwarded(h, Decrypted(c)) ELSE Taken(h)
               /\ UNCHANGED jobs
       /\ UNCHANGED <<clientVars, bwd, closed, target, circVars, chunks,
                      idleVars>>

HandleDestroy(h) ==
    /\ Handles(h, "Destroy")
    /\ destroyCircuit(h, Taken(h))
    /\ handler' = [handler EXCEPT ![h] = "remove"]
    /\ UNCHANGED <<clientVars, bwd, target, key, OutConn, forwarder, exitVars,
                   idleVars>>

DestroyEnds(h) ==
    /\ handler[h] = "remove"
    /\ handler' = Reads(h)
    /\ Remove(h)
    /\ UNCHANGED <<clientVars, connVars, target, circVars, exitVars, sweeper,
                   overtaken>>

(* handleConn returns when the connection is gone or has been silent for   *)
(* five minutes; the circuit stays in the table.                           *)
ConnEnds(h) ==
    /\ handler[h] = "read"
    /\ fwd[h] = <<>> \/ BrokenAtRelay(h)
    /\ handler' = [handler EXCEPT ![h] = "gone"]
    /\ closed' = CloseEnd(h, "dn")
    /\ UNCHANGED <<clientVars, fwd, bwd, target, circVars, exitVars, idleVars>>

-----------------------------------------------------------------------------
(* The relays: extending the circuit by one hop.                           *)

(* The dial and the obfs handshake succeed; Create is sent on the new      *)
(* connection with the ephemeral key the client put in the Extend.         *)
ExtendDialed(h) ==
    LET next == target[h]
    IN /\ handler[h] = "dial"
       /\ handler[next] = "none"
       /\ handler' = [handler EXCEPT ![h] = "await", ![next] = "read"]
       /\ fwd' = Write(fwd, next, Cell("Create", <<>>, next))
       /\ UNCHANGED <<clientVars, bwd, closed, target, circVars, exitVars,
                      idleVars>>

ExtendDialFails(h) ==
    /\ handler[h] = "dial"
    /\ handler' = [handler EXCEPT ![h] = "read"]
    /\ target' = [target EXCEPT ![h] = 0]
    /\ UNCHANGED <<clientVars, connVars, circVars, exitVars, idleVars>>

(* Mutants of ExtendCreated: Extended carries this relay's public key; the *)
(* circuit's OutConn is never assigned.                                    *)
ExtendCreatedOwnKey(h) ==
    LET next == target[h]
    IN /\ handler[h] = "await"
       /\ ~ BrokenAtDialer(next)
       /\ bwd[next] # <<>>
       /\ handler' = [handler EXCEPT ![h] = "read"]
       /\ target' = [target EXCEPT ![h] = 0]
       /\ OutConn' = [OutConn EXCEPT ![h] = next]
       /\ forwarder' = [forwarder EXCEPT ![h] = "run"]
       /\ bwd' = Write([bwd EXCEPT ![next] = Tail(@)], h, Cell("Extended", <<>>, h))
       /\ UNCHANGED <<clientVars, fwd, closed, circuits, key, exitVars, idleVars>>

ExtendCreatedUnset(h) ==
    LET next == target[h]
        c == Head(bwd[next])
    IN /\ handler[h] = "await"
       /\ ~ BrokenAtDialer(next)
       /\ bwd[next] # <<>>
       /\ handler' = [handler EXCEPT ![h] = "read"]
       /\ target' = [target EXCEPT ![h] = 0]
       /\ bwd' = Write([bwd EXCEPT ![next] = Tail(@)], h,
                       Cell("Extended", <<>>, c.arg))
       /\ UNCHANGED <<clientVars, fwd, closed, circVars, exitVars, idleVars>>

(* The new hop answers: OutConn is set on the circuit this handler holds a *)
(* pointer to, in the table or not; the forwarder starts and the new hop's *)
(* public key goes back to the client in Extended.                         *)
ExtendCreated(h) ==
    LET next == target[h]
        c == Head(bwd[next])
    IN /\ handler[h] = "await"
       /\ ~ BrokenAtDialer(next)
       /\ bwd[next] # <<>>
       /\ handler' = [handler EXCEPT ![h] = "read"]
       /\ target' = [target EXCEPT ![h] = 0]
       /\ IF c.cmd = "Created"
          THEN /\ OutConn' = [OutConn EXCEPT ![h] = next]
               /\ forwarder' = [forwarder EXCEPT ![h] = "run"]
               /\ bwd' = Write([bwd EXCEPT ![next] = Tail(@)], h,
                               Cell("Extended", <<>>, c.arg))
               /\ UNCHANGED closed
          ELSE /\ bwd' = [bwd EXCEPT ![next] = Tail(@)]
               /\ closed' = CloseEnd(next, "up")
               /\ UNCHANGED <<OutConn, forwarder>>
       /\ UNCHANGED <<clientVars, fwd, circuits, key, exitVars, idleVars>>

(* No Created within 10s, or a read error: the new connection is closed    *)
(* and nothing is said to the client.                                      *)
ExtendFails(h) ==
    /\ handler[h] = "await"
    /\ handler' = [handler EXCEPT ![h] = "read"]
    /\ target' = [target EXCEPT ![h] = 0]
    /\ closed' = CloseEnd(target[h], "up")
    /\ UNCHANGED <<clientVars, fwd, bwd, circVars, exitVars, idleVars>>

-----------------------------------------------------------------------------
(* The relays: the way back.                                               *)

(* Mutant of forwardCells: RelayDone passes through unmodified.            *)
forwardCellsDonePlain(h) ==
    LET next == OutConn[h]
        c == Head(bwd[next])
        out == IF c.cmd = "Relay"
               THEN [c EXCEPT !.layers = Encrypt(key[h], @)]
               ELSE c
    IN /\ forwarder[h] = "run"
       /\ ~ BrokenAtDialer(next)
       /\ bwd[next] # <<>>
       /\ bwd' = Write([bwd EXCEPT ![next] = Tail(@)], h, out)
       /\ UNCHANGED <<clientVars, fwd, closed, extendVars, circVars, exitVars,
                      idleVars>>

(* forwardCells moves one cell from OutConn to InConn, adding this hop's   *)
(* layer to Relay and RelayDone cells and to no other.                     *)
forwardCells(h) ==
    LET next == OutConn[h]
        c == Head(bwd[next])
        out == IF c.cmd \in {"Relay", "RelayDone"}
               THEN [c EXCEPT !.layers = Encrypt(key[h], @)]
               ELSE c
    IN /\ forwarder[h] = "run"
       /\ ~ BrokenAtDialer(next)
       /\ bwd[next] # <<>>
       /\ bwd' = Write([bwd EXCEPT ![next] = Tail(@)], h, out)
       /\ UNCHANGED <<clientVars, fwd, closed, extendVars, circVars, exitVars,
                      idleVars>>

(* Reading OutConn fails: the goroutine returns and tells nobody.          *)
ForwarderEnds(h) ==
    /\ forwarder[h] = "run"
    /\ BrokenAtDialer(OutConn[h])
    /\ forwarder' = [forwarder EXCEPT ![h] = "done"]
    /\ UNCHANGED <<clientVars, connVars, extendVars, circuits, key, OutConn,
                   exitVars, idleVars>>

(* handleExitRelay sends a chunk of the origin's response.                 *)
ExitChunk ==
    /\ jobs > 0
    /\ chunks < MaxChunks
    /\ chunks' = chunks + 1
    /\ bwd' = Write(bwd, N, Cell("Relay", Encrypt(key[N], <<>>), 0))
    /\ UNCHANGED <<clientVars, fwd, closed, extendVars, circVars, jobs, idleVars>>

(* Mutant of ExitDone: sent whether or not a request is being served.      *)
ExitDoneUnguarded ==
    /\ jobs' = jobs - 1
    /\ bwd' = Write(bwd, N, Cell("RelayDone", Encrypt(key[N], <<>>), 0))
    /\ UNCHANGED <<clientVars, fwd, closed, extendVars, circVars, chunks,
                   idleVars>>

(* handleExitRelay ends with the end-of-response sentinel.                 *)
ExitDone ==
    /\ jobs > 0
    /\ jobs' = jobs - 1
    /\ bwd' = Write(bwd, N, Cell("RelayDone", Encrypt(key[N], <<>>), 0))
    /\ UNCHANGED <<clientVars, fwd, closed, extendVars, circVars, chunks,
                   idleVars>>

-----------------------------------------------------------------------------
(* The relays: the idle sweeper.                                           *)

(* circuit_idle_secs pass since the last Touch.                            *)
Idle(h) ==
    /\ h \in Idlers
    /\ lastSeen[h] = "fresh"
    /\ lastSeen' = [lastSeen EXCEPT ![h] = "stale"]
    /\ UNCHANGED <<clientVars, connVars, extendVars, circVars, exitVars, sweeper,
                   overtaken>>

(* Mutant of SweepCollect: the entry is deleted, its callback never fires. *)
SweepCollectForgets(h) ==
    /\ lastSeen[h] = "stale"
    /\ sweeper[h] = "asleep"
    /\ lastSeen' = [lastSeen EXCEPT ![h] = "absent"]
    /\ UNCHANGED <<clientVars, connVars, extendVars, circVars, exitVars, sweeper,
                   overtaken>>

(* The first half of a sweep, under the tracker's lock.                    *)
SweepCollect(h) ==
    /\ lastSeen[h] = "stale"
    /\ sweeper[h] = "asleep"
    /\ lastSeen' = [lastSeen EXCEPT ![h] = "absent"]
    /\ sweeper' = [sweeper EXCEPT ![h] = "expired"]
    /\ UNCHANGED <<clientVars, connVars, extendVars, circVars, exitVars,
                   overtaken>>

(* The second half, after the lock is dropped: onTimeout is destroyCircuit.*)
(* It runs before the insert of a Create whose Touch it was that expired.  *)
SweepDestroy(h) ==
    /\ sweeper[h] = "expired"
    /\ sweeper' = [sweeper EXCEPT ![h] = "remove"]
    /\ destroyCircuit(h, fwd)
    /\ overtaken' = overtaken \cup {i \in {h} : Handles(i, "Create")}
    /\ UNCHANGED <<clientVars, bwd, extendVars, key, OutConn, forwarder, exitVars,
                   lastSeen>>

SweepEnds(h) ==
    /\ sweeper[h] = "remove"
    /\ sweeper' = [sweeper EXCEPT ![h] = "asleep"]
    /\ Remove(h)
    /\ UNCHANGED <<clientVars, connVars, extendVars, circVars, exitVars,
                   overtaken>>

-----------------------------------------------------------------------------
(* The network loses an established connection and what it was carrying;   *)
(* a cell that handleCell already has is not lost.                         *)
ConnLost(h) ==
    /\ handler[h] # "none"
    /\ closed[h] = {}
    /\ closed' = [closed EXCEPT ![h] = Ends]
    /\ fwd' = [fwd EXCEPT ![h] = IF handler[h] = "handle" THEN <<Head(@)>> ELSE <<>>]
    /\ bwd' = [bwd EXCEPT ![h] = <<>>]
    /\ UNCHANGED <<clientVars, extendVars, circVars, exitVars, idleVars>>

Client ==
    \/ Dial
    \/ HandshakeReply
    \/ HandshakeFails
    \/ SendRequest
    \/ ReadResponse
    \/ ResponseEnds
    \/ Close

(* handleConn of relay h, with the extension it may be in the middle of.   *)
HandleConn(h) ==
    \/ ReadCell(h)
    \/ HandleCreate(h)
    \/ ForwardExtend(h)
    \/ StartExtend(h)
    \/ HandleRelay(h)
    \/ HandleDestroy(h)
    \/ DestroyEnds(h)
    \/ ConnEnds(h)
    \/ ExtendDialed(h)
    \/ ExtendDialFails(h)
    \/ ExtendCreated(h)
    \/ ExtendFails(h)

Forwarder(h) == forwardCells(h) \/ ForwarderEnds(h)

Sweep(h) == SweepCollect(h) \/ SweepDestroy(h) \/ SweepEnds(h)

Exit == ExitChunk \/ ExitDone

(* Every process has stopped: the behaviour may end here.                  *)
Quiescent ==
    /\ phase = "closed" /\ ~ busy
    /\ jobs = 0
    /\ \A h \in Relays : /\ handler[h] \in {"none", "gone"}
                         /\ forwarder[h] # "run"
                         /\ h \in Idlers => lastSeen[h] = "absent"
                         /\ sweeper[h] = "asleep"

Next ==
    \/ Client
    \/ Exit
    \/ \E h \in Relays : \/ HandleConn(h)
                         \/ Forwarder(h)
                         \/ Idle(h)
                         \/ Sweep(h)
                         \/ ConnLost(h)
    \/ Quiescent /\ UNCHANGED vars

Spec == Init /\ [][Next]_vars

(* Relay goroutines are scheduled, reads have deadlines, and time passes.  *)
(* A write is taken to return: the few cells of a circuit fit the buffers  *)
(* of its connection, and a broken connection ends it.                     *)
FairSpec ==
    /\ Spec
    /\ \A h \in Relays : /\ WF_vars(HandleConn(h))
                         /\ WF_vars(Idle(h))
                         /\ WF_vars(Sweep(h))

-----------------------------------------------------------------------------
(* Properties.                                                             *)

InFlight(channel, h) == {channel[h][i] : i \in 1..Len(channel[h])}

(* The session keys of relays i to j, as the onion a cell wears when it is *)
(* about to be read by relay i.                                            *)
Layers(i, j) == [k \in 1..(j - i + 1) |-> key[i + k - 1]]

(* Whenever the client has taken a session key for hop h, relay h derived  *)
(* the same key, whatever was lost, timed out or swept on the way: the     *)
(* public key that comes back in Created or Extended is the one of the     *)
(* relay the ephemeral key was meant for (client Keys, relay Circuit.Key). *)
KeyAgreement ==
    \A h \in Relays : clientKeys[h] # NoKey => key[h] = clientKeys[h]

(* Every encrypted cell in flight wears exactly the layers that the hops   *)
(* still ahead of it will peel: an Extend for hop t reaches relay t-1 in   *)
(* the clear, a Relay cell reaches the exit in the clear, a response cell  *)
(* gains one layer per hop, the final RelayDone like the others.  So no    *)
(* Decrypt in handleCell or sendRequest ever fails for an honest path.     *)
(* The comment on forwardCells says that RelayDone "passes through         *)
(* unmodified"; its code encrypts it, and the client relies on that.       *)
OnionIntact ==
    \A h \in Relays :
        /\ \A c \in InFlight(fwd, h) :
               /\ c.cmd = "Extend" => c.arg > h /\ c.layers = Layers(h, c.arg - 1)
               /\ c.cmd = "Relay" => c.layers = Layers(h, N)
        /\ \A c \in InFlight(bwd, h) :
               c.cmd \in {"Relay", "RelayDone"} => c.layers = Layers(h, N)

(* The circuit telescopes: a relay is only ever joined to the next hop of  *)
(* the path, by an Extend meant for exactly that hop, and the hops whose   *)
(* keys the client holds form an unbroken chain of OutConns from the entry.*)
TelescopeOrder ==
    \A h \in Relays :
        /\ target[h] # 0 => target[h] = h + 1
        /\ OutConn[h] # 0 => OutConn[h] = h + 1
        /\ clientKeys[h] # NoKey => \A i \in 1..(h - 1) : OutConn[i] = i + 1

(* A circuit escapes the idle sweeper in one way only: the sweep's call of *)
(* destroyCircuit overtook the Create between its Touch and its insert.    *)
(* That one is never swept, though the README says "Idle circuits          *)
(* destroyed after circuit_idle_secs". Any other circuit in a relay's      *)
(* table is tracked, or a sweep that has collected it is about to destroy  *)
(* it, whatever order Touch, Remove, the two locks of sweep and            *)
(* destroyCircuit and the insert come in.                                  *)
SweeperSeesAll ==
    \A h \in circuits :
        lastSeen[h] # "absent" \/ sweeper[h] = "expired" \/ h \in overtaken

(* Once the client has given the circuit up, by Destroy or by just closing *)
(* the connection in a failed handshake, every relay of the path in the    *)
(* end forgets it for good, also those that a lost connection or a late    *)
(* extension has cut off from the client; except one that the sweeper      *)
(* overtook.                                                               *)
EventuallyTornDown == <>(phase = "closed") => <>[](circuits \subseteq overtaken)
====
