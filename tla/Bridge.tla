------------------------------ MODULE Bridge ------------------------------
(***************************************************************************)
(* One client session of the bridge (handleClientConn, bridge/main.go):    *)
(* the handshake with the client, the Create towards the foreign entry,    *)
(* and the two pump goroutines that then join the connections.  The client *)
(* and the foreign entry are peers that write, read and close as they      *)
(* like; BridgeMode gives them the behaviour of client/main.go and         *)
(* relay/main.go.                                                          *)
(*                                                                         *)
(* A cell carries its circuit ID, its command, a number that stands for    *)
(* its body, and, for a handshake, whether the token in it is the right    *)
(* one.  Writes block when the receiver's buffer is full.                  *)
(***************************************************************************)
EXTENDS Integers, Sequences

CONSTANTS
    Commands,   \* commands of the cells that pass once the tunnel stands
    MaxUp,      \* bound: cells the client writes after its handshake
    MaxDown,    \* bound: cells the foreign entry writes
    Buf         \* bound: cells a connection holds in one direction

ASSUME BoundAssumption == MaxUp \in Nat /\ MaxDown \in Nat /\ Buf \in Nat \ {0}

Directions == {"up", "down"}

(* The queue a pump reads and the queue it writes.                         *)
In == [up |-> "fromClient", down |-> "fromForeign"]
Out == [up |-> "toForeign", down |-> "toClient"]

(* The ends of the connections at either side of a pump: the peer's and    *)
(* the bridge's own.                                                       *)
Source == [up |-> "client", down |-> "foreign"]
Target == [up |-> "foreign", down |-> "client"]
OwnIn == [up |-> "conn", down |-> "foreignConn"]
OwnOut == [up |-> "foreignConn", down |-> "conn"]

Queues == {"fromClient", "toForeign", "fromForeign", "toClient"}
Ends == {"client", "conn", "foreignConn", "foreign"}

(* The circuit ID the bridge gives a cell it passes on.                    *)
CircID == [up |-> "new", down |-> "sentinel"]

Cell(circ, cmd, n, token) == [circ |-> circ, cmd |-> cmd, n |-> n, token |-> token]
Cells ==
    [circ : {"sentinel", "new", "other"}, cmd : Commands \cup {"Create", "Created"},
     n : Nat, token : BOOLEAN]

VARIABLES
    stage,    \* handleClientConn: "handshake", "dial", "created", "pipe", "returned"
    pump,     \* each pump goroutine: "off", "read", "write", "ended"
    held,     \* the cell a pump has read and not yet written
    queue,    \* cells in flight on the four half-connections
    closed,   \* the ends that are closed
    sent,     \* history: cells the source of each direction wrote
    got       \* history: cells the target of each direction read

vars == <<stage, pump, held, queue, closed, sent, got>>

TypeOK ==
    /\ stage \in {"handshake", "dial", "created", "pipe", "returned"}
    /\ pump \in [Directions -> {"off", "read", "write", "ended"}]
    /\ held \in [Directions -> Seq(Cells)]
    /\ queue \in [Queues -> Seq(Cells)]
    /\ closed \in SUBSET Ends
    /\ sent \in [Directions -> Seq(Cells)]
    /\ got \in [Directions -> Seq(Cells)]
    /\ \A d \in Directions : Len(held[d]) = IF pump[d] = "write" THEN 1 ELSE 0

Init ==
    /\ stage = "handshake"
    /\ pump = [d \in Directions |-> "off"]
    /\ held = [d \in Directions |-> <<>>]
    /\ queue = [q \in Queues |-> <<>>]
    /\ closed = {}
    /\ sent = [d \in Directions |-> <<>>]
    /\ got = [d \in Directions |-> <<>>]

Put(q, c) == [queue EXCEPT ![q] = Append(@, c)]
Take(q) == [queue EXCEPT ![q] = Tail(@)]

-----------------------------------------------------------------------------
(* handleClientConn up to the pipe.                                        *)

(* The deferred calls close the connections there are.                     *)
Return ==
    /\ stage' = "returned"
    /\ closed' = closed \cup {"conn"}
                 \cup {e \in {"foreignConn"} : stage \in {"created", "pipe"}}

(* The handshake cell: sentinel, Create, and the configured token.         *)
ReadHandshake ==
    LET c == Head(queue["fromClient"])
    IN /\ stage = "handshake"
       /\ queue["fromClient"] # <<>>
       /\ queue' = Take("fromClient")
       /\ IF c.circ = "sentinel" /\ c.cmd = "Create" /\ c.token
          THEN stage' = "dial" /\ UNCHANGED closed
          ELSE Return
       /\ UNCHANGED <<pump, held, sent, got>>

(* The foreign entry is reached and gets a Create with the client's key.   *)
Dial ==
    /\ stage = "dial"
    /\ stage' = "created"
    /\ queue' = Put("toForeign", Cell("new", "Create", 0, FALSE))
    /\ UNCHANGED <<pump, held, closed, sent, got>>

(* Mutant of Renamed: the reply keeps the foreign circuit ID.              *)
RenamedNot(d, c) == c

(* What the bridge makes of a cell it passes on.                           *)
Renamed(d, c) == [c EXCEPT !.circ = CircID[d]]

(* Mutant of StartPumps: only foreign -> client is started.                *)
StartPumpsDown == pump' = [pump EXCEPT !["down"] = "read"]

StartPumps == pump' = [d \in Directions |-> "read"]

(* The first cell from the foreign entry must be Created; it is passed on  *)
(* under the sentinel (the error of that write is not looked at) and the   *)
(* pumps start.                                                            *)
ReadCreated ==
    LET c == Head(queue["fromForeign"])
    IN /\ stage = "created"
       /\ queue["fromForeign"] # <<>>
       /\ IF c.cmd = "Created"
          THEN /\ stage' = "pipe"
               /\ StartPumps
               /\ queue' = IF "client" \in closed THEN Take("fromForeign")
                           ELSE [Take("fromForeign") EXCEPT
                                    !["toClient"] = Append(@, Renamed("down", c))]
               /\ UNCHANGED closed
          ELSE /\ Return
               /\ queue' = Take("fromForeign")
               /\ UNCHANGED pump
       /\ UNCHANGED <<held, sent, got>>

(* The client sends no whole cell for 30s or the foreign entry none for    *)
(* 15s; either is gone; the foreign consensus has no entry, or the entry   *)
(* cannot be reached.                                                      *)
SetupFails ==
    /\ stage \in {"handshake", "dial", "created"}
    /\ Return
    /\ UNCHANGED <<pump, held, queue, sent, got>>

-----------------------------------------------------------------------------
(* The pipe.                                                               *)

PumpRead(d) ==
    /\ pump[d] = "read"
    /\ OwnIn[d] \notin closed
    /\ queue[In[d]] # <<>>
    /\ pump' = [pump EXCEPT ![d] = "write"]
    /\ held' = [held EXCEPT ![d] = <<Head(queue[In[d]])>>]
    /\ queue' = Take(In[d])
    /\ UNCHANGED <<stage, closed, sent, got>>

(* ReadCell fails: the source is gone and read to the end, or this session *)
(* has closed the connection.                                              *)
PumpReadFails(d) ==
    /\ pump[d] = "read"
    /\ \/ OwnIn[d] \in closed
       \/ Source[d] \in closed /\ queue[In[d]] = <<>>
    /\ pump' = [pump EXCEPT ![d] = "ended"]
    /\ UNCHANGED <<stage, held, queue, closed, sent, got>>

(* Mutant of PumpWrite: a cell that finds no room is dropped.              *)
PumpWriteDrops(d) ==
    /\ pump[d] = "write"
    /\ OwnOut[d] \notin closed
    /\ queue' = IF Len(queue[Out[d]]) >= Buf \/ Target[d] \in closed THEN queue
                ELSE Put(Out[d], Renamed(d, held[d][1]))
    /\ pump' = [pump EXCEPT ![d] = "read"]
    /\ held' = [held EXCEPT ![d] = <<>>]
    /\ UNCHANGED <<stage, closed, sent, got>>

(* The cell goes out under the other side's circuit ID, once there is      *)
(* room; a peer that has closed swallows it.                               *)
PumpWrite(d) ==
    /\ pump[d] = "write"
    /\ OwnOut[d] \notin closed
    /\ \/ /\ Target[d] \notin closed
          /\ Len(queue[Out[d]]) < Buf
          /\ queue' = Put(Out[d], Renamed(d, held[d][1]))
       \/ Target[d] \in closed /\ UNCHANGED queue
    /\ pump' = [pump EXCEPT ![d] = "read"]
    /\ held' = [held EXCEPT ![d] = <<>>]
    /\ UNCHANGED <<stage, closed, sent, got>>

(* Mutant of PumpWriteFails: the cell is kept.                             *)
PumpWriteFailsHolding(d) ==
    /\ pump[d] = "write"
    /\ OwnOut[d] \in closed \/ Target[d] \in closed
    /\ pump' = [pump EXCEPT ![d] = "ended"]
    /\ UNCHANGED <<stage, held, queue, closed, sent, got>>

PumpWriteFails(d) ==
    /\ pump[d] = "write"
    /\ OwnOut[d] \in closed \/ Target[d] \in closed
    /\ pump' = [pump EXCEPT ![d] = "ended"]
    /\ held' = [held EXCEPT ![d] = <<>>]
    /\ UNCHANGED <<stage, queue, closed, sent, got>>

(* Mutant of Done: it waits for both pumps.                                *)
DoneBoth ==
    /\ stage = "pipe"
    /\ \A d \in Directions : pump[d] = "ended"
    /\ Return
    /\ UNCHANGED <<pump, held, queue, sent, got>>

(* The first pump to end ends the session.                                 *)
Done ==
    /\ stage = "pipe"
    /\ \E d \in Directions : pump[d] = "ended"
    /\ Return
    /\ UNCHANGED <<pump, held, queue, sent, got>>

-----------------------------------------------------------------------------
(* The peers.                                                              *)

(* The source of d writes a cell; the bridge may have closed by then.      *)
PeerWrites(d, c) ==
    /\ Source[d] \notin closed
    /\ \/ /\ OwnIn[d] \notin closed
          /\ Len(queue[In[d]]) < Buf
          /\ queue' = Put(In[d], c)
       \/ OwnIn[d] \in closed /\ UNCHANGED queue
    /\ sent' = [sent EXCEPT ![d] = Append(@, c)]
    /\ UNCHANGED <<stage, pump, held, closed, got>>

(* The client: a handshake, which may be wrong, and then any cells.        *)
ClientWrites ==
    LET n == Len(sent["up"])
    IN /\ n <= MaxUp
       /\ \E circ \in {"sentinel", "other"}, cmd \in Commands \cup {"Create"},
             token \in BOOLEAN :
             /\ n > 0 => circ = "sentinel" /\ ~ token
             /\ PeerWrites("up", Cell(circ, cmd, n, token))

(* The foreign entry, which has read the Create: an answer, any cells.     *)
ForeignWrites ==
    LET n == Len(sent["down"])
    IN /\ got["up"] # <<>>
       /\ n < MaxDown
       /\ \E cmd \in Commands \cup {"Created"} :
             PeerWrites("down", Cell("new", cmd, n, FALSE))

(* The target of d reads a cell.                                           *)
PeerReads(d) ==
    /\ Target[d] \notin closed
    /\ queue[Out[d]] # <<>>
    /\ queue' = Take(Out[d])
    /\ got' = [got EXCEPT ![d] = Append(@, Head(queue[Out[d]]))]
    /\ UNCHANGED <<stage, pump, held, closed, sent>>

(* The source of d goes away.  What it had written may or may not still be *)
(* read; what was written to it is gone.                                   *)
PeerCloses(d) ==
    LET back == CHOOSE e \in Directions : e # d
    IN /\ d = "down" => stage \notin {"handshake", "dial"}
       /\ Source[d] \notin closed
       /\ closed' = closed \cup {Source[d]}
       /\ \E rest \in {queue[In[d]], <<>>} :
             queue' = [queue EXCEPT ![In[d]] = rest, ![Out[back]] = <<>>]
       /\ UNCHANGED <<stage, pump, held, sent, got>>

Session ==
    \/ ReadHandshake \/ Dial \/ ReadCreated
    \/ SetupFails \/ Done

Pump(d) == PumpRead(d) \/ PumpReadFails(d) \/ PumpWrite(d) \/ PumpWriteFails(d)

Next ==
    \/ Session
    \/ ClientWrites \/ ForeignWrites
    \/ \E d \in Directions : Pump(d) \/ PeerReads(d) \/ PeerCloses(d)

(* Goroutines that can run do, deadlines pass, and the foreign entry reads *)
(* what it is sent (the loop of handleConn).  foreignDial need not return: *)
(* its TLS handshake has neither a deadline nor a context that ends.       *)
(* Nothing obliges the client to read: it does so only while a request is  *)
(* waiting.                                                                *)
Fairness ==
    /\ WF_vars(Session /\ stage # "dial")
    /\ \A d \in Directions : WF_vars(Pump(d))
    /\ WF_vars(PeerReads("up"))

Spec == Init /\ [][Next]_vars /\ Fairness

-----------------------------------------------------------------------------
(* Properties.                                                             *)

(* What direction d turns the cells of its source into: the other side's   *)
(* circuit ID, and no token.                                               *)
Translated(d) ==
    [i \in DOMAIN sent[d] |-> [sent[d][i] EXCEPT !.circ = CircID[d], !.token = FALSE]]

Up == INSTANCE Tunnel WITH sent <- Translated("up"), got <- got["up"]
Down == INSTANCE Tunnel WITH sent <- Translated("down"), got <- got["down"]

(* "Bridge then acts as a transparent bidirectional pipe": from the        *)
(* handshake on, which reaches the foreign entry as a Create with the same *)
(* key, each direction is a tunnel, whatever closes when.                  *)
UpTunnel == Up!Spec
DownTunnel == Down!Spec

(* The pump is waiting for a client that does not read.                    *)
ClientStalls == pump["down"] = "write" /\ Len(queue["toClient"]) >= Buf

Ended == stage = "returned" /\ \A d \in Directions : pump[d] \in {"off", "ended"}

(* A session leaves each wait for a first cell by itself, and is over,     *)
(* pumps included, once either peer is gone: the first pump to fail closes *)
(* both connections and so frees the other.  Two cases are excepted.  A    *)
(* session in foreignDial waits as long as that takes and does not see its *)
(* client go.  The writes have no deadline, so a foreign entry that goes   *)
(* away while the client is not reading is not noticed.                    *)
SessionEnds ==
    /\ stage \in {"handshake", "created"} ~> stage \in {"dial", "pipe"} \/ Ended
    /\ "client" \in closed ~> Ended \/ stage = "dial"
    /\ "foreign" \in closed ~> Ended \/ ClientStalls

(* While everyone stays, what the client writes reaches the foreign entry, *)
(* however slow either side of the pipe is.                                *)
UpDelivers ==
    \A n \in 1..(MaxUp + 1) :
        stage = "pipe" /\ Len(sent["up"]) = n
           ~> Len(got["up"]) >= n \/ closed # {}
====
