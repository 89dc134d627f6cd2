-------------------------- MODULE TelescopeProofs --------------------------
(***************************************************************************)
(* Proofs about Telescope, for a path of any length N: the types, the      *)
(* sweeper, and the invariant CircInv of the handshake, which gives the    *)
(* agreement of the keys, intact onions and the order of the hops.         *)
(***************************************************************************)
EXTENDS Telescope, TLAPS

(* A path has an entry.                                                    *)
LEMMA EntryIsRelay == 1 \in Relays /\ N \in Relays /\ 0 \in 0..N /\ 1 \in 0..N
BY NAssumption DEF Relays

(* The empty onion is a sequence of key slots.                             *)
LEMMA EmptyOnion == <<>> \in Seq(KeySlots)
OBVIOUS

(* Building a cell from a command, a sequence of keys and a number.        *)
LEMMA CellType ==
    ASSUME NEW cmd \in Commands, NEW layers \in Seq(KeySlots), NEW arg \in 0..N
    PROVE  Cell(cmd, layers, arg) \in Cells
BY Zenon DEF Cell, Cells

(* Writing a cell to a connection leaves a well-formed channel.            *)
LEMMA WriteType ==
    ASSUME NEW channel \in [Relays -> Seq(Cells)], NEW h \in Relays,
           NEW c \in Cells
    PROVE  Write(channel, h, c) \in [Relays -> Seq(Cells)]
BY DEF Write

(* Taking the first cell off a channel leaves a well-formed channel, and   *)
(* what is taken is a cell.                                                *)
LEMMA TakeType ==
    ASSUME NEW channel \in [Relays -> Seq(Cells)], NEW h \in Relays,
           channel[h] # <<>>
    PROVE  /\ Head(channel[h]) \in Cells
           /\ [channel EXCEPT ![h] = Tail(@)] \in [Relays -> Seq(Cells)]
<1>1. channel[h] \in Seq(Cells)
  BY Zenon
<1>2. Head(channel[h]) \in Cells /\ Tail(channel[h]) \in Seq(Cells)
  BY <1>1
<1> QED BY Zenon, <1>2

(* Peeling a layer off a cell leaves a cell.                               *)
LEMMA DecryptedType ==
    ASSUME NEW c \in Cells, NEW k, Decryptable(k, c)
    PROVE  Decrypted(c) \in Cells
<1>1. c.layers \in Seq(KeySlots) /\ c.layers # <<>>
  BY Zenon DEF Decryptable, Cells
<1>2. Tail(c.layers) \in Seq(KeySlots)
  BY <1>1
<1> QED BY Zenon, <1>2 DEF Decrypted, Cells

(* Closing an end of a connection.                                         *)
LEMMA CloseEndType ==
    ASSUME closed \in [Relays -> SUBSET Ends], NEW h \in 0..N, NEW end \in Ends
    PROVE  CloseEnd(h, end) \in [Relays -> SUBSET Ends]
BY Zenon DEF CloseEnd

(* destroyCircuit keeps the variables it writes well-formed.               *)
LEMMA DestroyType ==
    ASSUME TypeOK, NEW h \in Relays, NEW channel \in [Relays -> Seq(Cells)],
           destroyCircuit(h, channel)
    PROVE  /\ fwd' \in [Relays -> Seq(Cells)]
           /\ closed' \in [Relays -> SUBSET Ends]
           /\ circuits' \in SUBSET Relays
<1>1. Cell("Destroy", <<>>, 0) \in Cells
  BY Zenon, EmptyOnion, EntryIsRelay, CellType DEF Commands
<1>2. OutConn[h] # 0 => OutConn[h] \in Relays
  BY DEF TypeOK, Relays
<1>3. fwd' \in [Relays -> Seq(Cells)]
  BY <1>1, <1>2 DEF destroyCircuit
<1> QED BY Zenon, <1>2, <1>3 DEF destroyCircuit, TypeOK, CloseEnd, Ends

(* Forwarding a cell down OutConn leaves a well-formed channel.            *)
LEMMA ForwardedType ==
    ASSUME TypeOK, NEW h \in Relays, fwd[h] # <<>>, NEW c \in Cells
    PROVE  /\ Taken(h) \in [Relays -> Seq(Cells)]
           /\ TakenAndForwarded(h, c) \in [Relays -> Seq(Cells)]
<1>1. Taken(h) \in [Relays -> Seq(Cells)]
  BY Zenon, TakeType DEF TypeOK, Taken
<1>2. OutConn[h] # 0 => OutConn[h] \in Relays
  BY DEF TypeOK, Relays
<1> QED BY <1>1, <1>2 DEF TakenAndForwarded

-----------------------------------------------------------------------------
(* Type correctness.                                                       *)

(* What the program counters say of the pointers they are used with: a     *)
(* relay in the middle of an extension knows its target, and a forwarder   *)
(* runs only on a circuit that has an OutConn.                             *)
ControlOK ==
    \A h \in Relays : /\ handler[h] \in {"dial", "await"} => target[h] # 0
                      /\ forwarder[h] = "run" => OutConn[h] # 0

(* A relay that handles a cell has one.                                    *)
HandOK == \A h \in Relays : handler[h] = "handle" => fwd[h] # <<>>

CoreInv == TypeOK /\ ControlOK

(* The inductive strengthening of the type invariant.                      *)
TypeInv == CoreInv /\ HandOK

(* Before the client dials, everything is well typed.                      *)
LEMMA TypeInit == Init => TypeInv
<1>1. <<>> \in Seq(Cells)
  OBVIOUS
<1>2. Init => TypeOK
  <2> SUFFICES ASSUME Init PROVE TypeOK
    BY Zenon
  <2>1. /\ fwd \in [Relays -> Seq(Cells)] /\ bwd \in [Relays -> Seq(Cells)]
        /\ clientKeys \in [Relays -> KeySlots] /\ key \in [Relays -> KeySlots]
    BY Zenon, <1>1 DEF Init, KeySlots
  <2>2. requests \in 0..MaxRequests /\ jobs \in Nat /\ chunks \in 0..MaxChunks
    BY BoundsAssumption DEF Init
  <2>3. /\ target \in [Relays -> 0..N] /\ OutConn \in [Relays -> 0..N]
        /\ closed \in [Relays -> SUBSET Ends]
    BY Zenon, EntryIsRelay DEF Init
  <2> QED BY Zenon, <2>1, <2>2, <2>3, EntryIsRelay DEF Init, TypeOK
<1>3. Init => ControlOK
  BY Zenon DEF Init, ControlOK
<1>4. Init => HandOK
  BY Zenon DEF Init, HandOK
<1> QED BY Zenon, <1>2, <1>3, <1>4 DEF TypeInv, CoreInv

(* The client's handshake, requests and close keep the types.              *)
LEMMA TypeClient == TypeInv /\ Client => CoreInv'
<1> SUFFICES ASSUME TypeInv, Client
             PROVE  CoreInv'
  BY Zenon
<1> USE EntryIsRelay
<1>a. TypeOK /\ ControlOK /\ HandOK
  BY Zenon DEF TypeInv, CoreInv
<1>b. ControlOK'
  <2>1. /\ target' = target /\ OutConn' = OutConn /\ forwarder' = forwarder
        /\ handler' = handler \/ handler' = [handler EXCEPT ![1] = "read"]
    BY Zenon DEF Client, Dial, HandshakeReply, HandshakeFails, SendRequest,
           ReadResponse, ResponseEnds, Close, extendVars, circVars
  <2>2. \A h \in Relays : handler'[h] = handler[h] \/ handler'[h] = "read"
    BY Zenon, <1>a, <2>1 DEF TypeOK
  <2> QED BY Zenon, <1>a, <2>1, <2>2 DEF ControlOK
<1>1. ASSUME NEW ks \in [Relays -> KeySlots], NEW k \in Relays
      PROVE  Onion(ks, k) \in Seq(KeySlots)
  BY <1>1 DEF Onion, Relays
<1>2. CASE Dial
  <2>1. Cell("Create", <<>>, 1) \in Cells
    BY Zenon, EmptyOnion, EntryIsRelay, CellType DEF Commands
  <2>2. Write(fwd, 1, Cell("Create", <<>>, 1)) \in [Relays -> Seq(Cells)]
    BY Zenon, <1>a, <2>1, WriteType DEF TypeOK
  <2>3. TypeOK'
    BY Zenon, <1>2, <1>a, <2>2 DEF Dial, TypeOK, circVars, exitVars, idleVars
  <2> QED BY Zenon, <1>b, <2>3 DEF CoreInv
<1>3. CASE HandshakeReply
  <2> DEFINE c == Head(bwd[1])
  <2>1. bwd[1] # <<>> /\ bwd' = [bwd EXCEPT ![1] = Tail(@)]
    BY Zenon, <1>3 DEF HandshakeReply
  <2>2. c \in Cells /\ bwd' \in [Relays -> Seq(Cells)]
    BY Zenon, <1>a, <2>1, TakeType DEF TypeOK
  <2>3. DeriveKey(hop, c.arg) \in KeySlots
    BY SMTT(30), <1>a, <2>2 DEF Cells, DeriveKey, KeySlots, Keys, TypeOK, Relays
  <2>4. clientKeys' \in [Relays -> KeySlots]
    BY Zenon, <1>a, <1>3, <2>3 DEF HandshakeReply, TypeOK
  <2>5. hop' \in Relays /\ fwd' \in [Relays -> Seq(Cells)]
    <3>1. CASE c.cmd = (IF hop = 1 THEN "Created" ELSE "Extended") /\ hop # N
      <4>1. hop + 1 \in Relays /\ hop + 1 \in 0..N
        BY <1>a, <3>1, NAssumption DEF TypeOK, Relays
      <4>2. Onion(clientKeys', hop) \in Seq(KeySlots)
        BY Zenon, <1>a, <1>1, <2>4 DEF TypeOK
      <4>3. Cell("Extend", Onion(clientKeys', hop), hop + 1) \in Cells
        BY Zenon, <4>1, <4>2, CellType DEF Commands
      <4>4. Write(fwd, 1, Cell("Extend", Onion(clientKeys', hop), hop + 1))
                \in [Relays -> Seq(Cells)]
        BY Zenon, <1>a, <4>3, WriteType DEF TypeOK
      <4> QED BY Zenon, <1>3, <3>1, <4>1, <4>4 DEF HandshakeReply
    <3>2. CASE ~ (c.cmd = (IF hop = 1 THEN "Created" ELSE "Extended") /\ hop # N)
      BY Zenon, <1>a, <1>3, <3>2 DEF HandshakeReply, TypeOK
    <3> QED BY Zenon, <3>1, <3>2
  <2>6. phase' \in {"idle", "wait", "open", "closed"}
    BY Zenon, <1>a, <1>3 DEF HandshakeReply, TypeOK
  <2>8. closed' \in [Relays -> SUBSET Ends]
    <3>1. closed' = CloseEnd(1, "up") \/ closed' = closed
      BY Zenon, <1>3 DEF HandshakeReply
    <3>2. closed \in [Relays -> SUBSET Ends] /\ "up" \in Ends
      BY Zenon, <1>a DEF TypeOK, Ends
    <3>3. CloseEnd(1, "up") \in [Relays -> SUBSET Ends]
      BY Zenon, <3>2, CloseEndType
    <3> QED BY Zenon, <3>1, <3>2, <3>3
  <2>7. TypeOK'
    BY Zenon, <1>a, <1>3, <2>2, <2>4, <2>5, <2>6, <2>8
       DEF HandshakeReply, TypeOK, extendVars, circVars, exitVars, idleVars
  <2> QED BY Zenon, <1>b, <2>7 DEF CoreInv
<1>4. CASE HandshakeFails
  BY Zenon, <1>4, <1>a, <1>b DEF HandshakeFails, CoreInv, TypeOK, CloseEnd, Ends,
                          extendVars, circVars, exitVars, idleVars
<1>5. CASE SendRequest
  <2>1. Cell("Relay", Onion(clientKeys, N), 0) \in Cells
    <3>1. Onion(clientKeys, N) \in Seq(KeySlots)
      BY Zenon, <1>a, <1>1 DEF TypeOK
    <3> QED BY Zenon, <3>1, CellType DEF Commands
  <2>2. Write(fwd, 1, Cell("Relay", Onion(clientKeys, N), 0))
            \in [Relays -> Seq(Cells)]
    BY Zenon, <1>a, <2>1, WriteType DEF TypeOK
  <2>3. requests' \in 0..MaxRequests
    BY <1>5, <1>a, BoundsAssumption DEF SendRequest, TypeOK
  <2>4. TypeOK'
    BY Zenon, <1>5, <1>a, <2>2, <2>3
       DEF SendRequest, TypeOK, extendVars, circVars, exitVars, idleVars
  <2> QED BY Zenon, <1>b, <2>4 DEF CoreInv
<1>6. CASE ReadResponse
  <2>1. bwd[1] # <<>> /\ bwd' = [bwd EXCEPT ![1] = Tail(@)]
    BY Zenon, <1>6 DEF ReadResponse
  <2>2. bwd' \in [Relays -> Seq(Cells)]
    BY Zenon, <1>a, <2>1, TakeType DEF TypeOK
  <2>3. busy' \in BOOLEAN
    BY Zenon, <1>6 DEF ReadResponse
  <2>4. TypeOK'
    BY Zenon, <1>6, <1>a, <2>2, <2>3
       DEF ReadResponse, TypeOK, extendVars, circVars, exitVars, idleVars
  <2> QED BY Zenon, <1>b, <2>4 DEF CoreInv
<1>7. CASE ResponseEnds
  BY Zenon, <1>7, <1>a, <1>b DEF ResponseEnds, CoreInv, TypeOK, connVars,
                          extendVars, circVars, exitVars, idleVars
<1>8. CASE Close
  <2>1. Cell("Destroy", <<>>, 0) \in Cells
    BY Zenon, EmptyOnion, EntryIsRelay, CellType DEF Commands
  <2>2. Write(fwd, 1, Cell("Destroy", <<>>, 0)) \in [Relays -> Seq(Cells)]
    BY Zenon, <1>a, <2>1, WriteType DEF TypeOK
  <2>3. TypeOK'
    BY Zenon, <1>8, <1>a, <2>2 DEF Close, TypeOK, CloseEnd, Ends, extendVars,
                            circVars, exitVars, idleVars
  <2> QED BY Zenon, <1>b, <2>3 DEF CoreInv
<1> QED BY Zenon, <1>2, <1>3, <1>4, <1>5, <1>6, <1>7, <1>8 DEF Client

(* Every cell handleCell handles, and each step of an extension, keeps the *)
(* types.                                                                  *)
LEMMA TypeHandleConn ==
    ASSUME TypeInv, NEW h \in Relays, HandleConn(h)
    PROVE  CoreInv'
<1>a. TypeOK /\ ControlOK /\ HandOK
  BY Zenon DEF TypeInv, CoreInv
<1> USE EntryIsRelay
<1>b. h \in 0..N
  BY DEF Relays
<1>1. CASE HandleCreate(h)
  <2>1. fwd[h] # <<>>
    BY Zenon, <1>1, <1>a DEF HandleCreate, Handles, HandOK
  <2>2. Head(fwd[h]) \in Cells /\ fwd' \in [Relays -> Seq(Cells)]
    BY Zenon, <1>1, <1>a, <2>1, TakeType DEF HandleCreate, Taken, TypeOK
  <2>3. Head(fwd[h]).arg \in 0..N
    BY Zenon, <2>2 DEF Cells
  <2>4. Cell("Created", <<>>, h) \in Cells
    BY Zenon, <1>b, EmptyOnion, CellType DEF Commands
  <2>5. bwd' \in [Relays -> Seq(Cells)]
    BY Zenon, <1>1, <1>a, <2>4, WriteType DEF HandleCreate, TypeOK
  <2>6. key' \in [Relays -> KeySlots]
    BY Zenon, <1>1, <1>a, <1>b, <2>3
       DEF HandleCreate, TypeOK, DeriveKey, KeySlots, Keys
  <2>7. ControlOK'
    BY Zenon, <1>1, <1>a DEF HandleCreate, Reads, ControlOK, TypeOK
  <2>8. TypeOK'
    BY Zenon, <1>1, <1>a, <2>2, <2>5, <2>6
       DEF HandleCreate, Reads, TypeOK, clientVars, exitVars, idleVars
  <2> QED BY Zenon, <2>7, <2>8 DEF CoreInv
<1>2. CASE ForwardExtend(h)
  <2>1. fwd[h] # <<>>
    BY Zenon, <1>2, <1>a DEF ForwardExtend, Handles, HandOK
  <2>2. Head(fwd[h]) \in Cells
    BY Zenon, <1>a, <2>1, TakeType DEF TypeOK
  <2>3. fwd' \in [Relays -> Seq(Cells)]
    BY Zenon, <1>2, <1>a, <2>1, <2>2, DecryptedType, ForwardedType DEF ForwardExtend
  <2>4. ControlOK'
    BY Zenon, <1>2, <1>a DEF ForwardExtend, Reads, ControlOK, circVars, TypeOK
  <2>5. TypeOK'
    BY Zenon, <1>2, <1>a, <2>3
       DEF ForwardExtend, Reads, TypeOK, clientVars, circVars, exitVars, idleVars
  <2> QED BY Zenon, <2>4, <2>5 DEF CoreInv
<1>3. CASE StartExtend(h)
  <2>1. fwd[h] # <<>>
    BY Zenon, <1>3, <1>a DEF StartExtend, Handles, HandOK
  <2>2. Head(fwd[h]) \in Cells /\ fwd' \in [Relays -> Seq(Cells)]
    BY Zenon, <1>3, <1>a, <2>1, TakeType DEF StartExtend, Taken, TypeOK
  <2>3. Head(fwd[h]).arg \in 0..N
    BY Zenon, <2>2 DEF Cells
  <2>4. ControlOK'
    BY Zenon, <1>3, <1>a DEF StartExtend, Reads, ControlOK, circVars, TypeOK
  <2>5. TypeOK'
    BY Zenon, <1>3, <1>a, <2>2, <2>3
       DEF StartExtend, Reads, TypeOK, clientVars, circVars, exitVars, idleVars
  <2> QED BY Zenon, <2>4, <2>5 DEF CoreInv
<1>4. CASE HandleRelay(h)
  <2>1. fwd[h] # <<>>
    BY Zenon, <1>4, <1>a DEF HandleRelay, Handles, HandOK
  <2>2. Head(fwd[h]) \in Cells
    BY Zenon, <1>a, <2>1, TakeType DEF TypeOK
  <2>3. fwd' \in [Relays -> Seq(Cells)]
    BY <1>4, <1>a, <2>1, <2>2, DecryptedType, ForwardedType DEF HandleRelay
  <2>4. ControlOK'
    BY Zenon, <1>4, <1>a DEF HandleRelay, Reads, ControlOK, circVars, TypeOK
  <2>5. jobs' \in Nat
    <3>1. jobs' = jobs + 1 \/ jobs' = jobs
      BY Zenon, <1>4 DEF HandleRelay
    <3>2. jobs \in Nat
      BY Zenon, <1>a DEF TypeOK
    <3> QED BY <3>1, <3>2
  <2>6. TypeOK'
    BY Zenon, <1>4, <1>a, <2>3, <2>5
       DEF HandleRelay, Reads, TypeOK, clientVars, circVars, idleVars
  <2> QED BY Zenon, <2>4, <2>6 DEF CoreInv
<1>5. CASE HandleDestroy(h)
  <2>1. Taken(h) \in [Relays -> Seq(Cells)]
    BY Zenon, <1>5, <1>a, TakeType DEF HandleDestroy, Handles, HandOK, Taken, TypeOK
  <2>2. destroyCircuit(h, Taken(h))
    BY Zenon, <1>5 DEF HandleDestroy
  <2>3. ControlOK'
    BY Zenon, <1>5, <1>a DEF HandleDestroy, ControlOK, TypeOK
  <2>4. TypeOK'
    BY Zenon, <1>5, <1>a, <2>1, <2>2, DestroyType
       DEF HandleDestroy, TypeOK, clientVars, exitVars, idleVars
  <2> QED BY Zenon, <2>3, <2>4 DEF CoreInv
<1>6. CASE ConnEnds(h)
  <2>1. CloseEnd(h, "dn") \in [Relays -> SUBSET Ends]
    BY Zenon, <1>a, <1>b, CloseEndType DEF TypeOK, Ends
  <2>2. ControlOK'
    BY Zenon, <1>6, <1>a DEF ConnEnds, ControlOK, circVars, TypeOK
  <2>3. TypeOK'
    BY Zenon, <1>6, <1>a, <2>1
       DEF ConnEnds, TypeOK, clientVars, circVars, exitVars, idleVars
  <2> QED BY Zenon, <2>2, <2>3 DEF CoreInv
<1>7. CASE ExtendDialed(h)
  <2>1. target[h] \in 0..N /\ target[h] \in Relays
    <3>1. target[h] \in 0..N /\ target[h] # 0
      BY Zenon, <1>7, <1>a DEF ExtendDialed, ControlOK, TypeOK
    <3> QED BY <3>1 DEF Relays
  <2>2. Cell("Create", <<>>, target[h]) \in Cells
    BY Zenon, <2>1, EmptyOnion, CellType DEF Commands
  <2>3. fwd' \in [Relays -> Seq(Cells)]
    BY Zenon, <1>7, <1>a, <2>1, <2>2, WriteType DEF ExtendDialed, TypeOK
  <2>4. ControlOK'
    BY Zenon, <1>7, <1>a, <2>1 DEF ExtendDialed, ControlOK, circVars, TypeOK
  <2>5. TypeOK'
    BY Zenon, <1>7, <1>a, <2>3
       DEF ExtendDialed, TypeOK, clientVars, circVars, exitVars, idleVars
  <2> QED BY Zenon, <2>4, <2>5 DEF CoreInv
<1>8. CASE ExtendDialFails(h)
  <2>1. ControlOK'
    BY Zenon, <1>8, <1>a DEF ExtendDialFails, ControlOK, circVars, TypeOK
  <2>2. TypeOK'
    BY Zenon, <1>8, <1>a DEF ExtendDialFails, TypeOK, clientVars, connVars, circVars,
                      exitVars, idleVars
  <2> QED BY Zenon, <2>1, <2>2 DEF CoreInv
<1>9. CASE ExtendCreated(h)
  <2> DEFINE next == target[h]
             c == Head(bwd[next])
             rest == [bwd EXCEPT ![next] = Tail(@)]
  <2>1. next \in 0..N /\ next \in Relays
    <3>1. next \in 0..N /\ next # 0
      BY Zenon, <1>9, <1>a DEF ExtendCreated, ControlOK, TypeOK
    <3> QED BY <3>1 DEF Relays
  <2>2. c \in Cells /\ rest \in [Relays -> Seq(Cells)]
    BY Zenon, <1>9, <1>a, <2>1, TakeType DEF ExtendCreated, TypeOK
  <2>3. Cell("Extended", <<>>, c.arg) \in Cells
    BY Zenon, <2>2, EmptyOnion, CellType DEF Commands, Cells
  <2>4. Write(rest, h, Cell("Extended", <<>>, c.arg)) \in [Relays -> Seq(Cells)]
    BY Zenon, <2>2, <2>3, WriteType
  <2>5. bwd' \in [Relays -> Seq(Cells)]
    BY Zenon, <1>9, <2>2, <2>4 DEF ExtendCreated
  <2>6. closed' \in [Relays -> SUBSET Ends]
    <3>1. CloseEnd(next, "up") \in [Relays -> SUBSET Ends]
      BY Zenon, <1>a, <2>1, CloseEndType DEF TypeOK, Ends
    <3> QED BY Zenon, <1>9, <1>a, <3>1 DEF ExtendCreated, TypeOK
  <2>7. /\ OutConn' \in [Relays -> 0..N]
        /\ forwarder' \in [Relays -> {"off", "run", "done"}]
    BY Zenon, <1>9, <1>a, <2>1 DEF ExtendCreated, TypeOK
  <2>8. ControlOK'
    <3>1. /\ handler' = [handler EXCEPT ![h] = "read"]
          /\ target' = [target EXCEPT ![h] = 0]
      BY Zenon, <1>9 DEF ExtendCreated
    <3>2. \/ OutConn' = OutConn /\ forwarder' = forwarder
          \/ /\ OutConn' = [OutConn EXCEPT ![h] = next]
             /\ forwarder' = [forwarder EXCEPT ![h] = "run"]
      BY Zenon, <1>9 DEF ExtendCreated
    <3>3. next # 0
      BY <2>1 DEF Relays
    <3> QED BY Zenon, <1>a, <3>1, <3>2, <3>3 DEF ControlOK, TypeOK
  <2>9. TypeOK'
    BY Zenon, <1>9, <1>a, <2>5, <2>6, <2>7
       DEF ExtendCreated, TypeOK, clientVars, exitVars, idleVars
  <2> QED BY Zenon, <2>8, <2>9 DEF CoreInv
<1>10. CASE ExtendFails(h)
  <2>1. CloseEnd(target[h], "up") \in [Relays -> SUBSET Ends]
    BY Zenon, <1>a, CloseEndType DEF TypeOK, Ends
  <2>2. ControlOK'
    BY Zenon, <1>10, <1>a DEF ExtendFails, ControlOK, circVars, TypeOK
  <2>3. TypeOK'
    BY Zenon, <1>10, <1>a, <2>1
       DEF ExtendFails, TypeOK, clientVars, circVars, exitVars, idleVars
  <2> QED BY Zenon, <2>2, <2>3 DEF CoreInv
<1>11. CASE ReadCell(h) \/ DestroyEnds(h)
  <2>1. ControlOK'
    BY Zenon, <1>11, <1>a DEF ReadCell, DestroyEnds, Reads, ControlOK, circVars, TypeOK
  <2>2. TypeOK'
    BY Zenon, <1>11, <1>a DEF ReadCell, DestroyEnds, Reads, Touch, Remove, TypeOK,
                       clientVars, connVars, circVars, exitVars
  <2> QED BY Zenon, <2>1, <2>2 DEF CoreInv
<1> QED BY Zenon, <1>1, <1>2, <1>3, <1>4, <1>5, <1>6, <1>7, <1>8, <1>9, <1>10, <1>11
       DEF HandleConn

(* So do the forwarder, the idle sweeper and a lost connection.            *)
LEMMA TypeOthers ==
    ASSUME TypeInv, NEW h \in Relays,
           Forwarder(h) \/ Idle(h) \/ Sweep(h) \/ ConnLost(h)
    PROVE  CoreInv'
<1>a. TypeOK /\ ControlOK /\ HandOK
  BY Zenon DEF TypeInv, CoreInv
<1>1. CASE forwardCells(h)
  <2> DEFINE next == OutConn[h]
             c == Head(bwd[next])
             rest == [bwd EXCEPT ![next] = Tail(@)]
             out == IF c.cmd \in {"Relay", "RelayDone"}
                    THEN [c EXCEPT !.layers = Encrypt(key[h], @)]
                    ELSE c
  <2>1. next \in Relays
    <3>1. next \in 0..N /\ next # 0
      BY Zenon, <1>1, <1>a DEF forwardCells, ControlOK, TypeOK
    <3> QED BY <3>1 DEF Relays
  <2>2. bwd[next] # <<>> /\ bwd' = Write(rest, h, out)
    BY Zenon, <1>1 DEF forwardCells
  <2>3. c \in Cells /\ rest \in [Relays -> Seq(Cells)]
    BY Zenon, <1>a, <2>1, <2>2, TakeType DEF TypeOK
  <2>4. Encrypt(key[h], c.layers) \in Seq(KeySlots)
    <3>1. c.layers \in Seq(KeySlots) /\ key[h] \in KeySlots
      BY Zenon, <1>a, <2>3 DEF TypeOK, Cells
    <3> QED BY <3>1 DEF Encrypt
  <2>5. out \in Cells
    BY Zenon, <2>3, <2>4 DEF Cells
  <2>6. bwd' \in [Relays -> Seq(Cells)]
    BY Zenon, <2>2, <2>3, <2>5, WriteType
  <2>7. ControlOK'
    BY Zenon, <1>1, <1>a DEF forwardCells, ControlOK, extendVars, circVars
  <2>8. TypeOK'
    BY Zenon, <1>1, <1>a, <2>6 DEF forwardCells, TypeOK, clientVars, extendVars,
                            circVars, exitVars, idleVars
  <2> QED BY Zenon, <2>7, <2>8 DEF CoreInv
<1>2. CASE ForwarderEnds(h)
  <2>1. ControlOK'
    BY Zenon, <1>2, <1>a DEF ForwarderEnds, ControlOK, TypeOK, extendVars
  <2>2. TypeOK'
    BY Zenon, <1>2, <1>a DEF ForwarderEnds, TypeOK, clientVars, connVars, extendVars,
                      exitVars, idleVars
  <2> QED BY Zenon, <2>1, <2>2 DEF CoreInv
<1>3. CASE Idle(h)
  <2>1. ControlOK'
    BY Zenon, <1>3, <1>a DEF Idle, ControlOK, extendVars, circVars
  <2>2. TypeOK'
    BY Zenon, <1>3, <1>a DEF Idle, TypeOK, clientVars, connVars, extendVars, circVars,
                      exitVars
  <2> QED BY Zenon, <2>1, <2>2 DEF CoreInv
<1>4. CASE SweepCollect(h)
  <2>1. ControlOK'
    BY Zenon, <1>4, <1>a DEF SweepCollect, ControlOK, extendVars, circVars
  <2>2. TypeOK'
    BY Zenon, <1>4, <1>a DEF SweepCollect, TypeOK, clientVars, connVars, extendVars,
                      circVars, exitVars
  <2> QED BY Zenon, <2>1, <2>2 DEF CoreInv
<1>5. CASE SweepDestroy(h)
  <2>1. fwd \in [Relays -> Seq(Cells)] /\ destroyCircuit(h, fwd)
    BY Zenon, <1>5, <1>a DEF SweepDestroy, TypeOK
  <2>2. ControlOK'
    BY Zenon, <1>5, <1>a DEF SweepDestroy, ControlOK, extendVars
  <2>3. TypeOK'
    BY Zenon, <1>5, <1>a, <2>1, DestroyType
       DEF SweepDestroy, TypeOK, clientVars, extendVars, exitVars
  <2> QED BY Zenon, <2>2, <2>3 DEF CoreInv
<1>6. CASE ConnLost(h)
  <2>1. /\ <<>> \in Seq(Cells)
        /\ handler[h] = "handle" => <<Head(fwd[h])>> \in Seq(Cells)
    <3>1. handler[h] = "handle" => Head(fwd[h]) \in Cells
      BY Zenon, <1>a, TakeType DEF HandOK, TypeOK
    <3> QED BY <3>1
  <2>2. ControlOK'
    BY Zenon, <1>6, <1>a DEF ConnLost, ControlOK, extendVars, circVars
  <2>3. TypeOK'
    BY Zenon, <1>6, <1>a, <2>1 DEF ConnLost, TypeOK, clientVars, extendVars, circVars,
                            exitVars, idleVars
  <2> QED BY Zenon, <2>2, <2>3 DEF CoreInv
<1>7. CASE SweepEnds(h)
  <2>1. ControlOK'
    BY Zenon, <1>7, <1>a DEF SweepEnds, ControlOK, extendVars, circVars
  <2>2. TypeOK'
    BY Zenon, <1>7, <1>a DEF SweepEnds, Remove, TypeOK, clientVars, connVars, extendVars,
                      circVars, exitVars
  <2> QED BY Zenon, <2>1, <2>2 DEF CoreInv
<1> QED BY Zenon, <1>1, <1>2, <1>3, <1>4, <1>5, <1>6, <1>7 DEF Forwarder, Sweep

(* So do the exit's response cells.                                        *)
LEMMA TypeExit == TypeInv /\ Exit => CoreInv'
<1> SUFFICES ASSUME TypeInv, Exit
             PROVE  CoreInv'
  BY Zenon
<1>a. TypeOK /\ ControlOK /\ HandOK
  BY Zenon DEF TypeInv, CoreInv
<1>b. Encrypt(key[N], <<>>) \in Seq(KeySlots)
  BY <1>a, EntryIsRelay DEF TypeOK, Encrypt
<1>c. ControlOK'
  BY Zenon, <1>a DEF Exit, ExitChunk, ExitDone, ControlOK, extendVars, circVars
<1>1. CASE ExitChunk
  <2>1. Cell("Relay", Encrypt(key[N], <<>>), 0) \in Cells
    BY Zenon, <1>b, EntryIsRelay, CellType DEF Commands
  <2>2. bwd' \in [Relays -> Seq(Cells)]
    BY Zenon, <1>1, <1>a, <2>1, EntryIsRelay, WriteType DEF ExitChunk, TypeOK
  <2>3. chunks' \in 0..MaxChunks
    BY <1>1, <1>a, BoundsAssumption DEF ExitChunk, TypeOK
  <2>4. TypeOK'
    BY Zenon, <1>1, <1>a, <2>2, <2>3
       DEF ExitChunk, TypeOK, clientVars, extendVars, circVars, idleVars
  <2> QED BY Zenon, <1>c, <2>4 DEF CoreInv
<1>2. CASE ExitDone
  <2>1. Cell("RelayDone", Encrypt(key[N], <<>>), 0) \in Cells
    BY Zenon, <1>b, EntryIsRelay, CellType DEF Commands
  <2>2. bwd' \in [Relays -> Seq(Cells)]
    BY Zenon, <1>2, <1>a, <2>1, EntryIsRelay, WriteType DEF ExitDone, TypeOK
  <2>3. jobs' \in Nat
    BY <1>2, <1>a DEF ExitDone, TypeOK
  <2>4. TypeOK'
    BY Zenon, <1>2, <1>a, <2>2, <2>3
       DEF ExitDone, TypeOK, clientVars, extendVars, circVars, idleVars
  <2> QED BY Zenon, <1>c, <2>4 DEF CoreInv
<1> QED BY Zenon, <1>1, <1>2 DEF Exit

(* A step that changes nothing keeps the types.                            *)
LEMMA TypeStutter == TypeInv /\ UNCHANGED vars => TypeInv'
BY Zenon DEF TypeInv, CoreInv, TypeOK, ControlOK, HandOK, vars, clientVars, connVars,
       extendVars, circVars, exitVars, idleVars

(* What a step may do to the channel of a relay that handles a cell and    *)
(* goes on handling it: it may only grow, or be cut down to that cell.     *)
Holds(s, t) ==
    \/ t = s
    \/ t = <<Head(s)>>
    \/ \E c : t = Append(s, c)

(* The cell in hand stays in hand.                                         *)
LEMMA HoldsHead ==
    ASSUME NEW s \in Seq(Cells), s # <<>>, NEW t, Holds(s, t)
    PROVE  t # <<>> /\ Head(t) = Head(s)
<1>1. CASE t = s
  BY Zenon, <1>1
<1>2. CASE t = <<Head(s)>>
  BY <1>2
<1>3. ASSUME NEW c, t = Append(s, c) PROVE t # <<>> /\ Head(t) = Head(s)
  <2>1. s \in Seq(Cells \cup {c}) /\ c \in Cells \cup {c}
    OBVIOUS
  <2> QED BY <1>3, <2>1
<1> QED BY Zenon, <1>1, <1>2, <1>3 DEF Holds

(* A cell that is written is lost, or comes behind the others.             *)
LEMMA WriteHolds ==
    ASSUME NEW channel \in [Relays -> Seq(Cells)], NEW g \in Relays, NEW h, NEW c
    PROVE  Holds(channel[g], Write(channel, h, c)[g])
BY Zenon DEF Holds, Write

(* So does one that is forwarded, or a Destroy; what the relay itself has  *)
(* taken does not matter to another.                                       *)
LEMMA TakenHolds ==
    ASSUME TypeOK, NEW g \in Relays, NEW h \in Relays, g # h
    PROVE  /\ Holds(fwd[g], Taken(h)[g])
           /\ \A c : Holds(fwd[g], TakenAndForwarded(h, c)[g])
<1>1. Taken(h)[g] = fwd[g] /\ DOMAIN Taken(h) = Relays
  BY Zenon DEF Taken, TypeOK
<1> QED BY Zenon, <1>1 DEF Holds, TakenAndForwarded

(* Likewise for destroyCircuit.                                            *)
LEMMA DestroyHolds ==
    ASSUME TypeOK, NEW g \in Relays, NEW h, NEW channel,
           destroyCircuit(h, channel), DOMAIN channel = Relays, channel[g] = fwd[g]
    PROVE  Holds(fwd[g], fwd'[g])
BY Zenon DEF Holds, destroyCircuit

(* A relay that handles a cell after a step did so before, and still has   *)
(* that cell, or has just read one.                                        *)
LEMMA HandKept ==
    ASSUME TypeInv, Next, NEW g \in Relays, handler'[g] = "handle"
    PROVE  \/ handler[g] = "handle" /\ Holds(fwd[g], fwd'[g])
           \/ ReadCell(g)
<1>a. TypeOK
  BY Zenon DEF TypeInv, CoreInv
<1>1. CASE Client
  <2>1. handler' = handler \/ handler' = [handler EXCEPT ![1] = "read"]
    BY Zenon, <1>1 DEF Client, Dial, HandshakeReply, HandshakeFails, SendRequest,
           ReadResponse, ResponseEnds, Close, extendVars
  <2>2. fwd' = fwd \/ \E c : fwd' = Write(fwd, 1, c)
    BY Zenon, <1>1 DEF Client, Dial, HandshakeReply, HandshakeFails, SendRequest,
           ReadResponse, ResponseEnds, Close, connVars
  <2>3. Holds(fwd[g], fwd'[g])
    <3>1. CASE fwd' = fwd
      BY Zenon, <3>1 DEF Holds
    <3>2. ASSUME NEW c, fwd' = Write(fwd, 1, c) PROVE Holds(fwd[g], fwd'[g])
      <4>1. fwd \in [Relays -> Seq(Cells)]
        BY Zenon, <1>a DEF TypeOK
      <4> QED BY Zenon, <3>2, <4>1, WriteHolds
    <3> QED BY Zenon, <2>2, <3>1, <3>2
  <2> QED BY Zenon, <1>a, <2>1, <2>3 DEF TypeOK
<1>2. CASE Exit \/ (Quiescent /\ UNCHANGED vars)
  BY Zenon, <1>2 DEF Exit, ExitChunk, ExitDone, vars, connVars, extendVars, Holds
<1>3. ASSUME NEW h \in Relays, HandleConn(h), ~ ReadCell(h)
      PROVE  handler[g] = "handle" /\ Holds(fwd[g], fwd'[g])
  <2>1. CASE HandleCreate(h) \/ ForwardExtend(h) \/ StartExtend(h) \/ HandleRelay(h)
    <3>1. \/ handler' = Reads(h)
          \/ handler' = [handler EXCEPT ![h] = "dial"]
      BY Zenon, <2>1 DEF HandleCreate, ForwardExtend, StartExtend, HandleRelay
    <3>2. g # h /\ handler[g] = "handle"
      BY Zenon, <1>a, <3>1 DEF Reads, TypeOK
    <3>3. fwd' = Taken(h) \/ \E c : fwd' = TakenAndForwarded(h, c)
      BY Zenon, <2>1 DEF HandleCreate, ForwardExtend, StartExtend, HandleRelay
    <3> QED BY Zenon, <1>a, <3>2, <3>3, TakenHolds
  <2>2. CASE HandleDestroy(h)
    <3>1. g # h /\ handler[g] = "handle"
      BY Zenon, <1>a, <2>2 DEF HandleDestroy, TypeOK
    <3>2. DOMAIN Taken(h) = Relays /\ Taken(h)[g] = fwd[g]
      BY Zenon, <1>a, <3>1 DEF Taken, TypeOK
    <3> QED BY Zenon, <1>a, <2>2, <3>1, <3>2, DestroyHolds DEF HandleDestroy
  <2>3. CASE ExtendDialed(h)
    <3>1. handler[g] = "handle"
      BY Zenon, <1>a, <2>3 DEF ExtendDialed, TypeOK
    <3> QED BY Zenon, <1>a, <2>3, <3>1, WriteHolds DEF ExtendDialed, TypeOK
  <2>4. CASE \/ ConnEnds(h) \/ DestroyEnds(h) \/ ExtendDialFails(h)
             \/ ExtendCreated(h) \/ ExtendFails(h)
    <3>1. /\ \E e \in {"read", "gone"} : handler' = [handler EXCEPT ![h] = e]
          /\ fwd' = fwd
      BY Zenon, <2>4 DEF ConnEnds, DestroyEnds, ExtendDialFails, ExtendCreated,
             ExtendFails, Reads, connVars
    <3> QED BY Zenon, <1>a, <3>1 DEF Holds, TypeOK
  <2> QED BY Zenon, <1>3, <2>1, <2>2, <2>3, <2>4 DEF HandleConn
<1>4. ASSUME NEW h \in Relays, Forwarder(h) \/ Idle(h) \/ SweepCollect(h) \/ SweepEnds(h)
      PROVE  handler[g] = "handle" /\ Holds(fwd[g], fwd'[g])
  BY Zenon, <1>4 DEF Forwarder, forwardCells, ForwarderEnds, Idle, SweepCollect, SweepEnds,
         connVars, extendVars, Holds
<1>5. ASSUME NEW h \in Relays, SweepDestroy(h)
      PROVE  handler[g] = "handle" /\ Holds(fwd[g], fwd'[g])
  <2>1. handler' = handler /\ destroyCircuit(h, fwd) /\ DOMAIN fwd = Relays
    BY Zenon, <1>a, <1>5 DEF SweepDestroy, extendVars, TypeOK
  <2> QED BY Zenon, <1>a, <2>1, DestroyHolds
<1>6. ASSUME NEW h \in Relays, ConnLost(h)
      PROVE  handler[g] = "handle" /\ Holds(fwd[g], fwd'[g])
  BY Zenon, <1>a, <1>6 DEF ConnLost, extendVars, Holds, TypeOK
<1>7. ASSUME NEW h \in Relays, ReadCell(h)
      PROVE  \/ handler[g] = "handle" /\ Holds(fwd[g], fwd'[g])
             \/ ReadCell(g)
  <2>1. CASE g = h
    BY Zenon, <1>7, <2>1
  <2>2. CASE g # h
    BY Zenon, <1>a, <1>7, <2>2 DEF ReadCell, connVars, Holds, TypeOK
  <2> QED BY Zenon, <2>1, <2>2
<1> QED BY Zenon, <1>1, <1>2, <1>3, <1>4, <1>5, <1>6, <1>7 DEF Next, Sweep

(* Every step keeps the types.                                             *)
LEMMA TypeStep == TypeInv /\ [Next]_vars => TypeInv'
<1> SUFFICES ASSUME TypeInv, Next PROVE TypeInv'
  BY Zenon, TypeStutter
<1>1. CoreInv'
  <2>1. CASE Quiescent /\ UNCHANGED vars
    BY Zenon, <2>1, TypeStutter DEF TypeInv
  <2> QED BY Zenon, <2>1, TypeClient, TypeHandleConn, TypeOthers, TypeExit DEF Next
<1>2. ASSUME NEW g \in Relays, handler'[g] = "handle" PROVE fwd'[g] # <<>>
  <2>1. CASE handler[g] = "handle" /\ Holds(fwd[g], fwd'[g])
    <3>1. fwd[g] \in Seq(Cells) /\ fwd[g] # <<>>
      BY Zenon, <2>1 DEF TypeInv, CoreInv, HandOK, TypeOK
    <3> QED BY Zenon, <2>1, <3>1, HoldsHead
  <2>2. CASE ReadCell(g)
    BY Zenon, <2>2 DEF ReadCell, connVars
  <2> QED BY Zenon, <1>2, <2>1, <2>2, HandKept
<1> QED BY Zenon, <1>1, <1>2 DEF TypeInv, HandOK

(* Every reachable state is well typed, for a path of any length.          *)
THEOREM TypeCorrect == Spec => []TypeOK
<1>1. Spec => []TypeInv
  BY TypeInit, TypeStep, PTL DEF Spec
<1>2. TypeInv => TypeOK
  BY Zenon DEF TypeInv, CoreInv
<1> QED BY <1>1, <1>2, PTL

-----------------------------------------------------------------------------
(* Channels: what may stand at the head of one, and behind it.             *)

(* The first cell of s is in H, every other in R.                          *)
Within(s, H, R) == \A i \in 1..Len(s) : s[i] \in (IF i = 1 THEN H ELSE R)

(* What one step does to a channel: nothing, losing everything, losing the *)
(* first cell or all but that, or gaining one at the end that may stand    *)
(* there.                                                                  *)
Moves(s, t, H, R) ==
    \/ t = s
    \/ t = <<>>
    \/ s # <<>> /\ t = Tail(s)
    \/ s # <<>> /\ t = <<Head(s)>>
    \/ \E c \in Cells : t = Append(s, c) /\ (c \in R \/ (s = <<>> /\ c \in H))

(* Taking the first cell leaves only cells that may stand behind it.       *)
LEMMA WithinTail ==
    ASSUME NEW s \in Seq(Cells), NEW H, NEW R, s # <<>>, Within(s, H, R)
    PROVE  /\ Head(s) \in H
           /\ Within(Tail(s), R, R)
<1>1. /\ Head(s) = s[1] /\ Len(s) \in Nat /\ Len(s) >= 1
      /\ Len(Tail(s)) = Len(s) - 1
      /\ \A i \in 1..Len(Tail(s)) : Tail(s)[i] = s[i + 1]
  OBVIOUS
<1>2. 1 \in 1..Len(s)
  BY <1>1
<1>3. ASSUME NEW i \in 1..Len(Tail(s)) PROVE Tail(s)[i] \in R
  <2>1. i + 1 \in 1..Len(s) /\ i + 1 # 1
    BY <1>1
  <2> QED BY Zenon, <1>1, <2>1 DEF Within
<1> QED BY Zenon, <1>1, <1>2, <1>3 DEF Within

(* Appending a cell that may stand at the end.                             *)
LEMMA WithinAppend ==
    ASSUME NEW s \in Seq(Cells), NEW H, NEW R, NEW c \in Cells, R \subseteq H,
           Within(s, H, R), c \in R \/ (s = <<>> /\ c \in H)
    PROVE  Within(Append(s, c), H, R)
<1>1. /\ Len(s) \in Nat /\ Len(Append(s, c)) = Len(s) + 1
      /\ Append(s, c)[Len(s) + 1] = c
      /\ \A i \in 1..Len(s) : Append(s, c)[i] = s[i]
  OBVIOUS
<1>2. s = <<>> => Len(s) + 1 = 1
  OBVIOUS
<1>3. c \in (IF Len(s) + 1 = 1 THEN H ELSE R)
  BY Zenon, <1>2
<1>4. ASSUME NEW i \in 1..(Len(s) + 1)
      PROVE  Append(s, c)[i] \in (IF i = 1 THEN H ELSE R)
  <2>1. CASE i \in 1..Len(s)
    BY Zenon, <1>1, <2>1 DEF Within
  <2>2. CASE i = Len(s) + 1
    BY Zenon, <1>1, <1>3, <2>2
  <2> QED BY <1>1, <2>1, <2>2
<1> QED BY Zenon, <1>1, <1>4 DEF Within

(* More cells may stand there.                                             *)
LEMMA WithinGrow ==
    ASSUME NEW s, NEW H, NEW R, NEW H2, NEW R2, H \subseteq H2, R \subseteq R2,
           Within(s, H, R)
    PROVE  Within(s, H2, R2)
BY Zenon DEF Within

(* Fewer cells may stand at the head, but the one there still may.         *)
LEMMA WithinHead ==
    ASSUME NEW s \in Seq(Cells), NEW H, NEW R, NEW H2, Within(s, H, R),
           s # <<>> => Head(s) \in H2
    PROVE  Within(s, H2, R)
<1>1. ASSUME NEW i \in 1..Len(s)
      PROVE  s[i] \in (IF i = 1 THEN H2 ELSE R)
  <2>1. s # <<>> /\ Head(s) = s[1]
    OBVIOUS
  <2> QED BY Zenon, <2>1 DEF Within
<1> QED BY Zenon, <1>1 DEF Within

(* A step of a channel keeps its cells where they may stand.               *)
LEMMA WithinMoves ==
    ASSUME NEW s \in Seq(Cells), NEW t, NEW H, NEW R, R \subseteq H,
           Within(s, H, R), Moves(s, t, H, R)
    PROVE  Within(t, H, R)
<1>1. CASE t = s
  BY Zenon, <1>1
<1>2. CASE t = <<>>
  BY <1>2 DEF Within
<1>3. CASE s # <<>> /\ t = Tail(s)
  <2>1. Within(Tail(s), R, R)
    BY Zenon, <1>3, WithinTail
  <2> QED BY Zenon, <1>3, <2>1, WithinGrow
<1>4. ASSUME NEW c \in Cells, t = Append(s, c), c \in R \/ (s = <<>> /\ c \in H)
      PROVE  Within(t, H, R)
  BY Zenon, <1>4, WithinAppend
<1>5. CASE s # <<>> /\ t = <<Head(s)>>
  <2>1. Head(s) \in H
    BY Zenon, <1>5, WithinTail
  <2>2. Len(t) = 1 /\ t[1] = Head(s)
    BY <1>5
  <2> QED BY <2>1, <2>2 DEF Within
<1> QED BY Zenon, <1>1, <1>2, <1>3, <1>4, <1>5 DEF Moves

-----------------------------------------------------------------------------
(* Onions.                                                                 *)

(* Sequences with the same elements in the same order are the same.        *)
LEMMA SameSequence ==
    ASSUME NEW S, NEW s \in Seq(S), NEW t \in Seq(S),
           Len(s) = Len(t), \A i \in 1..Len(s) : s[i] = t[i]
    PROVE  s = t
OBVIOUS

(* The layers that relays i to j of an honest path peel: the key of relay  *)
(* h is the pair of the ephemeral keys made for h and by h.                *)
HonestOnion(i, j) == [k \in 1..(j - i + 1) |-> <<i + k - 1, i + k - 1>>]

(* Its layers, one by one.                                                 *)
LEMMA OnionShape ==
    ASSUME NEW i \in 1..(N + 1), NEW j \in Relays, j - i + 1 \in Nat
    PROVE  /\ HonestOnion(i, j) \in Seq(KeySlots)
           /\ Len(HonestOnion(i, j)) = j - i + 1
           /\ \A k \in 1..(j - i + 1) : HonestOnion(i, j)[k] = <<i + k - 1, i + k - 1>>
<1>1. N \in Nat /\ j \in Nat /\ j <= N
  BY NAssumption DEF Relays
<1>2. ASSUME NEW k \in 1..(j - i + 1)
      PROVE  <<i + k - 1, i + k - 1>> \in KeySlots
  <2>1. i + k - 1 \in 0..N
    BY <1>1
  <2> QED BY Zenon, <2>1 DEF KeySlots, Keys
<1>3. HonestOnion(i, j) \in [1..(j - i + 1) -> KeySlots]
  BY Zenon, <1>2 DEF HonestOnion
<1>4. HonestOnion(i, j) \in Seq(KeySlots) /\ Len(HonestOnion(i, j)) = j - i + 1
  BY <1>3
<1> QED BY Zenon, <1>4 DEF HonestOnion

(* Peeling the first layer.                                                *)
LEMMA OnionPeel ==
    ASSUME NEW i \in Relays, NEW j \in Relays, i <= j
    PROVE  /\ HonestOnion(i, j) \in Seq(KeySlots)
           /\ HonestOnion(i, j) # <<>>
           /\ Head(HonestOnion(i, j)) = <<i, i>>
           /\ Len(HonestOnion(i, j)) = j - i + 1
           /\ Tail(HonestOnion(i, j)) = HonestOnion(i + 1, j)
<1> DEFINE o == HonestOnion(i, j)
           p == HonestOnion(i + 1, j)
<1>1. i \in Nat /\ j \in Nat /\ N \in Nat /\ j <= N /\ i >= 1
  BY NAssumption DEF Relays
<1>2. /\ i \in 1..(N + 1) /\ i + 1 \in 1..(N + 1)
      /\ j - i + 1 \in Nat /\ j - i + 1 >= 1 /\ j - (i + 1) + 1 \in Nat
      /\ j - (i + 1) + 1 = (j - i + 1) - 1
  BY <1>1
<1>3. /\ o \in Seq(KeySlots) /\ Len(o) = j - i + 1
      /\ \A k \in 1..(j - i + 1) : o[k] = <<i + k - 1, i + k - 1>>
  BY Zenon, <1>2, OnionShape
<1>4. /\ p \in Seq(KeySlots) /\ Len(p) = j - (i + 1) + 1
      /\ \A k \in 1..(j - (i + 1) + 1) : p[k] = <<(i + 1) + k - 1, (i + 1) + k - 1>>
  BY Zenon, <1>2, OnionShape
<1> HIDE DEF o, p
<1>5. o # <<>> /\ Head(o) = o[1] /\ o[1] = <<i, i>>
  <2>1. 1 \in 1..(j - i + 1) /\ i + 1 - 1 = i
    BY <1>1, <1>2
  <2>2. o[1] = <<i, i>>
    BY Zenon, <1>3, <2>1
  <2> QED BY <1>2, <1>3, <2>2
<1>6. /\ Tail(o) \in Seq(KeySlots) /\ Len(Tail(o)) = Len(o) - 1
      /\ \A k \in 1..Len(Tail(o)) : Tail(o)[k] = o[k + 1]
  BY <1>3, <1>5
<1>7. ASSUME NEW k \in 1..Len(Tail(o))
      PROVE  Tail(o)[k] = p[k]
  <2>1. /\ k + 1 \in 1..(j - i + 1) /\ k \in 1..(j - (i + 1) + 1)
        /\ i + (k + 1) - 1 = (i + 1) + k - 1
    BY <1>1, <1>2, <1>3, <1>6
  <2> QED BY Zenon, <1>3, <1>4, <1>6, <2>1
<1>8. Len(Tail(o)) = Len(p)
  BY Zenon, <1>2, <1>3, <1>4, <1>6
<1>9. Tail(o) = p
  BY Zenon, <1>4, <1>6, <1>7, <1>8, SameSequence
<1> QED BY Zenon, <1>3, <1>5, <1>9 DEF o, p

(* Adding a layer.                                                         *)
LEMMA OnionWrap ==
    ASSUME NEW i \in Relays, NEW j \in Relays, i < j
    PROVE  Encrypt(<<i, i>>, HonestOnion(i + 1, j)) = HonestOnion(i, j)
<1> DEFINE o == HonestOnion(i, j)
<1>1. /\ o \in Seq(KeySlots) /\ o # <<>> /\ Head(o) = <<i, i>>
      /\ Tail(o) = HonestOnion(i + 1, j)
  <2>1. i <= j
    BY DEF Relays
  <2> QED BY Zenon, <2>1, OnionPeel
<1> HIDE DEF o
<1>2. <<Head(o)>> \o Tail(o) = o
  BY <1>1
<1> QED BY Zenon, <1>1, <1>2 DEF Encrypt, o

(* The exit's own layer.                                                   *)
LEMMA OnionLast ==
    ASSUME NEW i \in Relays
    PROVE  Encrypt(<<i, i>>, <<>>) = HonestOnion(i, i)
<1> DEFINE o == HonestOnion(i, i)
<1>1. /\ o \in Seq(KeySlots) /\ o # <<>> /\ Head(o) = <<i, i>> /\ Len(o) = i - i + 1
  <2>1. i <= i
    BY DEF Relays
  <2> QED BY Zenon, <2>1, OnionPeel
<1>2. Len(o) = 1
  BY <1>1 DEF Relays
<1> HIDE DEF o
<1>3. o = <<Head(o)>>
  <2> DEFINE p == <<Head(o)>>
  <2>1. p \in Seq(KeySlots) /\ Len(p) = 1 /\ p[1] = Head(o)
    BY <1>1
  <2> HIDE DEF p
  <2>2. ASSUME NEW k \in 1..Len(o) PROVE o[k] = p[k]
    <3>1. k = 1 /\ Head(o) = o[1]
      BY SMTT(30), <1>1, <1>2
    <3> QED BY Zenon, <2>1, <3>1
  <2>3. o = p
    BY Zenon, <1>1, <1>2, <2>1, <2>2, SameSequence
  <2> QED BY Zenon, <2>3 DEF p
<1>4. Encrypt(<<i, i>>, <<>>) = <<<<i, i>>>>
  BY DEF Encrypt
<1> QED BY Zenon, <1>1, <1>3, <1>4 DEF o

(* The client's first k keys, as layers.                                   *)
LEMMA OnionOfKeys ==
    ASSUME NEW ks, NEW k \in Relays, \A i \in 1..k : ks[i] = <<i, i>>
    PROVE  Onion(ks, k) = HonestOnion(1, k)
<1>1. k - 1 + 1 = k /\ \A i \in 1..k : 1 + i - 1 = i
  BY DEF Relays
<1> QED BY Zenon, <1>1 DEF Onion, HonestOnion

(* The relays' keys, as layers.                                            *)
LEMMA LayersHonest ==
    ASSUME NEW i \in Relays, NEW j \in Relays,
           \A h \in Relays : h >= i /\ h <= j => key[h] = <<h, h>>
    PROVE  Layers(i, j) = HonestOnion(i, j)
<1>1. ASSUME NEW k \in 1..(j - i + 1)
      PROVE  key[i + k - 1] = <<i + k - 1, i + k - 1>>
  <2>1. i + k - 1 \in Relays /\ i + k - 1 >= i /\ i + k - 1 <= j
    BY NAssumption DEF Relays
  <2> QED BY Zenon, <2>1
<1> QED BY Zenon, <1>1 DEF Layers, HonestOnion

-----------------------------------------------------------------------------
(* The inductive invariant.                                                *)

(* The client has the keys of all hops.                                    *)
Negotiated == clientKeys[N] # NoKey

Extending(h) == handler[h] \in {"dial", "await"}

(* Relay h has been joined to the hop before it, as that hop knows.        *)
Joined(h) == IF h = 1 THEN hop > 1 \/ Negotiated ELSE OutConn[h - 1] # 0

(* The client has the keys of the hops before hop, and no others until the *)
(* handshake is over; each is the key its relay has.                       *)
KeysInv ==
    /\ \A h \in Relays :
          /\ key[h] \in {NoKey, <<h, h>>}
          /\ h < hop => clientKeys[h] = <<h, h>> /\ key[h] = <<h, h>>
          /\ h >= hop /\ clientKeys[h] # NoKey =>
                h = N /\ hop = N /\ clientKeys[N] = <<N, N>> /\ key[N] = <<N, N>>
    /\ phase \in {"idle", "wait"} => ~ Negotiated
    /\ phase = "open" => Negotiated
    /\ phase = "idle" => hop = 1 /\ handler[1] = "none"
    /\ handler[1] = "none" => phase = "idle"
    /\ jobs > 0 => Negotiated

(* The OutConns form a chain as long as the keys the client has, or one    *)
(* hop longer; only the relay at its end extends it.                       *)
ChainAt(h) ==
    /\ OutConn[h] # 0 => OutConn[h] = h + 1 /\ h < hop /\ handler[h + 1] # "none"
    /\ h < hop - 1 => OutConn[h] = h + 1
    /\ Negotiated /\ h < N => OutConn[h] = h + 1
    /\ handler[h] = "none" => fwd[h] = <<>> /\ key[h] = NoKey
    /\ Extending(h) => hop = h + 1 /\ target[h] = h + 1 /\ OutConn[h] = 0 /\ ~ Negotiated
    /\ handler[h] = "await" => handler[h + 1] # "none"
    /\ ~ Extending(h) => target[h] = 0

ChainInv == \A h \in Relays : ChainAt(h)

(* A handshake message stands only at the head of a channel, and only      *)
(* while the step it belongs to is the one in progress.                    *)
CreateCells(h) ==
    {c \in Cells : /\ c.cmd = "Create" /\ c.arg = h
                   /\ key[h] = NoKey /\ ~ Joined(h)}

CreatedCells(h) ==
    {c \in Cells : /\ c.cmd = "Created" /\ c.arg = h
                   /\ key[h] = <<h, h>> /\ ~ Joined(h)}

ExtendCells(h) ==
    {c \in Cells : /\ c.cmd = "Extend" /\ c.arg = hop
                   /\ h < hop /\ c.layers = HonestOnion(h, hop - 1)
                   /\ ~ Negotiated /\ OutConn[hop - 1] = 0
                   /\ \A g \in Relays : ~ Extending(g)}

ExtendedCells(h) ==
    {c \in Cells : /\ c.cmd = "Extended" /\ c.arg = hop /\ h < hop
                   /\ ~ Negotiated /\ OutConn[hop - 1] = hop
                   /\ key[hop] = <<hop, hop>>}

FwdRest(h) ==
    {c \in Cells : \/ c.cmd = "Relay" /\ Negotiated /\ c.layers = HonestOnion(h, N)
                   \/ c.cmd = "Destroy" /\ closed[h] # {}}

BwdRest(h) ==
    {c \in Cells : /\ c.cmd \in {"Relay", "RelayDone"}
                   /\ Negotiated /\ c.layers = HonestOnion(h, N)}

FwdHead(h) == CreateCells(h) \cup ExtendCells(h) \cup FwdRest(h)
BwdHead(h) == CreatedCells(h) \cup ExtendedCells(h) \cup BwdRest(h)

CellInv ==
    \A h \in Relays : /\ Within(fwd[h], FwdHead(h), FwdRest(h))
                      /\ Within(bwd[h], BwdHead(h), BwdRest(h))

(* At most one Extend, and at most one Extended, is in flight anywhere.    *)
Starts(s, cmd) == s # <<>> /\ Head(s).cmd = cmd

OneInv ==
    \A g, h \in Relays :
        /\ Starts(fwd[g], "Extend") /\ Starts(fwd[h], "Extend") => g = h
        /\ Starts(bwd[g], "Extended") /\ Starts(bwd[h], "Extended") => g = h

CircInv == TypeInv /\ KeysInv /\ ChainInv /\ CellInv /\ OneInv

-----------------------------------------------------------------------------
(* Steps that negotiate nothing.                                           *)

(* The step changes neither keys nor OutConns; an extension may end, an    *)
(* end of a connection may close, the client may give up.                  *)
Calm ==
    /\ UNCHANGED <<hop, clientKeys, key, OutConn>>
    /\ \A h \in Relays :
          /\ closed[h] # {} => closed'[h] # {}
          /\ handler'[h] = "none" <=> handler[h] = "none"
          /\ handler'[h] = "await" => handler[h] = "await"
          /\ Extending(h)' => Extending(h) /\ target'[h] = target[h]
          /\ ~ Extending(h)' => target'[h] = 0
          /\ handler[h] = "none" => fwd'[h] = <<>>
    /\ phase' = phase \/ (phase # "idle" /\ phase' = "closed")
    /\ jobs' > 0 => jobs > 0 \/ Negotiated

(* A relay before another has a next hop.                                  *)
LEMMA NextHop ==
    ASSUME NEW h \in Relays, NEW g \in Relays, h < g
    PROVE  h + 1 \in Relays /\ h + 1 # h /\ h + 1 <= g
BY NAssumption DEF Relays

(* Such a step keeps the keys and the chain,                               *)
LEMMA CalmCore ==
    ASSUME CircInv, TypeInv', Calm
    PROVE  KeysInv' /\ ChainInv'
<1>1. TypeOK /\ TypeOK' /\ KeysInv /\ ChainInv
  BY Zenon DEF CircInv, TypeInv, CoreInv
<1>2. KeysInv'
  BY Zenon, <1>1, EntryIsRelay DEF KeysInv, Calm, Negotiated
<1>3. ChainInv'
  <2> SUFFICES ASSUME NEW h \in Relays
               PROVE  ChainAt(h)'
    BY Zenon DEF ChainInv
  <2>1. OutConn[h] # 0 => h + 1 \in Relays
    BY Zenon, <1>1, NextHop DEF ChainInv, ChainAt, TypeOK
  <2>2. handler[h] = "await" => h + 1 \in Relays
    BY ZenonT(40), <1>1, NAssumption DEF ChainInv, ChainAt, TypeOK, Extending, Relays
  <2> QED BY Zenon, <1>1, <2>1, <2>2 DEF ChainInv, ChainAt, Calm, Negotiated
<1> QED BY Zenon, <1>2, <1>3

(* and what may stand in the channels, which depends on less.              *)
Steady ==
    /\ UNCHANGED <<hop, clientKeys, key, OutConn>>
    /\ \A h \in Relays : /\ closed[h] # {} => closed'[h] # {}
                         /\ Extending(h)' => Extending(h)

(* A step that changes no key and no OutConn leaves room in the channels   *)
(* for what has room there.                                                *)
LEMMA SteadyCells ==
    ASSUME Steady, NEW h \in Relays
    PROVE  /\ FwdHead(h) \subseteq FwdHead(h)' /\ FwdRest(h) \subseteq FwdRest(h)'
           /\ BwdHead(h) \subseteq BwdHead(h)' /\ BwdRest(h) \subseteq BwdRest(h)'
<1>1. FwdRest(h) \subseteq FwdRest(h)' /\ BwdRest(h) \subseteq BwdRest(h)'
  BY Zenon DEF Steady, FwdRest, BwdRest, Negotiated
<1>2. CreateCells(h) \subseteq CreateCells(h)' /\ CreatedCells(h) \subseteq CreatedCells(h)'
  BY Zenon DEF Steady, CreateCells, CreatedCells, Joined, Negotiated
<1>3. ExtendCells(h) \subseteq ExtendCells(h)'
  BY Zenon DEF Steady, ExtendCells, Negotiated
<1>4. ExtendedCells(h) \subseteq ExtendedCells(h)'
  BY Zenon DEF Steady, ExtendedCells, Negotiated
<1> QED BY Zenon, <1>1, <1>2, <1>3, <1>4 DEF FwdHead, BwdHead

(* The first cell of a channel is one that may stand there.                *)
LEMMA Heads ==
    ASSUME CircInv, NEW h \in Relays
    PROVE  /\ fwd[h] \in Seq(Cells) /\ bwd[h] \in Seq(Cells)
           /\ fwd[h] # <<>> => Head(fwd[h]) \in FwdHead(h) /\ Head(fwd[h]) \in Cells
           /\ bwd[h] # <<>> => Head(bwd[h]) \in BwdHead(h) /\ Head(bwd[h]) \in Cells
<1>1. /\ Within(fwd[h], FwdHead(h), FwdRest(h)) /\ Within(bwd[h], BwdHead(h), BwdRest(h))
      /\ fwd[h] \in Seq(Cells) /\ bwd[h] \in Seq(Cells)
  BY Zenon DEF CircInv, CellInv, TypeInv, CoreInv, TypeOK
<1>2. fwd[h] # <<>> => Head(fwd[h]) \in FwdHead(h) /\ Head(fwd[h]) \in Cells
  BY <1>1, WithinTail
<1>3. bwd[h] # <<>> => Head(bwd[h]) \in BwdHead(h) /\ Head(bwd[h]) \in Cells
  BY <1>1, WithinTail
<1> QED BY Zenon, <1>1, <1>2, <1>3

(* A channel that moves by the rules keeps them, if the cells in it are    *)
(* still allowed; the first one matters only while it stays.               *)
Kept(s, t, R, H2, R2) ==
    /\ R \subseteq R2
    /\ \/ s # <<>> /\ t = Tail(s)
       \/ (s # <<>> => Head(s) \in H2) /\ Moves(s, t, H2, R2)

FwdKept(h) == Kept(fwd[h], fwd'[h], FwdRest(h), FwdHead(h)', FwdRest(h)')
BwdKept(h) == Kept(bwd[h], bwd'[h], BwdRest(h), BwdHead(h)', BwdRest(h)')

(* Such a channel holds only what it may.                                  *)
LEMMA WithinKept ==
    ASSUME NEW s \in Seq(Cells), NEW t, NEW H, NEW R, NEW H2, NEW R2,
           R2 \subseteq H2, Within(s, H, R), Kept(s, t, R, H2, R2)
    PROVE  Within(t, H2, R2)
<1> USE DEF Kept
<1>1. CASE s # <<>> /\ t = Tail(s)
  <2>1. Within(t, R, R)
    BY Zenon, <1>1, WithinTail
  <2> QED BY Zenon, <2>1, WithinGrow
<1>2. CASE (s # <<>> => Head(s) \in H2) /\ Moves(s, t, H2, R2)
  <2>1. Within(s, H2, R)
    BY Zenon, <1>2, WithinHead
  <2>2. Within(s, H2, R2)
    BY Zenon, <2>1, WithinGrow
  <2> QED BY Zenon, <1>2, <2>2, WithinMoves
<1> QED BY Zenon, <1>1, <1>2

(* So when every channel is kept, the rule about the cells is.             *)
LEMMA CellStep ==
    ASSUME CircInv, \A h \in Relays : FwdKept(h) /\ BwdKept(h)
    PROVE  CellInv'
<1> SUFFICES ASSUME NEW h \in Relays
             PROVE  /\ Within(fwd'[h], FwdHead(h)', FwdRest(h)')
                    /\ Within(bwd'[h], BwdHead(h)', BwdRest(h)')
  BY Zenon DEF CellInv
<1>1. /\ Within(fwd[h], FwdHead(h), FwdRest(h)) /\ Within(bwd[h], BwdHead(h), BwdRest(h))
      /\ fwd[h] \in Seq(Cells) /\ bwd[h] \in Seq(Cells)
  BY Zenon DEF CircInv, CellInv, TypeInv, CoreInv, TypeOK
<1>2. FwdRest(h)' \subseteq FwdHead(h)' /\ BwdRest(h)' \subseteq BwdHead(h)'
  BY Zenon DEF FwdHead, BwdHead
<1>3. Within(fwd'[h], FwdHead(h)', FwdRest(h)')
  <2>1. Kept(fwd[h], fwd'[h], FwdRest(h), FwdHead(h)', FwdRest(h)')
    BY Zenon DEF FwdKept
  <2> QED BY Zenon, <1>1, <1>2, <2>1, WithinKept
<1>4. Within(bwd'[h], BwdHead(h)', BwdRest(h)')
  <2>1. Kept(bwd[h], bwd'[h], BwdRest(h), BwdHead(h)', BwdRest(h)')
    BY Zenon DEF BwdKept
  <2> QED BY Zenon, <1>1, <1>2, <2>1, WithinKept
<1> QED BY Zenon, <1>3, <1>4

(* A channel that is moved by nothing of command cmd starts with cmd only  *)
(* if it did before.                                                       *)
LEMMA NoNewStart ==
    ASSUME NEW s \in Seq(Cells), NEW t, NEW H, NEW R, NEW F, NEW S, NEW cmd,
           Within(s, H, R), Moves(s, t, F, S), Starts(t, cmd),
           \A c \in R \cup F \cup S : c.cmd # cmd
    PROVE  Starts(s, cmd)
<1>1. CASE t = s
  BY Zenon, <1>1
<1>2. CASE t = <<>>
  BY Zenon, <1>2 DEF Starts
<1>3. CASE s # <<>> /\ t = Tail(s)
  <2>1. Within(t, R, R) /\ t \in Seq(Cells)
    BY <1>3, WithinTail
  <2>2. t # <<>> => Head(t) \in R
    BY Zenon, <2>1, WithinTail
  <2> QED BY Zenon, <2>2 DEF Starts
<1>4. ASSUME NEW c \in Cells, t = Append(s, c), c \in S \/ (s = <<>> /\ c \in F)
      PROVE  Starts(s, cmd)
  <2>1. s # <<>> => Head(t) = Head(s)
    BY <1>4
  <2>2. s = <<>> => Head(t) = c
    BY <1>4
  <2> QED BY Zenon, <1>4, <2>1, <2>2 DEF Starts
<1>5. CASE s # <<>> /\ t = <<Head(s)>>
  <2>1. Head(t) = Head(s)
    BY <1>5
  <2> QED BY Zenon, <1>5, <2>1 DEF Starts
<1> QED BY Zenon, <1>1, <1>2, <1>3, <1>4, <1>5 DEF Moves

(* So when no Extend and no Extended is written, there is still only one.  *)
LEMMA OneStep ==
    ASSUME CircInv,
           \A h \in Relays :
              /\ Starts(fwd'[h], "Extend") => Starts(fwd[h], "Extend")
              /\ Starts(bwd'[h], "Extended") => Starts(bwd[h], "Extended")
    PROVE  OneInv'
BY Zenon DEF CircInv, OneInv

(* A step that negotiates nothing and moves the channels by the rules,     *)
(* writing no Extend and no Extended, keeps the invariant.                 *)
Quiet(h) == /\ Moves(fwd[h], fwd'[h], CreateCells(h)', FwdRest(h)')
            /\ Moves(bwd[h], bwd'[h], CreatedCells(h)', BwdRest(h)')

(* A quiet step starts no channel with an Extend or an Extended,           *)
LEMMA QuietStarts ==
    ASSUME CircInv, NEW h \in Relays, Quiet(h)
    PROVE  /\ Starts(fwd'[h], "Extend") => Starts(fwd[h], "Extend")
           /\ Starts(bwd'[h], "Extended") => Starts(bwd[h], "Extended")
<1>1. ASSUME Starts(fwd'[h], "Extend") PROVE Starts(fwd[h], "Extend")
  <2>1. /\ Within(fwd[h], FwdHead(h), FwdRest(h)) /\ fwd[h] \in Seq(Cells)
        /\ Moves(fwd[h], fwd'[h], CreateCells(h)', FwdRest(h)')
    BY Zenon DEF CircInv, CellInv, TypeInv, CoreInv, TypeOK, Quiet
  <2>2. \A c \in FwdRest(h) \cup CreateCells(h)' \cup FwdRest(h)' : c.cmd # "Extend"
    BY Zenon DEF FwdRest, CreateCells
  <2> QED BY ONLY <1>1, <2>1, <2>2, NoNewStart
<1>2. ASSUME Starts(bwd'[h], "Extended") PROVE Starts(bwd[h], "Extended")
  <2>1. /\ Within(bwd[h], BwdHead(h), BwdRest(h)) /\ bwd[h] \in Seq(Cells)
        /\ Moves(bwd[h], bwd'[h], CreatedCells(h)', BwdRest(h)')
    BY Zenon DEF CircInv, CellInv, TypeInv, CoreInv, TypeOK, Quiet
  <2>2. \A c \in BwdRest(h) \cup CreatedCells(h)' \cup BwdRest(h)' : c.cmd # "Extended"
    BY Zenon DEF BwdRest, CreatedCells
  <2> QED BY ONLY <1>2, <2>1, <2>2, NoNewStart
<1> QED BY Zenon, <1>1, <1>2

(* moves the channels by the rules,                                        *)
LEMMA QuietMoves ==
    ASSUME NEW h, Quiet(h)
    PROVE  /\ Moves(fwd[h], fwd'[h], FwdHead(h)', FwdRest(h)')
           /\ Moves(bwd[h], bwd'[h], BwdHead(h)', BwdRest(h)')
BY Zenon DEF Quiet, Moves, FwdHead, BwdHead

(* and keeps those towards the exit                                        *)
LEMMA QuietFwd ==
    ASSUME CircInv, NEW h \in Relays, Quiet(h),
           FwdHead(h) \subseteq FwdHead(h)', FwdRest(h) \subseteq FwdRest(h)'
    PROVE  FwdKept(h)
<1>1. Moves(fwd[h], fwd'[h], FwdHead(h)', FwdRest(h)')
  BY Zenon, QuietMoves
<1>2. fwd[h] # <<>> => Head(fwd[h]) \in FwdHead(h)
  BY Zenon, Heads
<1> QED BY Zenon, <1>1, <1>2 DEF FwdKept, Kept

(* and those towards the client.                                           *)
LEMMA QuietBwd ==
    ASSUME CircInv, NEW h \in Relays, Quiet(h),
           BwdHead(h) \subseteq BwdHead(h)', BwdRest(h) \subseteq BwdRest(h)'
    PROVE  BwdKept(h)
<1>1. Moves(bwd[h], bwd'[h], BwdHead(h)', BwdRest(h)')
  BY Zenon, QuietMoves
<1>2. bwd[h] # <<>> => Head(bwd[h]) \in BwdHead(h)
  BY Zenon, Heads
<1> QED BY Zenon, <1>1, <1>2 DEF BwdKept, Kept

(* A channel nobody touches is kept, towards the exit                      *)
LEMMA StillFwd ==
    ASSUME CircInv, NEW h \in Relays, fwd'[h] = fwd[h],
           FwdHead(h) \subseteq FwdHead(h)', FwdRest(h) \subseteq FwdRest(h)'
    PROVE  FwdKept(h)
<1>1. Moves(fwd[h], fwd'[h], FwdHead(h)', FwdRest(h)')
  BY Zenon DEF Moves
<1>2. fwd[h] # <<>> => Head(fwd[h]) \in FwdHead(h)
  BY Zenon, Heads
<1> QED BY Zenon, <1>1, <1>2 DEF FwdKept, Kept

(* and towards the client.                                                 *)
LEMMA StillBwd ==
    ASSUME CircInv, NEW h \in Relays, bwd'[h] = bwd[h],
           BwdHead(h) \subseteq BwdHead(h)', BwdRest(h) \subseteq BwdRest(h)'
    PROVE  BwdKept(h)
<1>1. Moves(bwd[h], bwd'[h], BwdHead(h)', BwdRest(h)')
  BY Zenon DEF Moves
<1>2. bwd[h] # <<>> => Head(bwd[h]) \in BwdHead(h)
  BY Zenon, Heads
<1> QED BY Zenon, <1>1, <1>2 DEF BwdKept, Kept

(* A quiet step keeps the rules about the cells,                           *)
LEMMA QuietCells ==
    ASSUME CircInv, Steady, \A h \in Relays : Quiet(h)
    PROVE  CellInv' /\ OneInv'
<1>1. ASSUME NEW h \in Relays PROVE FwdKept(h) /\ BwdKept(h)
  <2>1. /\ FwdHead(h) \subseteq FwdHead(h)' /\ FwdRest(h) \subseteq FwdRest(h)'
        /\ BwdHead(h) \subseteq BwdHead(h)' /\ BwdRest(h) \subseteq BwdRest(h)'
    BY Zenon, SteadyCells
  <2> QED BY Zenon, <2>1, QuietFwd, QuietBwd
<1>2. CellInv'
  BY Zenon, <1>1, CellStep
<1>3. OneInv'
  BY Zenon, OneStep, QuietStarts
<1> QED BY Zenon, <1>2, <1>3

(* and so the invariant.                                                   *)
LEMMA QuietStep ==
    ASSUME CircInv, TypeInv', Calm, \A h \in Relays : Quiet(h)
    PROVE  CircInv'
<1>1. Steady
  BY Zenon DEF Calm, Steady
<1> QED BY Zenon, <1>1, QuietCells, CalmCore DEF CircInv

(* Writing a cell that may stand where it lands.                           *)
LEMMA WriteMoves ==
    ASSUME NEW channel \in [Relays -> Seq(Cells)], NEW h \in Relays, NEW c \in Cells,
           NEW g \in Relays, NEW F, NEW R,
           g = h /\ closed[h] = {} => c \in R \/ (channel[h] = <<>> /\ c \in F)
    PROVE  Moves(channel[g], Write(channel, h, c)[g], F, R)
<1>1. CASE g = h /\ closed[h] = {}
  <2>1. Write(channel, h, c)[g] = Append(channel[g], c)
    BY Zenon, <1>1 DEF Write
  <2> QED BY Zenon, <1>1, <2>1 DEF Moves
<1>2. CASE ~ (g = h /\ closed[h] = {})
  <2>1. Write(channel, h, c)[g] = channel[g]
    BY Zenon, <1>2 DEF Write
  <2> QED BY Zenon, <2>1 DEF Moves
<1> QED BY Zenon, <1>1, <1>2

-----------------------------------------------------------------------------
(* What the invariant says of the state a step starts from.                *)

(* Once all keys are negotiated, all keys agree and all hops are joined.   *)
LEMMA AllKeys ==
    ASSUME CircInv, Negotiated
    PROVE  /\ hop = N
           /\ \A h \in Relays : clientKeys[h] = <<h, h>> /\ key[h] = <<h, h>>
<1>1. TypeOK /\ KeysInv
  BY Zenon DEF CircInv, TypeInv, CoreInv
<1>2. hop \in Relays /\ N \in Relays /\ (N < hop \/ N >= hop)
  BY <1>1, NAssumption DEF TypeOK, Relays
<1>3. hop = N /\ clientKeys[N] = <<N, N>> /\ key[N] = <<N, N>>
  <2>1. ~ (N < hop)
    BY <1>2 DEF Relays
  <2> QED BY Zenon, <1>1, <1>2, <2>1 DEF KeysInv, Negotiated
<1>4. \A h \in Relays : h < N \/ h = N
  BY NAssumption DEF Relays
<1> QED BY Zenon, <1>1, <1>3, <1>4 DEF KeysInv

(* A relay's OutConn leads to a later relay, whose connection exists.      *)
LEMMA NextOfChain ==
    ASSUME CircInv, NEW h \in Relays, OutConn[h] # 0
    PROVE  /\ OutConn[h] = h + 1 /\ h + 1 \in Relays /\ h + 1 # h
           /\ h < hop /\ handler[h + 1] # "none" /\ h # N /\ h < N
<1>1. TypeOK /\ ChainInv
  BY Zenon DEF CircInv, TypeInv, CoreInv
<1>2. OutConn[h] = h + 1 /\ h < hop /\ handler[h + 1] # "none"
  BY Zenon, <1>1 DEF ChainInv, ChainAt
<1> QED BY <1>1, <1>2, NextHop, NAssumption DEF TypeOK, Relays

(* A cell that wears the layers of relay h and the hops after it, peeled.  *)
LEMMA PeeledCell ==
    ASSUME NEW c \in Cells, NEW h \in Relays, NEW j \in Relays, h < j,
           c.layers = HonestOnion(h, j)
    PROVE  /\ Decrypted(c).cmd = c.cmd /\ Decrypted(c).arg = c.arg
           /\ Decrypted(c).layers = HonestOnion(h + 1, j)
           /\ Decrypted(c) \in Cells
           /\ Len(c.layers) = j - h + 1
<1>0. h <= j
  BY DEF Relays
<1>1. /\ Tail(HonestOnion(h, j)) = HonestOnion(h + 1, j)
      /\ Len(HonestOnion(h, j)) = j - h + 1
      /\ HonestOnion(h, j) # <<>>
  BY Zenon, <1>0, OnionPeel
<1>2. Decrypted(c) \in Cells
  <2>1. Decryptable(Head(c.layers), c)
    BY Zenon, <1>1 DEF Decryptable
  <2> QED BY Zenon, <2>1, DecryptedType
<1> QED BY Zenon, <1>1, <1>2 DEF Decrypted, Cells

(* Closing an end of a connection leaves closed what was closed.           *)
LEMMA CloseGrows ==
    ASSUME TypeOK, NEW g \in Relays, NEW e, closed' = CloseEnd(g, e)
    PROVE  closed'[g] # {} /\ \A h \in Relays : closed[h] # {} => closed'[h] # {}
<1>1. closed'[g] = closed[g] \cup {e} /\ \A h \in Relays \ {g} : closed'[h] = closed[h]
  BY Zenon DEF TypeOK, CloseEnd
<1>2. e \in closed'[g]
  BY Zenon, <1>1
<1> QED BY Zenon, <1>1, <1>2

(* A handler may turn to the next cell, or from the switch of handleCell   *)
(* to the end of destroyCircuit.                                           *)
Working == {"read", "handle", "remove"}

Turns(h) ==
    \/ handler' = handler
    \/ \E e \in Working : handler[h] \in Working /\ handler' = [handler EXCEPT ![h] = e]

(* Such a turn neither begins nor ends an extension or a connection.       *)
LEMMA TurnsQuiet ==
    ASSUME TypeOK, NEW h \in Relays, Turns(h), NEW g \in Relays
    PROVE  /\ handler'[g] = "none" <=> handler[g] = "none"
           /\ handler'[g] = "await" <=> handler[g] = "await"
           /\ Extending(g)' <=> Extending(g)
BY Zenon DEF Turns, Working, TypeOK, Extending

(* A step that leaves keys and OutConns alone, and the handlers but for    *)
(* such a turn, is calm.                                                   *)
LEMMA CalmTurns ==
    ASSUME CircInv, NEW k \in Relays, Turns(k),
           UNCHANGED <<hop, clientKeys, key, OutConn, target>>,
           \A h \in Relays : /\ closed[h] # {} => closed'[h] # {}
                             /\ handler[h] = "none" => fwd'[h] = <<>>,
           phase' = phase \/ (phase # "idle" /\ phase' = "closed"),
           jobs' > 0 => jobs > 0 \/ Negotiated
    PROVE  Calm
<1>1. \A h \in Relays : ~ Extending(h) => target[h] = 0
  BY Zenon DEF CircInv, ChainInv, ChainAt
<1>2. TypeOK
  BY Zenon DEF CircInv, TypeInv, CoreInv
<1>3. ASSUME NEW h \in Relays
      PROVE  /\ handler'[h] = "none" <=> handler[h] = "none"
             /\ handler'[h] = "await" <=> handler[h] = "await"
             /\ Extending(h)' <=> Extending(h)
  BY Zenon, <1>2, TurnsQuiet
<1> QED BY Zenon, <1>1, <1>3 DEF Calm

(* A step that leaves keys, OutConns and the handlers alone is calm.       *)
LEMMA CalmSame ==
    ASSUME CircInv,
           UNCHANGED <<hop, clientKeys, key, OutConn, handler, target>>,
           \A h \in Relays : /\ closed[h] # {} => closed'[h] # {}
                             /\ handler[h] = "none" => fwd'[h] = <<>>,
           phase' = phase \/ (phase # "idle" /\ phase' = "closed"),
           jobs' > 0 => jobs > 0 \/ Negotiated
    PROVE  Calm
<1>1. \A h \in Relays : ~ Extending(h) => target[h] = 0
  BY Zenon DEF CircInv, ChainInv, ChainAt
<1> QED BY Zenon, <1>1 DEF Calm, Extending

-----------------------------------------------------------------------------
(* The client's steps.                                                     *)

(* After the handshake: requests, responses, Destroy.                      *)
LEMMA QuietClient ==
    ASSUME CircInv, TypeInv',
           \/ HandshakeFails \/ SendRequest \/ ReadResponse
           \/ ResponseEnds \/ Close
    PROVE  CircInv'
<1> USE EntryIsRelay
<1>0. TypeOK /\ TypeOK' /\ KeysInv /\ ChainInv
  BY Zenon DEF CircInv, TypeInv, CoreInv
<1>1. /\ UNCHANGED <<hop, clientKeys, key, OutConn, handler, target, jobs>>
      /\ phase' = phase \/ (phase # "idle" /\ phase' = "closed")
      /\ closed' = closed \/ closed' = CloseEnd(1, "up")
  BY Zenon DEF HandshakeFails, SendRequest, ReadResponse, ResponseEnds, Close,
         connVars, extendVars, circVars, exitVars
<1>2. \A h \in Relays : closed[h] # {} => closed'[h] # {}
  BY Zenon, <1>0, <1>1, CloseGrows
<1>3. Negotiated' = Negotiated
  BY Zenon, <1>1 DEF Negotiated
<1>4. CASE HandshakeFails \/ ResponseEnds
  <2>1. fwd' = fwd /\ bwd' = bwd
    BY Zenon, <1>4 DEF HandshakeFails, ResponseEnds, connVars
  <2>2. Calm
    BY Zenon, <1>0, <1>1, <1>2, <2>1, CalmSame DEF ChainInv, ChainAt
  <2> QED BY Zenon, <2>1, <2>2, QuietStep DEF Quiet, Moves
<1>5. CASE ReadResponse
  <2>1. fwd' = fwd /\ bwd[1] # <<>> /\ bwd' = [bwd EXCEPT ![1] = Tail(@)]
    BY Zenon, <1>5 DEF ReadResponse
  <2>2. Calm
    BY Zenon, <1>0, <1>1, <1>2, <2>1, CalmSame DEF ChainInv, ChainAt
  <2>3. \A h \in Relays : Quiet(h)
    BY ZenonT(40), <1>0, <2>1 DEF Quiet, Moves, TypeOK
  <2> QED BY Zenon, <2>2, <2>3, QuietStep
<1>6. CASE SendRequest
  <2> DEFINE c == Cell("Relay", Onion(clientKeys, N), 0)
  <2>1. fwd' = Write(fwd, 1, c) /\ bwd' = bwd /\ phase = "open"
    BY Zenon, <1>6 DEF SendRequest
  <2>2. Negotiated /\ handler[1] # "none"
    BY Zenon, <1>0, <2>1 DEF KeysInv
  <2>3. Onion(clientKeys, N) = HonestOnion(1, N) /\ HonestOnion(1, N) \in Seq(KeySlots)
    <3>1. \A i \in 1..N : clientKeys[i] = <<i, i>>
      BY Zenon, <2>2, AllKeys DEF Relays
    <3>2. 1 <= N
      BY Zenon, NAssumption
    <3> QED BY Zenon, <3>1, <3>2, OnionOfKeys, OnionPeel
  <2>4. c \in FwdRest(1)' /\ c \in Cells
    <3>1. c \in Cells
      BY Zenon, <2>3, CellType DEF Commands
    <3> QED BY Zenon, <1>3, <2>2, <2>3, <3>1 DEF FwdRest, Cell
  <2>5. Calm
    <3>1. \A h \in Relays : handler[h] = "none" => fwd'[h] = <<>>
      BY ZenonT(40), <1>0, <2>1, <2>2 DEF ChainInv, ChainAt, Write, TypeOK
    <3> QED BY Zenon, <1>1, <1>2, <3>1, CalmSame
  <2>6. ASSUME NEW h \in Relays PROVE Quiet(h)
    <3>1. Moves(fwd[h], fwd'[h], CreateCells(h)', FwdRest(h)')
      BY Zenon, <1>0, <2>1, <2>4, WriteMoves DEF TypeOK
    <3> QED BY Zenon, <2>1, <3>1 DEF Quiet, Moves
  <2> QED BY Zenon, <2>5, <2>6, QuietStep
<1>7. CASE Close
  <2> DEFINE c == Cell("Destroy", <<>>, 0)
  <2>1. /\ fwd' = Write(fwd, 1, c) /\ bwd' = bwd /\ phase = "open"
        /\ closed' = CloseEnd(1, "up")
    BY Zenon, <1>7 DEF Close
  <2>2. handler[1] # "none"
    BY Zenon, <1>0, <2>1 DEF KeysInv
  <2>3. closed'[1] # {}
    BY Zenon, <1>0, <2>1, CloseGrows
  <2>4. c \in FwdRest(1)' /\ c \in Cells
    <3>1. c \in Cells
      BY Zenon, EmptyOnion, CellType DEF Commands
    <3> QED BY Zenon, <2>3, <3>1 DEF FwdRest, Cell
  <2>5. Calm
    <3>1. \A h \in Relays : handler[h] = "none" => fwd'[h] = <<>>
      BY ZenonT(40), <1>0, <2>1, <2>2 DEF ChainInv, ChainAt, Write, TypeOK
    <3> QED BY Zenon, <1>1, <1>2, <3>1, CalmSame
  <2>6. ASSUME NEW h \in Relays PROVE Quiet(h)
    <3>1. Moves(fwd[h], fwd'[h], CreateCells(h)', FwdRest(h)')
      BY Zenon, <1>0, <2>1, <2>4, WriteMoves DEF TypeOK
    <3> QED BY Zenon, <2>1, <3>1 DEF Quiet, Moves
  <2> QED BY Zenon, <2>5, <2>6, QuietStep
<1> QED BY Zenon, <1>4, <1>5, <1>6, <1>7

(* The exit's response cells wear the exit's layer.                        *)
LEMMA QuietExit ==
    ASSUME CircInv, TypeInv', Exit
    PROVE  CircInv'
<1> USE EntryIsRelay
<1> DEFINE c(cmd) == Cell(cmd, Encrypt(key[N], <<>>), 0)
<1>0. TypeOK /\ TypeOK' /\ KeysInv /\ ChainInv
  BY Zenon DEF CircInv, TypeInv, CoreInv
<1>1. /\ UNCHANGED <<hop, clientKeys, key, OutConn, handler, target, phase, closed, fwd>>
      /\ jobs > 0
  BY Zenon DEF Exit, ExitChunk, ExitDone, clientVars, extendVars, circVars
<1>2. Negotiated /\ Negotiated'
  BY Zenon, <1>0, <1>1 DEF KeysInv, Negotiated
<1>3. PICK cmd \in {"Relay", "RelayDone"} : bwd' = Write(bwd, N, c(cmd))
  BY Zenon DEF Exit, ExitChunk, ExitDone
<1>4. Encrypt(key[N], <<>>) = HonestOnion(N, N) /\ HonestOnion(N, N) \in Seq(KeySlots)
  <2>1. key[N] = <<N, N>> /\ N <= N
    BY <1>2, AllKeys, NAssumption
  <2> QED BY Zenon, <2>1, OnionLast, OnionPeel
<1>5. c(cmd) \in Cells /\ c(cmd) \in BwdRest(N)'
  <2>1. c(cmd) \in Cells
    BY Zenon, <1>4, CellType DEF Commands
  <2> QED BY Zenon, <1>2, <1>4, <2>1 DEF BwdRest, Cell
<1>6. Calm
  BY Zenon, <1>0, <1>1, CalmSame DEF ChainInv, ChainAt
<1>7. ASSUME NEW h \in Relays PROVE Quiet(h)
  <2>1. Moves(bwd[h], bwd'[h], CreatedCells(h)', BwdRest(h)')
    BY Zenon, <1>0, <1>3, <1>5, WriteMoves DEF TypeOK
  <2> QED BY Zenon, <1>1, <2>1 DEF Quiet, Moves
<1> QED BY Zenon, <1>6, <1>7, QuietStep

-----------------------------------------------------------------------------
(* The relays' steps that negotiate nothing.                               *)

(* destroyCircuit tells the next hop only with the connection it closes.   *)
LEMMA DestroyMoves ==
    ASSUME CircInv, NEW h \in Relays, NEW channel, destroyCircuit(h, channel),
           \/ channel = fwd
           \/ fwd[h] # <<>> /\ channel = Taken(h)
    PROVE  \A g \in Relays :
              /\ Moves(fwd[g], fwd'[g], CreateCells(g)', FwdRest(g)')
              /\ closed[g] # {} => closed'[g] # {}
              /\ handler[g] = "none" => fwd'[g] = <<>>
<1> DEFINE c == Cell("Destroy", <<>>, 0)
<1>0. TypeOK /\ ChainInv
  BY Zenon DEF CircInv, TypeInv, CoreInv
<1>1. /\ channel \in [Relays -> Seq(Cells)]
      /\ \A g \in Relays : \/ channel[g] = fwd[g]
                           \/ g = h /\ fwd[g] # <<>> /\ channel[g] = Tail(fwd[g])
  <2>1. fwd \in [Relays -> Seq(Cells)]
    BY Zenon, <1>0 DEF TypeOK
  <2>2. CASE channel = fwd
    BY Zenon, <2>1, <2>2
  <2>3. CASE fwd[h] # <<>> /\ channel = Taken(h)
    <3>1. channel \in [Relays -> Seq(Cells)]
      BY Zenon, <2>1, <2>3, TakeType DEF Taken
    <3> QED BY Zenon, <2>1, <2>3, <3>1 DEF Taken
  <2> QED BY Zenon, <2>2, <2>3
<1>2. \A g \in Relays : closed[g] # {} => closed'[g] # {}
  <2>1. OutConn[h] # 0 => OutConn[h] \in Relays
    BY Zenon, NextOfChain
  <2>2. closed' = closed \/ (OutConn[h] # 0 /\ closed' = CloseEnd(OutConn[h], "up"))
    BY Zenon DEF destroyCircuit
  <2> QED BY Zenon, <1>0, <2>1, <2>2, CloseGrows
<1>3. ASSUME h \in circuits, OutConn[h] # 0, NEW next \in Relays, next = OutConn[h],
             closed[next] = {}
      PROVE  \A g \in Relays :
              /\ Moves(fwd[g], fwd'[g], CreateCells(g)', FwdRest(g)')
              /\ closed[g] # {} => closed'[g] # {}
              /\ handler[g] = "none" => fwd'[g] = <<>>
  <2>1. next # h /\ handler[next] # "none"
    BY Zenon, <1>3, NextOfChain
  <2>2. fwd' = [channel EXCEPT ![next] = Append(@, c)] /\ closed' = CloseEnd(next, "up")
    BY Zenon, <1>3 DEF destroyCircuit
  <2>3. c \in Cells /\ c \in FwdRest(next)'
    <3>1. c \in Cells
      BY Zenon, EmptyOnion, EntryIsRelay, CellType DEF Commands
    <3>2. closed'[next] # {}
      BY Zenon, <1>0, <2>1, <2>2, CloseGrows
    <3> QED BY Zenon, <3>1, <3>2 DEF FwdRest, Cell
  <2>4. ASSUME NEW g \in Relays
        PROVE  /\ Moves(fwd[g], fwd'[g], CreateCells(g)', FwdRest(g)')
               /\ handler[g] = "none" => fwd'[g] = <<>>
    <3>1. CASE g = next
      <4>1. fwd'[g] = Append(fwd[g], c)
        BY Zenon, <1>1, <2>1, <2>2, <3>1
      <4> QED BY Zenon, <2>1, <2>3, <3>1, <4>1 DEF Moves
    <3>2. CASE g # next
      <4>1. fwd'[g] = channel[g]
        BY Zenon, <1>1, <2>2, <3>2
      <4> QED BY Zenon, <1>0, <1>1, <4>1 DEF Moves, ChainInv, ChainAt
    <3> QED BY Zenon, <3>1, <3>2
  <2> QED BY Zenon, <1>2, <2>4
<1>4. CASE ~ (h \in circuits /\ OutConn[h] # 0 /\ closed[OutConn[h]] = {})
  <2>1. fwd' = channel
    BY Zenon, <1>4 DEF destroyCircuit
  <2> QED BY Zenon, <1>0, <1>1, <1>2, <2>1 DEF Moves, ChainInv, ChainAt
<1> QED BY Zenon, <1>3, <1>4, NextOfChain

(* Relay and Destroy cells, ends of connections and of forwarders, the     *)
(* idle sweeper, lost connections.                                         *)
LEMMA QuietDestroy ==
    ASSUME CircInv, TypeInv', NEW h \in Relays, HandleDestroy(h) \/ SweepDestroy(h)
    PROVE  CircInv'
<1>1. /\ UNCHANGED <<hop, clientKeys, key, OutConn, target, phase, jobs, bwd>>
      /\ \/ destroyCircuit(h, fwd)
         \/ fwd[h] # <<>> /\ destroyCircuit(h, Taken(h))
      /\ Turns(h)
  BY Zenon DEF HandleDestroy, SweepDestroy, Handles, CircInv, TypeInv, HandOK, Turns,
         Working, clientVars, extendVars, exitVars
<1>2. \A g \in Relays :
              /\ Moves(fwd[g], fwd'[g], CreateCells(g)', FwdRest(g)')
              /\ closed[g] # {} => closed'[g] # {}
              /\ handler[g] = "none" => fwd'[g] = <<>>
  <2>1. CASE destroyCircuit(h, fwd)
    BY Zenon, <2>1, DestroyMoves
  <2>2. CASE fwd[h] # <<>> /\ destroyCircuit(h, Taken(h))
    BY Zenon, <2>2, DestroyMoves
  <2> QED BY Zenon, <1>1, <2>1, <2>2
<1>3. Calm
  BY Zenon, <1>1, <1>2, CalmTurns
<1>4. \A g \in Relays : Quiet(g)
  BY Zenon, <1>1, <1>2 DEF Quiet, Moves
<1> QED BY Zenon, <1>3, <1>4, QuietStep

(* A relay passes a data cell on, peeled of its own layer, or drops it     *)
(* (handleRelay): the cell is as deep as the next relay expects it.        *)
LEMMA QuietRelay ==
    ASSUME CircInv, TypeInv', NEW h \in Relays, HandleRelay(h)
    PROVE  CircInv'
<1> DEFINE c == Head(fwd[h])
<1>0. TypeOK /\ ChainInv
  BY Zenon DEF CircInv, TypeInv, CoreInv
<1>1. /\ UNCHANGED <<hop, clientKeys, key, OutConn, target, phase, bwd, closed>>
      /\ fwd[h] # <<>> /\ c.cmd = "Relay" /\ Turns(h)
      /\ fwd' = Taken(h) \/ fwd' = TakenAndForwarded(h, Decrypted(c))
  BY Zenon DEF HandleRelay, Handles, Reads, CircInv, TypeInv, HandOK, Turns, Working,
         clientVars, circVars
<1>2. Negotiated /\ c.layers = HonestOnion(h, N) /\ c \in Cells
  BY Zenon, <1>1, Heads DEF FwdHead, FwdRest, CreateCells, ExtendCells
<1>3. Taken(h) \in [Relays -> Seq(Cells)]
  BY Zenon, <1>0, <1>1, TakeType DEF Taken, TypeOK
<1>4. ASSUME NEW g \in Relays
      PROVE  /\ Moves(fwd[g], fwd'[g], CreateCells(g)', FwdRest(g)')
             /\ handler[g] = "none" => fwd'[g] = <<>>
  <2>1. CASE fwd' = Taken(h)
    BY Zenon, <1>0, <1>1, <2>1 DEF Taken, Moves, ChainInv, ChainAt, TypeOK
  <2>2. CASE OutConn[h] # 0 /\ fwd' = [Taken(h) EXCEPT ![OutConn[h]] = Append(@, Decrypted(c))]
    <3>1. OutConn[h] = h + 1 /\ h + 1 \in Relays /\ h + 1 # h /\ handler[h + 1] # "none"
      BY Zenon, <2>2, NextOfChain
    <3>2. Decrypted(c) \in Cells /\ Decrypted(c) \in FwdRest(h + 1)'
      <4>1. h < N
        BY Zenon, <2>2, NextOfChain
      <4>2. Decrypted(c) \in Cells /\ Decrypted(c).cmd = "Relay" /\ Decrypted(c).layers = HonestOnion(h + 1, N)
        BY Zenon, <1>1, <1>2, <4>1, EntryIsRelay, PeeledCell
      <4> QED BY Zenon, <1>1, <1>2, <4>2 DEF FwdRest, Negotiated
    <3>3. CASE g = h + 1
      <4>1. fwd'[g] = Append(fwd[g], Decrypted(c))
        BY Zenon, <1>0, <1>3, <2>2, <3>1, <3>3 DEF Taken, TypeOK
      <4> QED BY Zenon, <3>1, <3>2, <3>3, <4>1 DEF Moves
    <3>4. CASE g # h + 1
      <4>1. fwd'[g] = Taken(h)[g]
        BY Zenon, <1>3, <2>2, <3>1, <3>4
      <4> QED BY Zenon, <1>0, <1>1, <4>1 DEF Taken, Moves, ChainInv, ChainAt, TypeOK
    <3> QED BY Zenon, <3>3, <3>4
  <2> QED BY Zenon, <1>1, <2>1, <2>2 DEF TakenAndForwarded
<1>5. Calm
  BY Zenon, <1>1, <1>2, <1>4, CalmTurns
<1>6. \A g \in Relays : Quiet(g)
  BY Zenon, <1>1, <1>4 DEF Quiet, Moves
<1> QED BY Zenon, <1>5, <1>6, QuietStep

(* The end of a connection, of an extension or of a forwarder, the idle    *)
(* sweeper and a lost connection write nothing.                            *)
LEMMA QuietEnds ==
    ASSUME CircInv, TypeInv', NEW h \in Relays,
           \/ ConnEnds(h) \/ ExtendDialFails(h) \/ ExtendFails(h)
           \/ ForwarderEnds(h) \/ Idle(h) \/ SweepCollect(h) \/ SweepEnds(h)
           \/ ConnLost(h) \/ ReadCell(h) \/ DestroyEnds(h)
    PROVE  CircInv'
<1>0. TypeOK /\ ChainInv /\ ControlOK /\ HandOK
  BY Zenon DEF CircInv, TypeInv, CoreInv
<1>1. /\ UNCHANGED <<hop, clientKeys, key, OutConn, phase, jobs>>
  BY Zenon DEF ConnEnds, ExtendDialFails, ExtendFails, ForwarderEnds, Idle,
         SweepCollect, SweepEnds, ConnLost, ReadCell, DestroyEnds, clientVars, circVars, exitVars
<1>2. /\ \A g \in Relays : \/ fwd'[g] = fwd[g] /\ bwd'[g] = bwd[g]
                           \/ fwd'[g] = <<>> /\ bwd'[g] = <<>>
                           \/ /\ handler[g] = "handle" /\ fwd[g] # <<>>
                              /\ fwd'[g] = <<Head(fwd[g])>> /\ bwd'[g] = <<>>
  <2>1. CASE ConnLost(h)
    BY Zenon, <1>0, <2>1 DEF HandOK, ConnLost, TypeOK
  <2>2. CASE ~ ConnLost(h)
    BY Zenon, <2>2 DEF ConnEnds, ExtendDialFails, ExtendFails, ForwarderEnds, Idle,
           SweepCollect, SweepEnds, ReadCell, DestroyEnds, connVars
  <2> QED BY Zenon, <2>1, <2>2
<1>3. \A g \in Relays : closed[g] # {} => closed'[g] # {}
  <2>1. CASE ConnEnds(h) \/ ExtendFails(h)
    <3>1. target[h] \in Relays \/ ~ ExtendFails(h)
      BY <1>0 DEF ExtendFails, ControlOK, TypeOK, Relays
    <3>2. closed' = CloseEnd(h, "dn") \/ (ExtendFails(h) /\ closed' = CloseEnd(target[h], "up"))
      BY Zenon, <2>1 DEF ConnEnds, ExtendFails
    <3> QED BY Zenon, <1>0, <3>1, <3>2, CloseGrows
  <2>2. CASE ConnLost(h)
    BY Zenon, <1>0, <2>2 DEF ConnLost, TypeOK, Ends
  <2>3. CASE ~ (ConnEnds(h) \/ ExtendFails(h) \/ ConnLost(h))
    BY Zenon, <2>3 DEF ExtendDialFails, ForwarderEnds, Idle, SweepCollect, SweepEnds,
           ReadCell, DestroyEnds, connVars
  <2> QED BY Zenon, <2>1, <2>2, <2>3
<1>4. \/ handler' = handler /\ target' = target
      \/ handler[h] = "read" /\ handler' = [handler EXCEPT ![h] = "gone"] /\ target' = target
      \/ Turns(h) /\ target' = target
      \/ /\ handler[h] \in {"dial", "await"}
         /\ handler' = [handler EXCEPT ![h] = "read"] /\ target' = [target EXCEPT ![h] = 0]
  BY Zenon DEF ConnEnds, ExtendDialFails, ExtendFails, ForwarderEnds, Idle,
         SweepCollect, SweepEnds, ConnLost, ReadCell, DestroyEnds, Reads, extendVars,
         Turns, Working
<1>5. Calm
  <2>1. \A g \in Relays : /\ handler'[g] = "none" <=> handler[g] = "none"
                          /\ handler'[g] = "await" => handler[g] = "await"
                          /\ Extending(g)' => Extending(g) /\ target'[g] = target[g]
                          /\ ~ Extending(g)' => target'[g] = 0
    <3>1. \A g \in Relays : ~ Extending(g) => target[g] = 0
      BY Zenon, <1>0 DEF ChainInv, ChainAt
    <3> QED BY SMTT(30), <1>0, <1>4, <3>1, TurnsQuiet DEF TypeOK, Extending
  <2>2. \A g \in Relays : handler[g] = "none" => fwd'[g] = <<>>
    BY Zenon, <1>0, <1>2 DEF ChainInv, ChainAt
  <2> QED BY Zenon, <1>1, <1>3, <2>1, <2>2 DEF Calm
<1>6. \A g \in Relays : Quiet(g)
  BY Zenon, <1>2 DEF Quiet, Moves
<1> QED BY Zenon, <1>5, <1>6, QuietStep


-----------------------------------------------------------------------------
(* The handshake.                                                          *)

(* A key is not the absence of one.                                        *)
LEMMA SomeKey ==
    ASSUME NEW h \in Relays
    PROVE  <<h, h>> # NoKey /\ h # 0
<1>1. h \in 0..N
  BY DEF Relays
<1>2. <<h, h>> \in (0..N) \X (0..N)
  BY Zenon, <1>1
<1> QED BY <1>2, NoKeyAssumption DEF Relays

(* The relays before hop have been joined to the circuit.                  *)
LEMMA JoinedBefore ==
    ASSUME CircInv, NEW h \in Relays, h < hop
    PROVE  Joined(h)
<1>0. TypeOK /\ ChainInv
  BY Zenon DEF CircInv, TypeInv, CoreInv
<1>1. CASE h = 1
  BY Zenon, <1>1 DEF Joined
<1>2. CASE h # 1
  <2>1. h - 1 \in Relays /\ h - 1 < hop - 1 /\ h - 1 + 1 # 0
    BY <1>0, <1>2, NAssumption DEF Relays, TypeOK
  <2> QED BY Zenon, <1>0, <1>2, <2>1 DEF Joined, ChainInv, ChainAt
<1> QED BY Zenon, <1>1, <1>2

(* Which of its cells a channel may start with.                            *)
LEMMA FwdStart ==
    ASSUME CircInv, NEW h \in Relays, fwd[h] # <<>>
    PROVE  \/ Head(fwd[h]) \in CreateCells(h) /\ key[h] = NoKey /\ ~ Joined(h)
           \/ /\ Head(fwd[h]) \in ExtendCells(h) /\ Starts(fwd[h], "Extend")
              /\ h < hop /\ ~ Negotiated /\ OutConn[hop - 1] = 0
              /\ \A g \in Relays : ~ Extending(g)
           \/ Head(fwd[h]) \in FwdRest(h) /\ (Negotiated \/ closed[h] # {})
BY Zenon, Heads DEF FwdHead, CreateCells, ExtendCells, FwdRest, Starts

(* The same for the channels towards the client.                           *)
LEMMA BwdStart ==
    ASSUME CircInv, NEW h \in Relays, bwd[h] # <<>>
    PROVE  \/ Head(bwd[h]) \in CreatedCells(h) /\ key[h] = <<h, h>> /\ ~ Joined(h)
           \/ /\ Head(bwd[h]) \in ExtendedCells(h) /\ Starts(bwd[h], "Extended")
              /\ h < hop /\ ~ Negotiated /\ OutConn[hop - 1] = hop
           \/ Head(bwd[h]) \in BwdRest(h) /\ Negotiated
BY Zenon, Heads DEF BwdHead, CreatedCells, ExtendedCells, BwdRest, Starts

(* Behind the first cell of a channel there is no handshake message.       *)
LEMMA StartGone ==
    ASSUME CircInv, NEW h \in Relays
    PROVE  /\ fwd[h] # <<>> => ~ Starts(Tail(fwd[h]), "Extend")
           /\ bwd[h] # <<>> => ~ Starts(Tail(bwd[h]), "Extended")
<1>1. /\ Within(fwd[h], FwdHead(h), FwdRest(h)) /\ fwd[h] \in Seq(Cells)
      /\ Within(bwd[h], BwdHead(h), BwdRest(h)) /\ bwd[h] \in Seq(Cells)
  BY Zenon, Heads DEF CircInv, CellInv
<1>2. ASSUME fwd[h] # <<>> PROVE ~ Starts(Tail(fwd[h]), "Extend")
  <2>1. Within(Tail(fwd[h]), FwdRest(h), FwdRest(h)) /\ Tail(fwd[h]) \in Seq(Cells)
    BY <1>1, <1>2, WithinTail
  <2>2. Tail(fwd[h]) # <<>> => Head(Tail(fwd[h])) \in FwdRest(h)
    BY Zenon, <2>1, WithinTail
  <2> QED BY Zenon, <2>2 DEF Starts, FwdRest
<1>3. ASSUME bwd[h] # <<>> PROVE ~ Starts(Tail(bwd[h]), "Extended")
  <2>1. Within(Tail(bwd[h]), BwdRest(h), BwdRest(h)) /\ Tail(bwd[h]) \in Seq(Cells)
    BY <1>1, <1>3, WithinTail
  <2>2. Tail(bwd[h]) # <<>> => Head(Tail(bwd[h])) \in BwdRest(h)
    BY Zenon, <2>1, WithinTail
  <2> QED BY Zenon, <2>2 DEF Starts, BwdRest
<1> QED BY Zenon, <1>2, <1>3

(* Dial: nothing has happened yet.                                         *)
LEMMA StepDial ==
    ASSUME CircInv, TypeInv', Dial
    PROVE  CircInv'
<1> USE EntryIsRelay
<1> DEFINE c == Cell("Create", <<>>, 1)
<1>0. TypeOK /\ KeysInv /\ ChainInv
  BY Zenon DEF CircInv, TypeInv, CoreInv
<1>1. /\ UNCHANGED <<hop, clientKeys, key, OutConn, target, closed, bwd, jobs>>
      /\ phase = "idle" /\ phase' = "wait" /\ handler' = [handler EXCEPT ![1] = "read"]
      /\ fwd' = Write(fwd, 1, c)
  BY Zenon DEF Dial, circVars, exitVars
<1>2. hop = 1 /\ handler[1] = "none" /\ ~ Negotiated /\ fwd[1] = <<>> /\ key[1] = NoKey
  BY Zenon, <1>0, <1>1 DEF KeysInv, ChainInv, ChainAt
<1>3. \A h \in Relays : /\ Extending(h)' <=> Extending(h)
                        /\ handler'[h] = (IF h = 1 THEN "read" ELSE handler[h])
  BY Zenon, <1>0, <1>1, <1>2 DEF Extending, TypeOK
<1>4. Steady
  BY Zenon, <1>1, <1>3 DEF Steady
<1>5. ~ Negotiated'
  BY Zenon, <1>1, <1>2 DEF Negotiated
<1>6. c \in Cells /\ c \in CreateCells(1)'
  <2>1. c \in Cells
    BY Zenon, EmptyOnion, CellType DEF Commands
  <2>2. ~ Joined(1)'
    BY <1>1, <1>2, <1>5 DEF Joined
  <2> QED BY Zenon, <1>1, <1>2, <2>1, <2>2 DEF CreateCells, Cell
<1>7. ASSUME NEW h \in Relays PROVE Quiet(h)
  <2>1. Moves(fwd[h], fwd'[h], CreateCells(h)', FwdRest(h)')
    BY Zenon, <1>0, <1>1, <1>2, <1>6, WriteMoves DEF TypeOK
  <2> QED BY Zenon, <1>1, <2>1 DEF Quiet, Moves
<1>8. KeysInv'
  BY <1>0, <1>1, <1>2, <1>3, <1>5 DEF KeysInv
<1>9. ChainInv'
  <2>1. \A h \in Relays : h # 1 => fwd'[h] = fwd[h]
    BY Zenon, <1>0, <1>1 DEF Write, TypeOK
  <2>2. \A h \in Relays : OutConn[h] = 0 /\ ~ Extending(h)
    <3>1. \A h \in Relays : ~ (h < 1) /\ 1 # h + 1
      BY DEF Relays
    <3> QED BY Zenon, <1>0, <1>2, <3>1 DEF ChainInv, ChainAt
  <2>3. \A h \in Relays : ~ (h < hop - 1) /\ handler[h] # "await"
    BY <1>0, <1>2, <2>2 DEF Relays, Extending, TypeOK
  <2> QED BY <1>0, <1>1, <1>3, <1>5, <2>1, <2>2, <2>3 DEF ChainInv, ChainAt
<1> QED BY Zenon, <1>4, <1>7, <1>8, <1>9, QuietCells DEF CircInv

(* Create reaches the relay it was meant for.                              *)
LEMMA StepCreate ==
    ASSUME CircInv, TypeInv', NEW h \in Relays, HandleCreate(h)
    PROVE  CircInv'
<1> DEFINE c == Cell("Created", <<>>, h)
<1>0. TypeOK /\ KeysInv /\ ChainInv
  BY Zenon DEF CircInv, TypeInv, CoreInv
<1>1. /\ UNCHANGED <<hop, clientKeys, OutConn, target, closed, jobs, phase>>
      /\ handler[h] = "handle" /\ Turns(h) /\ fwd[h] # <<>> /\ Head(fwd[h]).cmd = "Create"
      /\ fwd' = Taken(h) /\ bwd' = Write(bwd, h, c)
      /\ key' = [key EXCEPT ![h] = DeriveKey(Head(fwd[h]).arg, h)]
  BY Zenon DEF HandleCreate, Handles, Reads, CircInv, TypeInv, HandOK, Turns, Working,
         clientVars, exitVars
<1>2. Head(fwd[h]).arg = h /\ key[h] = NoKey /\ ~ Joined(h)
  BY Zenon, <1>1, Heads DEF FwdHead, CreateCells, ExtendCells, FwdRest
<1>3. /\ key'[h] = <<h, h>>
      /\ \A g \in Relays : g # h => key'[g] = key[g]
  BY Zenon, <1>0, <1>1, <1>2 DEF TypeOK, DeriveKey
<1>4. \A g \in Relays : key[g] = <<g, g>> => key'[g] = <<g, g>>
  BY Zenon, <1>3
<1>5. UNCHANGED Negotiated /\ \A g \in Relays : UNCHANGED Joined(g)
  BY Zenon, <1>1 DEF Negotiated, Joined
<1>14. \A g \in Relays : /\ handler'[g] = "none" <=> handler[g] = "none"
                         /\ handler'[g] = "await" <=> handler[g] = "await"
                         /\ Extending(g)' <=> Extending(g)
  BY Zenon, <1>0, <1>1, TurnsQuiet
<1>6. bwd[h] = <<>>
  <2>1. ~ (h < hop)
    BY Zenon, <1>0, <1>2, SomeKey DEF KeysInv
  <2>2. ~ Negotiated
    BY Zenon, <1>2, AllKeys, SomeKey
  <2> QED BY Zenon, <1>2, <2>1, <2>2, BwdStart, SomeKey
<1>7. c \in Cells /\ c \in CreatedCells(h)'
  <2>1. c \in Cells
    <3>1. h \in 0..N
      BY DEF Relays
    <3> QED BY Zenon, <3>1, EmptyOnion, CellType DEF Commands
  <2> QED BY Zenon, <1>2, <1>3, <1>5, <2>1 DEF CreatedCells, Cell
<1>8. ASSUME NEW g \in Relays
      PROVE  /\ FwdRest(g) \subseteq FwdRest(g)' /\ BwdHead(g) \subseteq BwdHead(g)'
             /\ BwdRest(g) \subseteq BwdRest(g)'
             /\ g # h => FwdHead(g) \subseteq FwdHead(g)'
  <2>1. FwdRest(g) \subseteq FwdRest(g)' /\ BwdRest(g) \subseteq BwdRest(g)'
    BY Zenon, <1>1, <1>5 DEF FwdRest, BwdRest
  <2>2. CreatedCells(g) \subseteq CreatedCells(g)'
    BY Zenon, <1>4, <1>5 DEF CreatedCells
  <2>3. ExtendedCells(g) \subseteq ExtendedCells(g)'
    BY Zenon, <1>0, <1>1, <1>4, <1>5 DEF ExtendedCells, TypeOK
  <2>4. ExtendCells(g) \subseteq ExtendCells(g)'
    BY Zenon, <1>1, <1>5, <1>14 DEF ExtendCells
  <2>5. g # h => CreateCells(g) \subseteq CreateCells(g)'
    BY Zenon, <1>3, <1>5 DEF CreateCells
  <2> QED BY Zenon, <2>1, <2>2, <2>3, <2>4, <2>5 DEF FwdHead, BwdHead
<1>9. ASSUME NEW g \in Relays PROVE Quiet(g)
  <2>1. Moves(bwd[g], bwd'[g], CreatedCells(g)', BwdRest(g)')
    BY Zenon, <1>0, <1>1, <1>6, <1>7, WriteMoves DEF TypeOK
  <2>2. Moves(fwd[g], fwd'[g], CreateCells(g)', FwdRest(g)')
    BY Zenon, <1>0, <1>1 DEF Moves, Taken, TypeOK
  <2> QED BY Zenon, <2>1, <2>2 DEF Quiet
<1>10. OneInv'
  BY Zenon, <1>9, OneStep, QuietStarts
<1>11. CellInv'
  <2>1. ASSUME NEW g \in Relays PROVE FwdKept(g)
    <3>1. CASE g = h
      BY Zenon, <1>0, <1>1, <1>8, <3>1 DEF FwdKept, Kept, Taken, TypeOK
    <3>2. CASE g # h
      BY Zenon, <1>8, <1>9, <3>2, QuietFwd
    <3> QED BY Zenon, <3>1, <3>2
  <2>2. ASSUME NEW g \in Relays PROVE BwdKept(g)
    BY Zenon, <1>8, <1>9, QuietBwd
  <2> QED BY Zenon, <2>1, <2>2, CellStep
<1>12. KeysInv'
  BY Zenon, <1>0, <1>1, <1>2, <1>3, <1>4, <1>5, <1>14, EntryIsRelay DEF KeysInv
<1>13. ChainInv'
  <2>1. \A g \in Relays : handler[g] = "none" => g # h /\ fwd'[g] = fwd[g]
    BY Zenon, <1>0, <1>1 DEF Taken, TypeOK
  <2>2. \A g \in Relays : OutConn[g] # 0 => g + 1 \in Relays
    BY Zenon, NextOfChain
  <2>3. \A g \in Relays : handler[g] = "await" => g + 1 \in Relays
    BY Zenon, <1>0, NAssumption DEF ChainInv, ChainAt, TypeOK, Extending, Relays
  <2>4. ASSUME NEW g \in Relays PROVE ChainAt(g)'
    <3>1. ChainAt(g)
      BY Zenon, <1>0 DEF ChainInv
    <3>2. handler'[g] = "none" => g # h /\ fwd'[g] = fwd[g] /\ key'[g] = key[g]
      BY Zenon, <1>3, <1>14, <2>1
    <3> QED BY Zenon, <1>1, <1>5, <1>14, <2>2, <2>3, <3>1, <3>2 DEF ChainAt
  <2> QED BY Zenon, <2>4 DEF ChainInv
<1> QED BY Zenon, <1>10, <1>11, <1>12, <1>13 DEF CircInv

(* Extend travels down the chain, one layer less at each hop.              *)
LEMMA StepForwardExtend ==
    ASSUME CircInv, TypeInv', NEW h \in Relays, ForwardExtend(h)
    PROVE  CircInv'
<1> DEFINE c == Head(fwd[h])
           d == Decrypted(c)
<1>0. TypeOK /\ KeysInv /\ ChainInv
  BY Zenon DEF CircInv, TypeInv, CoreInv
<1>1. /\ UNCHANGED <<hop, clientKeys, key, OutConn, target, phase, bwd, closed, jobs>>
      /\ fwd[h] # <<>> /\ c.cmd = "Extend" /\ Turns(h)
      /\ \/ fwd' = Taken(h)
         \/ /\ OutConn[h] # 0 /\ closed[OutConn[h]] = {}
            /\ fwd' = [Taken(h) EXCEPT ![OutConn[h]] = Append(@, d)]
  BY Zenon DEF ForwardExtend, TakenAndForwarded, Handles, Reads, CircInv, TypeInv, HandOK,
         Turns, Working, clientVars, circVars, exitVars
<1>2. /\ c \in Cells /\ c.arg = hop /\ h < hop /\ c.layers = HonestOnion(h, hop - 1)
      /\ ~ Negotiated /\ OutConn[hop - 1] = 0 /\ \A g \in Relays : ~ Extending(g)
      /\ Starts(fwd[h], "Extend")
  BY Zenon, <1>1, Heads DEF FwdHead, FwdRest, CreateCells, ExtendCells, Starts
<1>3. Taken(h) \in [Relays -> Seq(Cells)]
  BY Zenon, <1>0, <1>1, TakeType DEF Taken, TypeOK
<1>4. CASE fwd' = Taken(h)
  <2>1. Calm
    <3>1. \A g \in Relays : handler[g] = "none" => fwd'[g] = <<>>
      BY Zenon, <1>0, <1>1, <1>4 DEF Taken, ChainInv, ChainAt, TypeOK
    <3> QED BY Zenon, <1>1, <3>1, CalmTurns
  <2>2. \A g \in Relays : Quiet(g)
    BY Zenon, <1>0, <1>1, <1>4 DEF Quiet, Moves, Taken, TypeOK
  <2> QED BY Zenon, <2>1, <2>2, QuietStep
<1>5. CASE /\ OutConn[h] # 0 /\ closed[OutConn[h]] = {}
           /\ fwd' = [Taken(h) EXCEPT ![OutConn[h]] = Append(@, d)]
  <2>1. OutConn[h] = h + 1 /\ h + 1 \in Relays /\ h + 1 # h /\ handler[h + 1] # "none"
    BY Zenon, <1>5, NextOfChain
  <2>2. hop - 1 \in Relays /\ h < hop - 1 /\ h + 1 < hop
    <3>1. h # hop - 1
      BY Zenon, <1>2, <1>5
    <3>2. hop \in Relays
      BY Zenon, <1>0 DEF TypeOK
    <3> QED BY <1>2, <3>1, <3>2, NAssumption DEF Relays
  <2>3. d \in Cells /\ d.cmd = "Extend" /\ d.arg = hop /\ d.layers = HonestOnion(h + 1, hop - 1)
    BY Zenon, <1>1, <1>2, <2>2, PeeledCell
  <2>4. UNCHANGED Negotiated /\ \A g \in Relays : ~ Extending(g)'
    BY Zenon, <1>0, <1>1, <1>2, TurnsQuiet DEF Negotiated
  <2>5. d \in ExtendCells(h + 1)'
    BY Zenon, <1>1, <1>2, <2>2, <2>3, <2>4 DEF ExtendCells
  <2>6. fwd[h + 1] = <<>>
    <3>1. Joined(h + 1)
      BY Zenon, <2>2, JoinedBefore, <2>1
    <3>2. ~ Starts(fwd[h + 1], "Extend")
      BY Zenon, <1>2, <2>1 DEF CircInv, OneInv
    <3> QED BY Zenon, <1>2, <1>5, <2>1, <3>1, <3>2, FwdStart
  <2>7. /\ fwd'[h + 1] = Append(fwd[h + 1], d) /\ fwd'[h] = Tail(fwd[h])
        /\ \A g \in Relays : g # h /\ g # h + 1 => fwd'[g] = fwd[g]
    BY Zenon, <1>0, <1>3, <1>5, <2>1 DEF Taken, TypeOK
  <2>8. Calm
    <3>1. \A g \in Relays : handler[g] = "none" => fwd'[g] = <<>>
      BY Zenon, <1>0, <1>1, <2>1, <2>7 DEF ChainInv, ChainAt
    <3> QED BY Zenon, <1>1, <3>1, CalmTurns
  <2>9. CellInv'
    <3>1. Steady
      BY Zenon, <2>8 DEF Calm, Steady
    <3>2. ASSUME NEW g \in Relays PROVE FwdKept(g) /\ BwdKept(g)
      <4>1. /\ FwdHead(g) \subseteq FwdHead(g)' /\ FwdRest(g) \subseteq FwdRest(g)'
            /\ BwdHead(g) \subseteq BwdHead(g)' /\ BwdRest(g) \subseteq BwdRest(g)'
        BY Zenon, <3>1, SteadyCells
      <4>2. BwdKept(g)
        BY Zenon, <1>1, <4>1, StillBwd
      <4>3. CASE g = h + 1
        <5>1. Moves(fwd[g], fwd'[g], FwdHead(g)', FwdRest(g)')
          BY Zenon, <2>3, <2>5, <2>6, <2>7, <4>3 DEF Moves, FwdHead
        <5> QED BY Zenon, <2>6, <4>1, <4>2, <4>3, <5>1 DEF FwdKept, Kept
      <4>4. CASE g = h
        BY Zenon, <1>1, <2>7, <4>1, <4>2, <4>4 DEF FwdKept, Kept
      <4>5. CASE g # h /\ g # h + 1
        BY Zenon, <2>7, <4>1, <4>2, <4>5, StillFwd
      <4> QED BY Zenon, <4>2, <4>3, <4>4, <4>5
    <3> QED BY Zenon, <3>2, CellStep
  <2>10. OneInv'
    <3>1. ~ Starts(fwd'[h], "Extend")
      BY Zenon, <1>1, <2>7, StartGone
    <3>2. \A g \in Relays : Starts(fwd'[g], "Extend") => g = h + 1
      BY Zenon, <1>2, <2>7, <3>1 DEF CircInv, OneInv, Starts
    <3> QED BY Zenon, <1>1, <3>2 DEF CircInv, OneInv
  <2> QED BY Zenon, <2>8, <2>9, <2>10, CalmCore DEF CircInv
<1> QED BY Zenon, <1>1, <1>4, <1>5

(* The last hop begins the extension: the Extend is gone.                  *)
LEMMA StepStartExtend ==
    ASSUME CircInv, TypeInv', NEW h \in Relays, StartExtend(h)
    PROVE  CircInv'
<1> DEFINE c == Head(fwd[h])
<1>0. TypeOK /\ KeysInv /\ ChainInv
  BY Zenon DEF CircInv, TypeInv, CoreInv
<1>1. /\ UNCHANGED <<hop, clientKeys, key, OutConn, phase, bwd, closed, jobs>>
      /\ fwd[h] # <<>> /\ c.cmd = "Extend" /\ fwd' = Taken(h)
      /\ handler[h] = "handle" /\ OutConn[h] = 0
      /\ \/ Turns(h) /\ target' = target
         \/ /\ Len(c.layers) = 1
            /\ handler' = [handler EXCEPT ![h] = "dial"]
            /\ target' = [target EXCEPT ![h] = c.arg]
  BY Zenon DEF StartExtend, Handles, Reads, CircInv, TypeInv, HandOK, Turns, Working,
         clientVars, circVars, exitVars
<1>2. /\ c \in Cells /\ c.arg = hop /\ h < hop /\ c.layers = HonestOnion(h, hop - 1)
      /\ ~ Negotiated /\ OutConn[hop - 1] = 0 /\ \A g \in Relays : ~ Extending(g)
      /\ Starts(fwd[h], "Extend")
  BY Zenon, <1>1, Heads DEF FwdHead, FwdRest, CreateCells, ExtendCells, Starts
<1>3. \A g \in Relays : Quiet(g) /\ (handler[g] = "none" => fwd'[g] = <<>>)
  BY Zenon, <1>0, <1>1 DEF Quiet, Moves, Taken, TypeOK, ChainInv, ChainAt
<1>4. CASE Turns(h) /\ target' = target
  <2>1. Calm
    BY Zenon, <1>1, <1>3, <1>4, CalmTurns
  <2> QED BY Zenon, <1>3, <2>1, QuietStep
<1>5. CASE /\ Len(c.layers) = 1
           /\ handler' = [handler EXCEPT ![h] = "dial"]
           /\ target' = [target EXCEPT ![h] = c.arg]
  <2>1. hop = h + 1
    <3>1. hop \in Relays /\ hop - 1 \in Relays /\ h <= hop - 1
      <4>1. hop \in Relays
        BY Zenon, <1>0 DEF TypeOK
      <4> QED BY <1>2, <4>1, NAssumption DEF Relays
    <3>2. Len(c.layers) = hop - 1 - h + 1
      BY Zenon, <1>2, <3>1, OnionPeel
    <3>3. 1 = hop - 1 - h + 1
      BY Zenon, <1>5, <3>2
    <3>4. hop \in Int /\ h \in Int
      BY <3>1, NAssumption DEF Relays
    <3> QED BY <3>3, <3>4
  <2>2. UNCHANGED Negotiated /\ \A g \in Relays : UNCHANGED Joined(g)
    BY Zenon, <1>1 DEF Negotiated, Joined
  <2>3. /\ handler'[h] = "dial" /\ target'[h] = h + 1
        /\ \A g \in Relays : g # h => handler'[g] = handler[g] /\ target'[g] = target[g]
    BY Zenon, <1>0, <1>2, <1>5, <2>1 DEF TypeOK
  <2>4. KeysInv'
    BY Zenon, <1>0, <1>1, <2>2, <2>3, EntryIsRelay DEF KeysInv
  <2>5. ChainInv'
    <3>1. \A g \in Relays : handler'[g] = "none" <=> handler[g] = "none"
      BY Zenon, <1>1, <2>3
    <3>2. \A g \in Relays : /\ handler'[g] # "await"
                            /\ Extending(g)' <=> g = h
      BY Zenon, <1>2, <2>3 DEF Extending
    <3>3. \A g \in Relays : OutConn[g] # 0 => g + 1 \in Relays
      BY Zenon, NextOfChain
    <3>4. ASSUME NEW g \in Relays PROVE ChainAt(g)'
      <4>1. ChainAt(g)
        BY Zenon, <1>0 DEF ChainInv
      <4> QED BY Zenon, <1>1, <1>2, <1>3, <2>1, <2>2, <2>3, <3>1, <3>2, <3>3, <4>1 DEF ChainAt
    <3> QED BY Zenon, <3>4 DEF ChainInv
  <2>6. OneInv'
    BY Zenon, <1>3, OneStep, QuietStarts
  <2>7. CellInv'
    <3>1. ASSUME NEW g \in Relays PROVE FwdKept(g) /\ BwdKept(g)
      <4>1. FwdRest(g) \subseteq FwdRest(g)' /\ BwdRest(g) \subseteq BwdRest(g)'
        BY Zenon, <1>1, <2>2 DEF FwdRest, BwdRest
      <4>2. CreateCells(g) \subseteq CreateCells(g)' /\ CreatedCells(g) \subseteq CreatedCells(g)'
        BY Zenon, <1>1, <2>2 DEF CreateCells, CreatedCells
      <4>3. ExtendedCells(g) \subseteq ExtendedCells(g)'
        BY Zenon, <1>1, <2>2 DEF ExtendedCells
      <4>4. BwdKept(g)
        BY Zenon, <1>3, <4>1, <4>2, <4>3, QuietBwd DEF BwdHead
      <4>5. CASE g = h
        <5>1. fwd'[g] = Tail(fwd[g])
          BY Zenon, <1>0, <1>1, <4>5 DEF Taken, TypeOK
        <5> QED BY Zenon, <1>1, <4>1, <4>4, <4>5, <5>1 DEF FwdKept, Kept
      <4>6. CASE g # h
        <5>1. ~ Starts(fwd[g], "Extend")
          BY Zenon, <1>2, <4>6 DEF CircInv, OneInv
        <5>2. fwd[g] # <<>> => Head(fwd[g]) \in FwdHead(g)'
          BY Zenon, <4>1, <4>2, <5>1, FwdStart DEF FwdHead
        <5>3. Moves(fwd[g], fwd'[g], FwdHead(g)', FwdRest(g)')
          BY Zenon, <1>3, QuietMoves
        <5> QED BY Zenon, <4>1, <4>4, <5>2, <5>3 DEF FwdKept, Kept
      <4> QED BY Zenon, <4>4, <4>5, <4>6
    <3> QED BY Zenon, <3>1, CellStep
  <2> QED BY Zenon, <2>4, <2>5, <2>6, <2>7 DEF CircInv
<1> QED BY Zenon, <1>1, <1>4, <1>5

(* The next hop is dialled: its connection did not exist before.           *)
LEMMA StepExtendDialed ==
    ASSUME CircInv, TypeInv', NEW h \in Relays, ExtendDialed(h)
    PROVE  CircInv'
<1>0. TypeOK /\ KeysInv /\ ChainInv
  BY Zenon DEF CircInv, TypeInv, CoreInv
<1>1. PICK next \in Relays : next = h + 1 /\ next = target[h] /\ OutConn[h] = 0 /\ hop = next
  <2>1. Extending(h)
    BY Zenon DEF ExtendDialed, Extending
  <2>2. target[h] = h + 1 /\ hop = h + 1 /\ OutConn[h] = 0
    BY Zenon, <1>0, <2>1 DEF ChainInv, ChainAt
  <2> QED BY Zenon, <1>0, <2>2 DEF TypeOK
<1> DEFINE c == Cell("Create", <<>>, next)
<1>2. /\ UNCHANGED <<hop, clientKeys, key, OutConn, target, closed, bwd, jobs, phase>>
      /\ handler[h] = "dial" /\ handler[next] = "none"
      /\ handler' = [handler EXCEPT ![h] = "await", ![next] = "read"]
      /\ fwd' = Write(fwd, next, c)
  BY Zenon, <1>1 DEF ExtendDialed, clientVars, circVars, exitVars
<1>3. /\ next # h /\ handler'[h] = "await" /\ handler'[next] = "read"
      /\ \A g \in Relays : g # h /\ g # next => handler'[g] = handler[g]
  BY Zenon, <1>0, <1>2 DEF TypeOK
<1>4. \A g \in Relays : Extending(g)' <=> Extending(g)
  BY Zenon, <1>2, <1>3 DEF Extending
<1>5. Steady
  BY Zenon, <1>2, <1>4 DEF Steady
<1>6. fwd[next] = <<>> /\ key[next] = NoKey
  BY Zenon, <1>0, <1>2 DEF ChainInv, ChainAt
<1>7. c \in Cells /\ c \in CreateCells(next)'
  <2>1. c \in Cells
    <3>1. next \in 0..N
      BY DEF Relays
    <3> QED BY Zenon, <3>1, EmptyOnion, CellType DEF Commands
  <2>2. next # 1 /\ next - 1 = h
    BY <1>1, NAssumption DEF Relays
  <2>3. ~ Joined(next)'
    BY Zenon, <1>1, <1>2, <2>2 DEF Joined
  <2> QED BY Zenon, <1>2, <1>6, <2>1, <2>3 DEF CreateCells, Cell
<1>8. ASSUME NEW g \in Relays PROVE Quiet(g)
  <2>1. Moves(fwd[g], fwd'[g], CreateCells(g)', FwdRest(g)')
    BY Zenon, <1>0, <1>2, <1>6, <1>7, WriteMoves DEF TypeOK
  <2> QED BY Zenon, <1>2, <2>1 DEF Quiet, Moves
<1>9. UNCHANGED Negotiated
  BY Zenon, <1>2 DEF Negotiated
<1>10. KeysInv'
  <2>1. phase # "idle"
    <3>1. 1 # h + 1
      BY DEF Relays
    <3> QED BY Zenon, <1>0, <1>1, <3>1 DEF KeysInv
  <2>2. handler'[1] # "none"
    BY Zenon, <1>0, <1>2, <1>3, <2>1, EntryIsRelay DEF KeysInv
  <2> QED BY Zenon, <1>0, <1>2, <1>9, <2>1, <2>2 DEF KeysInv
<1>11. ChainInv'
  <2>1. \A g \in Relays : g # next => fwd'[g] = fwd[g]
    BY Zenon, <1>0, <1>2 DEF Write, TypeOK
  <2>2. \A g \in Relays : /\ handler'[g] = "none" => handler[g] = "none" /\ g # next
                          /\ OutConn[g] # 0 => g + 1 \in Relays
                          /\ handler'[g] = "await" => g = h \/ handler[g] = "await"
    BY Zenon, <1>2, <1>3, NextOfChain
  <2>3. \A g \in Relays : handler[g] = "await" => g = h
    BY SMTT(30), <1>0, <1>1, NAssumption DEF ChainInv, ChainAt, Extending, Relays
  <2>4. ASSUME NEW g \in Relays PROVE ChainAt(g)'
    <3>1. ChainAt(g)
      BY Zenon, <1>0 DEF ChainInv
    <3> QED BY ZenonT(30), <1>1, <1>2, <1>3, <1>4, <1>9, <2>1, <2>2, <2>3, <3>1 DEF ChainAt
  <2> QED BY Zenon, <2>4 DEF ChainInv
<1> QED BY Zenon, <1>5, <1>8, <1>10, <1>11, QuietCells DEF CircInv

(* The next hop has answered: the relay is joined to it and says so.       *)
LEMMA StepExtendCreated ==
    ASSUME CircInv, TypeInv', NEW h \in Relays, ExtendCreated(h)
    PROVE  CircInv'
<1>0. TypeOK /\ KeysInv /\ ChainInv
  BY Zenon DEF CircInv, TypeInv, CoreInv
<1>1. PICK next \in Relays : next = h + 1 /\ next = target[h] /\ OutConn[h] = 0 /\ hop = next
                             /\ ~ Negotiated /\ Extending(h)
  <2>1. Extending(h)
    BY Zenon DEF ExtendCreated, Extending
  <2>2. target[h] = h + 1 /\ hop = h + 1 /\ OutConn[h] = 0 /\ ~ Negotiated
    BY Zenon, <1>0, <2>1 DEF ChainInv, ChainAt
  <2> QED BY Zenon, <1>0, <2>1, <2>2 DEF TypeOK
<1> DEFINE b == Head(bwd[next])
           rest == [bwd EXCEPT ![next] = Tail(@)]
           c == Cell("Extended", <<>>, b.arg)
<1>2. /\ UNCHANGED <<hop, clientKeys, key, fwd, jobs, phase>>
      /\ handler[h] = "await" /\ bwd[next] # <<>>
      /\ handler' = [handler EXCEPT ![h] = "read"]
      /\ target' = [target EXCEPT ![h] = 0]
      /\ \/ /\ b.cmd = "Created" /\ OutConn' = [OutConn EXCEPT ![h] = next]
            /\ bwd' = Write(rest, h, c) /\ closed' = closed
         \/ /\ OutConn' = OutConn /\ bwd' = rest /\ closed' = CloseEnd(next, "up")
  BY Zenon, <1>1 DEF ExtendCreated, clientVars, exitVars
<1>3. /\ handler'[h] = "read" /\ target'[h] = 0 /\ ~ Extending(h)' /\ next # h
      /\ \A g \in Relays : g # h => /\ handler'[g] = handler[g] /\ target'[g] = target[g]
                                    /\ Extending(g)' <=> Extending(g)
  BY <1>0, <1>1, <1>2 DEF TypeOK, Extending, Relays
<1>4. rest \in [Relays -> Seq(Cells)] /\ b \in Cells
  BY Zenon, <1>0, <1>2, TakeType DEF TypeOK
<1>5. CASE OutConn' = OutConn /\ bwd' = rest /\ closed' = CloseEnd(next, "up")
  <2>1. \A g \in Relays : closed[g] # {} => closed'[g] # {}
    BY Zenon, <1>0, <1>5, CloseGrows
  <2>2. Calm
    <3>1. \A g \in Relays : /\ ~ Extending(g) => target[g] = 0
                            /\ handler[g] = "none" => fwd[g] = <<>>
      BY Zenon, <1>0 DEF ChainInv, ChainAt
    <3> QED BY Zenon, <1>2, <1>3, <1>5, <2>1, <3>1 DEF Calm
  <2>3. \A g \in Relays : Quiet(g)
    BY Zenon, <1>0, <1>2, <1>5 DEF Quiet, Moves, TypeOK
  <2> QED BY Zenon, <2>2, <2>3, QuietStep
<1>6. CASE /\ b.cmd = "Created" /\ OutConn' = [OutConn EXCEPT ![h] = next]
           /\ bwd' = Write(rest, h, c) /\ closed' = closed
  <2>1. b.arg = next /\ key[next] = <<next, next>>
    BY Zenon, <1>2, <1>6, Heads DEF BwdHead, CreatedCells, ExtendedCells, BwdRest
  <2>2. h < hop /\ hop - 1 = h /\ next - 1 = h /\ next # 1
    BY <1>1, NAssumption DEF Relays
  <2>3. bwd[h] = <<>>
    BY Zenon, <1>1, <2>2, JoinedBefore, BwdStart, SomeKey
  <2>4. OutConn'[h] = next /\ \A g \in Relays : g # h => OutConn'[g] = OutConn[g]
    BY Zenon, <1>0, <1>6 DEF TypeOK
  <2>5. UNCHANGED Negotiated
    BY Zenon, <1>2 DEF Negotiated
  <2>6. ASSUME NEW g \in Relays, g # next PROVE UNCHANGED Joined(g)
    <3>1. CASE g = 1
      BY Zenon, <1>2, <2>5, <3>1 DEF Joined
    <3>2. CASE g # 1
      <4>1. g - 1 \in Relays /\ g - 1 # h
        BY <1>1, <2>6, <3>2, NAssumption DEF Relays
      <4> QED BY Zenon, <2>4, <3>2, <4>1 DEF Joined
    <3> QED BY Zenon, <3>1, <3>2
  <2>7. /\ bwd'[next] = Tail(bwd[next])
        /\ bwd'[h] = bwd[h] \/ bwd'[h] = Append(bwd[h], c)
        /\ \A g \in Relays : g # h /\ g # next => bwd'[g] = bwd[g]
    BY Zenon, <1>0, <1>3, <1>4, <1>6 DEF Write, TypeOK
  <2>8. c \in Cells /\ c \in ExtendedCells(h)'
    <3>1. c \in Cells
      BY Zenon, <1>4, EmptyOnion, CellType DEF Commands, Cells
    <3> QED BY Zenon, <1>1, <1>2, <2>1, <2>2, <2>4, <2>5, <3>1 DEF ExtendedCells, Cell
  <2>9. ASSUME NEW g \in Relays
        PROVE  /\ fwd[g] # <<>> => Head(fwd[g]) \in FwdHead(g)' /\ ~ Starts(fwd[g], "Extend")
               /\ bwd[g] # <<>> => ~ Starts(bwd[g], "Extended")
               /\ bwd[g] # <<>> /\ g # next => Head(bwd[g]) \in BwdHead(g)'
               /\ FwdRest(g) \subseteq FwdRest(g)' /\ BwdRest(g) \subseteq BwdRest(g)'
    <3>1. FwdRest(g) \subseteq FwdRest(g)' /\ BwdRest(g) \subseteq BwdRest(g)'
      BY Zenon, <1>6, <2>5 DEF FwdRest, BwdRest
    <3>2. g # next => /\ CreateCells(g) \subseteq CreateCells(g)'
                      /\ CreatedCells(g) \subseteq CreatedCells(g)'
      BY Zenon, <1>2, <2>6 DEF CreateCells, CreatedCells
    <3>3. key[next] # NoKey /\ hop # 0
      BY Zenon, <1>1, <2>1, SomeKey
    <3>4. fwd[g] # <<>> => Head(fwd[g]) \in FwdHead(g)' /\ Head(fwd[g]).cmd # "Extend"
      <4>1. fwd[g] # <<>> => \/ Head(fwd[g]) \in CreateCells(g) /\ g # next
                             \/ Head(fwd[g]) \in FwdRest(g)
        BY Zenon, <1>1, <3>3, FwdStart
      <4> QED BY Zenon, <3>1, <3>2, <4>1 DEF FwdHead, CreateCells, FwdRest
    <3>5. bwd[g] # <<>> => /\ g # next => Head(bwd[g]) \in BwdHead(g)'
                           /\ Head(bwd[g]).cmd # "Extended"
      <4>1. bwd[g] # <<>> => Head(bwd[g]) \in CreatedCells(g) \/ Head(bwd[g]) \in BwdRest(g)
        BY Zenon, <1>1, <2>2, <3>3, BwdStart
      <4> QED BY Zenon, <3>1, <3>2, <4>1 DEF BwdHead, CreatedCells, BwdRest
    <3> QED BY Zenon, <3>1, <3>4, <3>5 DEF Starts
  <2>10. CellInv'
    <3>1. ASSUME NEW g \in Relays PROVE FwdKept(g)
      BY Zenon, <1>2, <2>9 DEF FwdKept, Kept, Moves
    <3>2. ASSUME NEW g \in Relays PROVE BwdKept(g)
      <4>1. CASE g = next
        BY Zenon, <1>2, <2>7, <2>9, <4>1 DEF BwdKept, Kept
      <4>2. CASE g # next /\ g # h
        BY Zenon, <2>7, <2>9, <4>2 DEF BwdKept, Kept, Moves
      <4>3. CASE g = h
        <5>1. Moves(bwd[g], bwd'[g], BwdHead(g)', BwdRest(g)')
          BY Zenon, <2>3, <2>7, <2>8, <4>3 DEF Moves, BwdHead
        <5> QED BY Zenon, <2>3, <2>9, <4>3, <5>1 DEF BwdKept, Kept
      <4> QED BY Zenon, <4>1, <4>2, <4>3
    <3> QED BY Zenon, <3>1, <3>2, CellStep
  <2>11. OneInv'
    <3>1. \A g \in Relays : ~ Starts(fwd'[g], "Extend")
      BY Zenon, <1>2, <2>9 DEF Starts
    <3>2. ~ Starts(bwd'[next], "Extended")
      BY Zenon, <1>2, <2>7, StartGone
    <3>3. \A g \in Relays : Starts(bwd'[g], "Extended") => g = h
      BY Zenon, <2>7, <2>9, <3>2 DEF Starts
    <3> QED BY Zenon, <3>1, <3>3 DEF OneInv
  <2>12. KeysInv'
    BY Zenon, <1>0, <1>2, <1>3, <2>5, EntryIsRelay DEF KeysInv
  <2>13. ChainInv'
    <3>1. handler[next] # "none" /\ handler[h] # "none"
      BY Zenon, <1>0, <1>1, <1>2 DEF ChainInv, ChainAt
    <3>2. \A g \in Relays : /\ handler'[g] = "none" <=> handler[g] = "none"
                            /\ handler'[g] = "await" => handler[g] = "await" /\ g # h
      BY Zenon, <1>2, <1>3, <3>1
    <3>3. \A g \in Relays : g # h => ~ Extending(g)
      BY <1>0, <1>1, NAssumption DEF ChainInv, ChainAt, Relays
    <3>4. ASSUME NEW g \in Relays PROVE ChainAt(g)'
      <4>1. ChainAt(g)
        BY Zenon, <1>0 DEF ChainInv
      <4>2. OutConn[g] # 0 => g + 1 \in Relays
        BY Zenon, NextOfChain
      <4>3. handler'[g] # "await"
        BY Zenon, <3>2, <3>3 DEF Extending
      <4>4. CASE g = h
        BY SMTT(30), <1>1, <1>2, <1>3, <2>2, <2>4, <2>5, <3>1, <3>2, <4>1, <4>3, <4>4 DEF ChainAt
      <4>5. CASE g # h
        BY Zenon, <1>1, <1>2, <1>3, <2>4, <2>5, <3>2, <3>3, <4>1, <4>2, <4>3, <4>5 DEF ChainAt
      <4> QED BY Zenon, <4>4, <4>5
    <3> QED BY Zenon, <3>4 DEF ChainInv
  <2> QED BY Zenon, <2>10, <2>11, <2>12, <2>13 DEF CircInv
<1> QED BY Zenon, <1>2, <1>5, <1>6

(* The forwarder carries Extended back as it is, and wraps responses.      *)
LEMMA StepForwardCells ==
    ASSUME CircInv, TypeInv', NEW h \in Relays, forwardCells(h)
    PROVE  CircInv'
<1>0. TypeOK /\ ControlOK /\ KeysInv /\ ChainInv
  BY Zenon DEF CircInv, TypeInv, CoreInv
<1>1. /\ OutConn[h] = h + 1 /\ h + 1 \in Relays /\ h + 1 # h
      /\ h < hop /\ h < N /\ handler[h + 1] # "none"
  <2>1. OutConn[h] # 0
    BY Zenon, <1>0 DEF forwardCells, ControlOK
  <2> QED BY Zenon, <2>1, NextOfChain
<1>2. PICK next \in Relays : next = h + 1 /\ next = OutConn[h]
  BY Zenon, <1>1
<1> DEFINE b == Head(bwd[next])
           rest == [bwd EXCEPT ![next] = Tail(@)]
           out == IF b.cmd \in {"Relay", "RelayDone"}
                  THEN [b EXCEPT !.layers = Encrypt(key[h], @)]
                  ELSE b
<1>3. /\ UNCHANGED <<hop, clientKeys, key, OutConn, handler, target, phase, fwd, closed, jobs>>
      /\ bwd[next] # <<>> /\ bwd' = Write(rest, h, out)
  BY Zenon, <1>2 DEF forwardCells, clientVars, extendVars, circVars, exitVars
<1>4. rest \in [Relays -> Seq(Cells)] /\ b \in Cells
  BY Zenon, <1>0, <1>3, TakeType DEF TypeOK
<1>5. /\ bwd'[next] = Tail(bwd[next])
      /\ bwd'[h] = bwd[h] \/ bwd'[h] = Append(bwd[h], out)
      /\ \A g \in Relays : g # h /\ g # next => bwd'[g] = bwd[g]
  BY Zenon, <1>0, <1>1, <1>2, <1>3, <1>4 DEF Write, TypeOK
<1>6. Calm
  <2>1. \A g \in Relays : handler[g] = "none" => fwd'[g] = <<>>
    BY Zenon, <1>0, <1>3 DEF ChainInv, ChainAt
  <2> QED BY Zenon, <1>3, <2>1, CalmSame
<1>7. UNCHANGED Negotiated
  BY Zenon, <1>3 DEF Negotiated
<1>8. Joined(next)
  BY <1>1, <1>2, SomeKey, NAssumption DEF Joined, Relays
<1>9. CASE Negotiated
  <2>1. b \in BwdRest(next)
    BY Zenon, <1>3, <1>8, <1>9, BwdStart
  <2>2. /\ b.cmd \in {"Relay", "RelayDone"} /\ b.layers = HonestOnion(h + 1, N)
        /\ key[h] = <<h, h>>
    BY Zenon, <1>2, <1>9, <2>1, AllKeys DEF BwdRest
  <2>3. Encrypt(key[h], b.layers) = HonestOnion(h, N) /\ HonestOnion(h, N) \in Seq(KeySlots)
    <3>1. h <= N
      BY <1>1 DEF Relays
    <3> QED BY SMTT(30), <1>1, <2>2, <3>1, OnionWrap, OnionPeel, EntryIsRelay
  <2>4. out \in Cells /\ out \in BwdRest(h)'
    <3>1. out.cmd = b.cmd /\ out.layers = HonestOnion(h, N) /\ out \in Cells
      BY Zenon, <1>4, <2>2, <2>3 DEF Cells
    <3> QED BY Zenon, <1>7, <1>9, <2>2, <3>1 DEF BwdRest
  <2> HIDE DEF out
  <2>5. ASSUME NEW g \in Relays PROVE Quiet(g)
    <3>1. Moves(bwd[g], bwd'[g], CreatedCells(g)', BwdRest(g)')
      <4>1. CASE g = h
        BY Zenon, <1>5, <2>4, <4>1 DEF Moves
      <4>2. CASE g = next
        BY Zenon, <1>3, <1>5, <4>2 DEF Moves
      <4>3. CASE g # h /\ g # next
        BY Zenon, <1>5, <4>3 DEF Moves
      <4> QED BY Zenon, <4>1, <4>2, <4>3
    <3> QED BY Zenon, <1>3, <3>1 DEF Quiet, Moves
  <2> QED BY Zenon, <1>6, <2>5, QuietStep
<1>10. CASE ~ Negotiated
  <2>1. b \in ExtendedCells(next) /\ Starts(bwd[next], "Extended")
    BY Zenon, <1>3, <1>8, <1>10, BwdStart
  <2>2. out = b /\ b.cmd = "Extended"
    BY Zenon, <2>1 DEF ExtendedCells
  <2>3. b \in ExtendedCells(h)'
    BY Zenon, <1>1, <1>3, <1>7, <2>1 DEF ExtendedCells
  <2>4. bwd[h] = <<>>
    <3>1. ~ Starts(bwd[h], "Extended")
      BY Zenon, <1>1, <1>2, <2>1 DEF CircInv, OneInv
    <3> QED BY Zenon, <1>1, <1>10, <3>1, JoinedBefore, BwdStart
  <2>5. Steady
    BY Zenon, <1>6 DEF Calm, Steady
  <2>6. CellInv'
    <3>1. ASSUME NEW g \in Relays PROVE FwdKept(g) /\ BwdKept(g)
      <4>1. /\ FwdHead(g) \subseteq FwdHead(g)' /\ FwdRest(g) \subseteq FwdRest(g)'
            /\ BwdHead(g) \subseteq BwdHead(g)' /\ BwdRest(g) \subseteq BwdRest(g)'
        BY Zenon, <2>5, SteadyCells
      <4>2. FwdKept(g)
        BY Zenon, <1>3, <4>1, StillFwd
      <4>3. BwdKept(g)
        <5>1. CASE g = next
          BY Zenon, <1>3, <1>5, <4>1, <5>1 DEF BwdKept, Kept
        <5>2. CASE g # next /\ g # h
          BY Zenon, <1>5, <4>1, <5>2, StillBwd
        <5>3. CASE g = h
          <6>1. Moves(bwd[g], bwd'[g], BwdHead(g)', BwdRest(g)')
            BY Zenon, <1>4, <1>5, <2>2, <2>3, <2>4, <5>3 DEF Moves, BwdHead
          <6> QED BY Zenon, <2>4, <4>1, <5>3, <6>1 DEF BwdKept, Kept
        <5> QED BY Zenon, <5>1, <5>2, <5>3
      <4> QED BY Zenon, <4>2, <4>3
    <3> QED BY Zenon, <3>1, CellStep
  <2>7. OneInv'
    <3>1. ~ Starts(bwd'[next], "Extended")
      BY Zenon, <1>3, <1>5, StartGone
    <3>2. \A g \in Relays : Starts(bwd'[g], "Extended") => g = h
      BY Zenon, <1>5, <2>1, <3>1 DEF CircInv, OneInv, Starts
    <3> QED BY Zenon, <1>3, <3>2 DEF CircInv, OneInv
  <2> QED BY Zenon, <1>6, <2>6, <2>7, CalmCore DEF CircInv
<1> QED BY Zenon, <1>9, <1>10

(* The client takes the key of hop 1 from Created, of the others from      *)
(* Extended, and asks for the next hop.                                    *)

(* The key the reply gives is the one relay hop has, and hop is joined to  *)
(* the circuit; no Extend is left, and no extension is in progress.        *)
LEMMA ReplyFacts ==
    ASSUME CircInv, bwd[1] # <<>>,
           Head(bwd[1]).cmd = (IF hop = 1 THEN "Created" ELSE "Extended")
    PROVE  /\ Head(bwd[1]).arg = hop /\ key[hop] = <<hop, hop>> /\ ~ Negotiated
           /\ \A h \in Relays : h < hop => OutConn[h] = h + 1
           /\ \A h \in Relays : ~ (h < hop) => OutConn[h] = 0
           /\ \A h \in Relays : ~ Extending(h) /\ ~ Starts(fwd[h], "Extend")
           /\ \A h \in Relays : h # 1 => ~ Starts(bwd[h], "Extended")
           /\ fwd[1] = <<>> \/ closed[1] # {}
<1> USE EntryIsRelay
<1>0. TypeOK /\ KeysInv /\ ChainInv
  BY Zenon DEF CircInv, TypeInv, CoreInv
<1>1. \A h \in Relays : ~ (h < hop) => OutConn[h] = 0
  BY Zenon, <1>0 DEF ChainInv, ChainAt
<1>2. hop \in Relays
  BY Zenon, <1>0 DEF TypeOK
<1>3. CASE hop = 1
  <2>1. Head(bwd[1]).arg = 1 /\ key[1] = <<1, 1>> /\ ~ Joined(1)
    BY Zenon, <1>3, Heads DEF BwdHead, CreatedCells, ExtendedCells, BwdRest
  <2>2. ~ Negotiated
    BY Zenon, <2>1 DEF Joined
  <2>3. \A h \in Relays : ~ (h < hop) /\ hop # h + 1
    BY <1>3, NAssumption DEF Relays
  <2>4. \A h \in Relays : ~ Extending(h)
    BY Zenon, <1>0, <2>3 DEF ChainInv, ChainAt
  <2>5. \A h \in Relays : ~ Starts(fwd[h], "Extend")
    BY Zenon, <2>2, <2>3, FwdStart DEF Starts, CreateCells, FwdRest
  <2>6. \A h \in Relays : ~ Starts(bwd[h], "Extended")
    BY Zenon, <2>2, <2>3, BwdStart DEF Starts, CreatedCells, BwdRest
  <2>7. fwd[1] = <<>> \/ closed[1] # {}
    BY Zenon, <2>1, <2>2, <2>3, FwdStart, SomeKey
  <2> QED BY Zenon, <1>1, <1>3, <2>1, <2>2, <2>3, <2>4, <2>5, <2>6, <2>7
<1>4. CASE hop # 1
  <2>1. /\ Head(bwd[1]).arg = hop /\ key[hop] = <<hop, hop>> /\ ~ Negotiated
        /\ OutConn[hop - 1] = hop /\ Starts(bwd[1], "Extended")
    BY Zenon, <1>4, Heads DEF BwdHead, CreatedCells, ExtendedCells, BwdRest, Starts
  <2>2. hop - 1 \in Relays /\ hop > 1 /\ hop # 0
    BY <1>2, <1>4, NAssumption DEF Relays
  <2>3. \A h \in Relays : h < hop => OutConn[h] = h + 1
    <3>1. \A h \in Relays : h < hop => h < hop - 1 \/ (h = hop - 1 /\ hop = h + 1)
      BY <1>2, NAssumption DEF Relays
    <3> QED BY Zenon, <1>0, <2>1, <3>1 DEF ChainInv, ChainAt
  <2>4. \A h \in Relays : ~ Extending(h)
    <3>1. \A h \in Relays : hop = h + 1 => h = hop - 1
      BY NAssumption DEF Relays
    <3> QED BY Zenon, <1>0, <2>1, <2>2, <3>1 DEF ChainInv, ChainAt
  <2>5. \A h \in Relays : ~ Starts(fwd[h], "Extend")
    BY Zenon, <2>1, <2>2, FwdStart DEF Starts, CreateCells, FwdRest
  <2>6. \A h \in Relays : h # 1 => ~ Starts(bwd[h], "Extended")
    BY Zenon, <2>1 DEF CircInv, OneInv
  <2>7. fwd[1] = <<>> \/ closed[1] # {}
    <3>1. Joined(1)
      BY Zenon, <2>2 DEF Joined
    <3> QED BY Zenon, <2>1, <2>2, <3>1, FwdStart
  <2> QED BY Zenon, <1>1, <2>1, <2>3, <2>4, <2>5, <2>6, <2>7
<1> QED BY Zenon, <1>3, <1>4

(* The client takes the Created or Extended that it waits for, derives the *)
(* key of the hop, and asks the last relay it has a key of for the next    *)
(* one, or opens the circuit (the loop of buildCircuit).                   *)
LEMMA StepReply ==
    ASSUME CircInv, TypeInv', HandshakeReply
    PROVE  CircInv'
<1> USE EntryIsRelay
<1> DEFINE b == Head(bwd[1])
           wanted == IF hop = 1 THEN "Created" ELSE "Extended"
           c == Cell("Extend", Onion(clientKeys', hop), hop + 1)
<1>0. TypeOK /\ TypeOK' /\ KeysInv /\ ChainInv
  BY Zenon DEF CircInv, TypeInv, CoreInv
<1>1. /\ UNCHANGED <<key, OutConn, handler, target, jobs>>
      /\ phase = "wait" /\ bwd[1] # <<>> /\ bwd' = [bwd EXCEPT ![1] = Tail(@)]
  BY Zenon DEF HandshakeReply, extendVars, circVars, exitVars
<1>2. bwd'[1] = Tail(bwd[1]) /\ \A h \in Relays : h # 1 => bwd'[h] = bwd[h]
  BY ZenonT(40), <1>0, <1>1 DEF TypeOK
<1>3. CASE b.cmd # wanted
  <2>1. phase' = "closed" /\ closed' = CloseEnd(1, "up") /\ UNCHANGED <<hop, clientKeys, fwd>>
    BY Zenon, <1>3 DEF HandshakeReply
  <2>2. Calm
    <3>1. \A h \in Relays : closed[h] # {} => closed'[h] # {}
      BY Zenon, <1>0, <2>1, CloseGrows
    <3>2. \A h \in Relays : handler[h] = "none" => fwd'[h] = <<>>
      BY Zenon, <1>0, <2>1 DEF ChainInv, ChainAt
    <3> QED BY Zenon, <1>1, <2>1, <3>1, <3>2, CalmSame
  <2>3. \A h \in Relays : Quiet(h)
    BY Zenon, <1>1, <1>2, <2>1 DEF Quiet, Moves
  <2> QED BY Zenon, <2>2, <2>3, QuietStep
<1>4. CASE b.cmd = wanted
  <2>1. /\ b.arg = hop /\ key[hop] = <<hop, hop>> /\ ~ Negotiated
        /\ \A h \in Relays : h < hop => OutConn[h] = h + 1
        /\ \A h \in Relays : ~ (h < hop) => OutConn[h] = 0
        /\ \A h \in Relays : ~ Extending(h) /\ ~ Starts(fwd[h], "Extend")
        /\ \A h \in Relays : h # 1 => ~ Starts(bwd[h], "Extended")
        /\ fwd[1] = <<>> \/ closed[1] # {}
    BY Zenon, <1>1, <1>4, ReplyFacts
  <2>2. /\ clientKeys' = [clientKeys EXCEPT ![hop] = <<hop, hop>>] /\ closed' = closed
        /\ \/ hop = N /\ phase' = "open" /\ UNCHANGED <<hop, fwd>>
           \/ hop # N /\ hop' = hop + 1 /\ fwd' = Write(fwd, 1, c) /\ phase' = phase
    BY Zenon, <1>4, <2>1 DEF HandshakeReply, DeriveKey
  <2>3. /\ hop \in Relays /\ hop' \in Relays /\ clientKeys'[hop] = <<hop, hop>>
        /\ \A h \in Relays : h # hop => clientKeys'[h] = clientKeys[h]
    BY ZenonT(40), <1>0, <2>2 DEF TypeOK
  <2>4. /\ \A h \in Relays : h < hop => clientKeys[h] = <<h, h>> /\ key[h] = <<h, h>>
        /\ \A h \in Relays : h >= hop => clientKeys[h] = NoKey
    <3>1. \A h \in Relays : clientKeys[h] # NoKey /\ h >= hop => Negotiated
      BY Zenon, <1>0 DEF KeysInv, Negotiated
    <3> QED BY Zenon, <1>0, <2>1, <3>1 DEF KeysInv
  <2>5. Negotiated' <=> hop = N
    BY Zenon, <2>1, <2>3, SomeKey DEF Negotiated
  <2>6. handler[1] # "none"
    BY Zenon, <1>0, <1>1 DEF KeysInv
  <2>7. ASSUME hop # N PROVE c \in Cells /\ c \in ExtendCells(1)'
    <3>1. Onion(clientKeys', hop) = HonestOnion(1, hop) /\ HonestOnion(1, hop) \in Seq(KeySlots)
      <4>1. \A i \in 1..hop : i \in Relays /\ (i < hop \/ i = hop) /\ 1 <= hop
        BY <2>3, NAssumption DEF Relays
      <4>2. \A i \in 1..hop : clientKeys'[i] = <<i, i>>
        BY Zenon, <2>3, <2>4, <4>1, NAssumption DEF Relays
      <4>3. 1 <= hop
        BY <2>3 DEF Relays
      <4> QED BY Zenon, <2>3, <4>2, <4>3, OnionOfKeys, OnionPeel
    <3>2. hop + 1 \in 0..N /\ 1 < hop + 1 /\ hop + 1 - 1 = hop /\ ~ (hop < hop)
      BY <2>3, <2>7, NAssumption DEF Relays
    <3>3. c \in Cells
      BY Zenon, <3>1, <3>2, CellType DEF Commands
    <3>4. /\ c.cmd = "Extend" /\ c.arg = hop' /\ 1 < hop' /\ c.layers = HonestOnion(1, hop' - 1)
          /\ OutConn'[hop' - 1] = 0
      <4>0. hop' = hop + 1 /\ hop \in Int
        BY <2>2, <2>3, <2>7, NAssumption DEF Relays
      <4>1. hop' = hop + 1 /\ hop' - 1 = hop
        BY <4>0
      <4>2. c.cmd = "Extend" /\ c.arg = hop + 1 /\ c.layers = Onion(clientKeys', hop)
        BY Zenon DEF Cell
      <4>3. OutConn'[hop] = 0
        BY Zenon, <1>1, <2>1, <2>3, <3>2
      <4> HIDE DEF c
      <4> QED BY Zenon, <3>1, <3>2, <4>1, <4>2, <4>3
    <3>5. \A g \in Relays : ~ Extending(g)'
      BY Zenon, <1>1, <2>1 DEF Extending
    <3> QED BY Zenon, <2>5, <2>7, <3>3, <3>4, <3>5 DEF ExtendCells
  <2> HIDE DEF c
  <2>8. key[1] # NoKey
    <3>1. 1 < hop \/ hop = 1
      BY <2>3 DEF Relays
    <3> QED BY ZenonT(30), <2>1, <2>4, <3>1, SomeKey
  <2>9. ASSUME NEW g \in Relays
        PROVE  /\ FwdRest(g) \subseteq FwdRest(g)' /\ BwdRest(g) \subseteq BwdRest(g)'
               /\ fwd[g] # <<>> => Head(fwd[g]) \in FwdHead(g)'
               /\ bwd[g] # <<>> /\ g # 1 => Head(bwd[g]) \in BwdHead(g)'
    <3>1. FwdRest(g) \subseteq FwdRest(g)' /\ BwdRest(g) \subseteq BwdRest(g)'
      BY Zenon, <2>1, <2>2 DEF FwdRest, BwdRest
    <3>2. g # 1 => UNCHANGED Joined(g)
      BY Zenon, <1>1 DEF Joined
    <3>3. g # 1 => /\ CreateCells(g) \subseteq CreateCells(g)'
                   /\ CreatedCells(g) \subseteq CreatedCells(g)'
      BY Zenon, <1>1, <3>2 DEF CreateCells, CreatedCells
    <3>4. fwd[g] # <<>> => \/ Head(fwd[g]) \in CreateCells(g) /\ g # 1
                           \/ Head(fwd[g]) \in FwdRest(g)
      BY Zenon, <2>1, <2>8, FwdStart
    <3>5. bwd[g] # <<>> /\ g # 1 => Head(bwd[g]) \in CreatedCells(g) \/ Head(bwd[g]) \in BwdRest(g)
      BY Zenon, <2>1, BwdStart
    <3> QED BY Zenon, <3>1, <3>3, <3>4, <3>5 DEF FwdHead, BwdHead
  <2>10. /\ \A g \in Relays : g # 1 => fwd'[g] = fwd[g]
         /\ fwd'[1] = fwd[1] \/ (hop # N /\ fwd[1] = <<>> /\ fwd'[1] = Append(fwd[1], c))
    BY ZenonT(60), <1>0, <2>1, <2>2 DEF Write, TypeOK
  <2>11. CellInv'
    <3>1. ASSUME NEW g \in Relays PROVE FwdKept(g)
      <4>1. Moves(fwd[g], fwd'[g], FwdHead(g)', FwdRest(g)')
        <5>1. CASE fwd'[g] = fwd[g]
          BY Zenon, <5>1 DEF Moves
        <5>2. CASE g = 1 /\ hop # N /\ fwd[1] = <<>> /\ fwd'[1] = Append(fwd[1], c)
          BY Zenon, <2>7, <5>2 DEF Moves, FwdHead
        <5> QED BY Zenon, <2>10, <5>1, <5>2
      <4> QED BY Zenon, <2>9, <4>1 DEF FwdKept, Kept
    <3>2. ASSUME NEW g \in Relays PROVE BwdKept(g)
      <4>1. CASE g = 1
        BY Zenon, <1>1, <1>2, <2>9, <4>1 DEF BwdKept, Kept
      <4>2. CASE g # 1
        BY Zenon, <1>2, <2>9, <4>2 DEF BwdKept, Kept, Moves
      <4> QED BY Zenon, <4>1, <4>2
    <3> QED BY Zenon, <3>1, <3>2, CellStep
  <2>12. OneInv'
    <3>1. \A g \in Relays : Starts(fwd'[g], "Extend") => g = 1
      BY Zenon, <2>1, <2>10 DEF Starts
    <3>2. \A g \in Relays : ~ Starts(bwd'[g], "Extended")
      <4>1. ~ Starts(bwd'[1], "Extended")
        BY Zenon, <1>1, <1>2, StartGone
      <4> QED BY Zenon, <1>2, <2>1, <4>1 DEF Starts
    <3> QED BY Zenon, <3>1, <3>2 DEF OneInv
  <2>13. KeysInv'
    <3>1. ASSUME NEW g \in Relays
          PROVE  /\ key'[g] \in {NoKey, <<g, g>>}
                 /\ g < hop' => clientKeys'[g] = <<g, g>> /\ key'[g] = <<g, g>>
                 /\ g >= hop' /\ clientKeys'[g] # NoKey =>
                       g = N /\ hop' = N /\ clientKeys'[N] = <<N, N>> /\ key'[N] = <<N, N>>
      <4>1. /\ g < hop' => g < hop \/ (g = hop /\ hop # N)
            /\ g >= hop' => (g >= hop /\ g # hop) \/ (g = hop /\ hop' = hop /\ hop = N)
        BY <2>2, <2>3, NAssumption DEF Relays
      <4>2. key'[g] = key[g] /\ key[g] \in {NoKey, <<g, g>>}
        BY Zenon, <1>0, <1>1 DEF KeysInv
      <4> QED BY Zenon, <1>1, <2>1, <2>3, <2>4, <4>1, <4>2
    <3>2. phase' = "open" <=> Negotiated'
      BY Zenon, <1>1, <2>2, <2>5
    <3>3. ~ (jobs > 0)
      BY Zenon, <1>0, <2>1 DEF KeysInv
    <3> QED BY Zenon, <1>1, <2>2, <2>6, <3>1, <3>2, <3>3 DEF KeysInv
  <2>14. ChainInv'
    <3>1. ASSUME NEW g \in Relays PROVE ChainAt(g)'
      <4>1. ChainAt(g)
        BY Zenon, <1>0 DEF ChainInv
      <4>2. /\ g < hop => g < hop'
            /\ g < hop' - 1 => g < hop
            /\ Negotiated' /\ g < N => g < hop
        <5>1. hop \in Int /\ g \in Int
          BY <2>3, NAssumption DEF Relays
        <5>2. hop' = hop \/ hop' = hop + 1
          BY Zenon, <2>2
        <5> QED BY <2>5, <5>1, <5>2
      <4>3. /\ OutConn'[g] = OutConn[g] /\ handler'[g] = handler[g] /\ target'[g] = target[g]
            /\ key'[g] = key[g] /\ handler'[g + 1] = handler[g + 1] /\ ~ Extending(g)'
            /\ handler[g] # "await" /\ (handler[g] = "none" => fwd'[g] = fwd[g])
        BY Zenon, <1>1, <2>1, <2>6, <2>10 DEF Extending
      <4> QED BY Zenon, <2>1, <4>1, <4>2, <4>3 DEF ChainAt
    <3> QED BY Zenon, <3>1 DEF ChainInv
  <2> QED BY Zenon, <2>11, <2>12, <2>13, <2>14 DEF CircInv
<1> QED BY Zenon, <1>3, <1>4

-----------------------------------------------------------------------------
(* What the invariant is for.                                              *)

(* Before the client dials.                                                *)
LEMMA CircInit == Init => CircInv
<1> SUFFICES ASSUME Init PROVE CircInv
  BY Zenon
<1> USE EntryIsRelay
<1>1. TypeInv
  BY Zenon, TypeInit
<1>2. /\ \A h \in Relays : /\ key[h] = NoKey /\ clientKeys[h] = NoKey /\ OutConn[h] = 0
                           /\ handler[h] = "none" /\ target[h] = 0
                           /\ fwd[h] = <<>> /\ bwd[h] = <<>>
      /\ phase = "idle" /\ hop = 1 /\ jobs = 0
  BY Zenon DEF Init
<1>3. \A h \in Relays : ~ (h < 1) /\ ~ (h < 1 - 1)
  BY NAssumption DEF Relays
<1>4. ~ Negotiated
  BY Zenon, <1>2 DEF Negotiated
<1>5. KeysInv
  BY <1>2, <1>3, <1>4 DEF KeysInv
<1>6. ChainInv
  BY Zenon, <1>2, <1>3, <1>4 DEF ChainInv, ChainAt, Extending
<1>7. CellInv
  BY <1>2 DEF CellInv, Within
<1>8. OneInv
  BY Zenon, <1>2 DEF OneInv, Starts
<1> QED BY Zenon, <1>1, <1>5, <1>6, <1>7, <1>8 DEF CircInv

(* A step that changes nothing.                                            *)
LEMMA CircStutter == CircInv /\ UNCHANGED vars => CircInv'
<1> SUFFICES ASSUME CircInv, UNCHANGED vars PROVE CircInv'
  BY Zenon
<1>1. /\ UNCHANGED <<hop, clientKeys, key, OutConn, handler, target, phase, fwd, bwd, closed, jobs>>
  BY Zenon DEF vars, clientVars, connVars, extendVars, circVars, exitVars
<1>2. TypeInv'
  BY Zenon, TypeStutter DEF CircInv
<1>3. Calm
  <2>1. \A h \in Relays : handler[h] = "none" => fwd'[h] = <<>>
    BY Zenon, <1>1 DEF CircInv, ChainInv, ChainAt
  <2> QED BY Zenon, <1>1, <2>1, CalmSame
<1>4. \A h \in Relays : Quiet(h)
  BY Zenon, <1>1 DEF Quiet, Moves
<1> QED BY Zenon, <1>2, <1>3, <1>4, QuietStep

(* Every step keeps the invariant.                                         *)
LEMMA CircStep == CircInv /\ [Next]_vars => CircInv'
<1> SUFFICES ASSUME CircInv, [Next]_vars PROVE CircInv'
  BY Zenon
<1>0. TypeInv'
  BY Zenon, TypeStep DEF CircInv
<1>1. CASE Client
  BY Zenon, <1>0, <1>1, StepDial, StepReply, QuietClient DEF Client
<1>2. CASE Exit
  BY Zenon, <1>0, <1>2, QuietExit
<1>3. ASSUME NEW h \in Relays, HandleConn(h) PROVE CircInv'
  BY Zenon, <1>0, <1>3, StepCreate, StepForwardExtend, StepStartExtend, QuietRelay,
     QuietDestroy, QuietEnds, StepExtendDialed, StepExtendCreated DEF HandleConn
<1>4. ASSUME NEW h \in Relays, Forwarder(h) \/ Idle(h) \/ Sweep(h) \/ ConnLost(h)
      PROVE  CircInv'
  BY Zenon, <1>0, <1>4, StepForwardCells, QuietEnds, QuietDestroy DEF Forwarder, Sweep
<1>5. CASE UNCHANGED vars
  BY Zenon, <1>5, CircStutter
<1> QED BY Zenon, <1>1, <1>2, <1>3, <1>4, <1>5 DEF Next

(* The invariant holds in every reachable state.                           *)
LEMMA CircAlways == Spec => []CircInv
BY CircInit, CircStep, PTL DEF Spec

(* Client and relays agree on every session key the client has taken, for  *)
(* a path of any length and whatever is lost, times out or is swept while  *)
(* buildCircuitOnConn telescopes: the public key that comes back in        *)
(* Created or Extended is that of the relay the ephemeral key was made     *)
(* for.                                                                    *)
THEOREM KeysAgree == Spec => []KeyAgreement
<1>1. ASSUME CircInv, NEW h \in Relays, clientKeys[h] # NoKey
      PROVE  key[h] = clientKeys[h]
  <2>1. hop \in Relays /\ (h < hop \/ h >= hop)
    BY <1>1, NAssumption DEF CircInv, TypeInv, CoreInv, TypeOK, Relays
  <2> QED BY Zenon, <1>1, <2>1 DEF CircInv, KeysInv
<1>2. CircInv => KeyAgreement
  BY Zenon, <1>1 DEF KeyAgreement
<1> QED BY <1>2, CircAlways, PTL

(* Every encrypted cell in flight, in either direction, wears exactly the  *)
(* layers the hops still ahead of it peel, for a path of any length: no    *)
(* Decrypt in handleCell or sendRequest fails on an honest path.           *)
THEOREM OnionsIntact == Spec => []OnionIntact
<1>1. ASSUME CircInv, NEW h \in Relays, NEW c \in InFlight(fwd, h)
      PROVE  /\ c.cmd = "Extend" => c.arg > h /\ c.layers = Layers(h, c.arg - 1)
             /\ c.cmd = "Relay" => c.layers = Layers(h, N)
  <2>1. c \in FwdHead(h)
    BY Zenon, <1>1 DEF InFlight, CircInv, CellInv, Within, FwdHead
  <2>2. ASSUME c.cmd = "Extend" PROVE c.arg > h /\ c.layers = Layers(h, c.arg - 1)
    <3>1. c.arg = hop /\ h < hop /\ c.layers = HonestOnion(h, hop - 1)
      BY Zenon, <2>1, <2>2 DEF FwdHead, FwdRest, CreateCells, ExtendCells
    <3>2. hop \in Relays
      BY Zenon, <1>1 DEF CircInv, TypeInv, CoreInv, TypeOK
    <3>3. hop - 1 \in Relays /\ hop > h /\ \A g \in Relays : g <= hop - 1 => g < hop
      BY <3>1, <3>2, NAssumption DEF Relays
    <3>4. \A g \in Relays : g >= h /\ g <= hop - 1 => key[g] = <<g, g>>
      BY Zenon, <1>1, <3>3 DEF CircInv, KeysInv
    <3> QED BY Zenon, <3>1, <3>3, <3>4, LayersHonest
  <2>3. ASSUME c.cmd = "Relay" PROVE c.layers = Layers(h, N)
    <3>1. Negotiated /\ c.layers = HonestOnion(h, N)
      BY Zenon, <2>1, <2>3 DEF FwdHead, FwdRest, CreateCells, ExtendCells
    <3> QED BY Zenon, <1>1, <3>1, AllKeys, EntryIsRelay, LayersHonest
  <2> QED BY Zenon, <2>2, <2>3
<1>2. ASSUME CircInv, NEW h \in Relays, NEW c \in InFlight(bwd, h),
             c.cmd \in {"Relay", "RelayDone"}
      PROVE  c.layers = Layers(h, N)
  <2>1. c \in BwdHead(h)
    BY Zenon, <1>2 DEF InFlight, CircInv, CellInv, Within, BwdHead
  <2>2. Negotiated /\ c.layers = HonestOnion(h, N)
    BY Zenon, <1>2, <2>1 DEF BwdHead, BwdRest, CreatedCells, ExtendedCells
  <2> QED BY Zenon, <1>2, <2>2, AllKeys, EntryIsRelay, LayersHonest
<1>3. CircInv => OnionIntact
  BY Zenon, <1>1, <1>2 DEF OnionIntact
<1> QED BY <1>3, CircAlways, PTL

(* The circuit telescopes, for a path of any length: a relay is only ever  *)
(* joined to the next hop, by an Extend meant for that hop, and the hops   *)
(* whose keys the client holds form an unbroken chain of OutConns.         *)
THEOREM TelescopeInOrder == Spec => []TelescopeOrder
<1>1. ASSUME CircInv, NEW h \in Relays
      PROVE  /\ target[h] # 0 => target[h] = h + 1
             /\ OutConn[h] # 0 => OutConn[h] = h + 1
             /\ clientKeys[h] # NoKey => \A i \in 1..(h - 1) : OutConn[i] = i + 1
  <2>1. ChainInv /\ KeysInv /\ hop \in Relays
    BY Zenon, <1>1 DEF CircInv, TypeInv, CoreInv, TypeOK
  <2>2. /\ target[h] # 0 => target[h] = h + 1
        /\ OutConn[h] # 0 => OutConn[h] = h + 1
    BY Zenon, <2>1 DEF ChainInv, ChainAt
  <2>3. ASSUME clientKeys[h] # NoKey, NEW i \in 1..(h - 1)
        PROVE  OutConn[i] = i + 1
    <3>1. i \in Relays /\ i < h /\ (h < hop \/ h >= hop)
      BY <2>1, NAssumption DEF Relays
    <3>2. CASE h < hop
      <4>1. i < hop - 1
        BY <2>1, <3>1, <3>2, NAssumption DEF Relays
      <4> QED BY Zenon, <2>1, <3>1, <4>1 DEF ChainInv, ChainAt
    <3>3. CASE h >= hop
      <4>1. h = N /\ Negotiated
        BY Zenon, <2>1, <2>3, <3>3 DEF KeysInv, Negotiated
      <4> QED BY Zenon, <2>1, <3>1, <4>1 DEF ChainInv, ChainAt
    <3> QED BY Zenon, <3>1, <3>2, <3>3
  <2> QED BY Zenon, <2>2, <2>3
<1>2. CircInv => TelescopeOrder
  BY Zenon, <1>1 DEF TelescopeOrder
<1> QED BY <1>2, CircAlways, PTL

-----------------------------------------------------------------------------
(* What escapes the idle sweeper.                                          *)

Tracked(h) == lastSeen[h] # "absent" \/ sweeper[h] = "expired" \/ h \in overtaken

(* The first cell a relay reads is the Create: until it has a key, only    *)
(* the handling of that cell has touched the tracker.                      *)
FirstCell(h) == key[h] = NoKey /\ fwd[h] # <<>> => Head(fwd[h]).cmd = "Create"

Untouched(h) ==
    key[h] = NoKey =>
        Handles(h, "Create") \/ (lastSeen[h] = "absent" /\ sweeper[h] = "asleep")

NextHasKey(h) == OutConn[h] # 0 => key[h + 1] # NoKey

(* Which circuits are tracked, in the table or about to be; and what the   *)
(* two callers of destroyCircuit know of it between its two locks.         *)
TrackAt(h) ==
    /\ h \in circuits \/ Handles(h, "Create") => Tracked(h)
    /\ handler[h] = "remove" => h \notin circuits
    /\ sweeper[h] = "remove" =>
          h \in overtaken \/ (h \notin circuits /\ ~ Handles(h, "Create"))

SweepInv ==
    /\ CircInv
    /\ \A h \in Relays : FirstCell(h) /\ Untouched(h) /\ NextHasKey(h) /\ TrackAt(h)

(* Only HandleCreate gives a relay a key, and nothing takes it back.       *)
LEMMA KeyStep ==
    ASSUME CircInv, Next, NEW g \in Relays
    PROVE  /\ ~ HandleCreate(g) => key'[g] = key[g]
           /\ HandleCreate(g) => key'[g] # NoKey
<1>a. TypeOK /\ HandOK
  BY Zenon DEF CircInv, TypeInv, CoreInv
<1>1. ASSUME NEW h \in Relays, HandleCreate(h)
      PROVE  key'[h] # NoKey /\ \A i \in Relays : i # h => key'[i] = key[i]
  <2>1. key' = [key EXCEPT ![h] = <<Head(fwd[h]).arg, h>>]
    BY Zenon, <1>1 DEF HandleCreate, DeriveKey
  <2>2. Head(fwd[h]).arg \in 0..N
    <3>1. fwd[h] # <<>>
      BY Zenon, <1>a, <1>1 DEF HandleCreate, Handles, HandOK
    <3> QED BY Zenon, <1>a, <3>1, TakeType DEF TypeOK, Cells
  <2>3. h \in 0..N
    BY DEF Relays
  <2>4. <<Head(fwd[h]).arg, h>> # NoKey
    <3>1. <<Head(fwd[h]).arg, h>> \in (0..N) \X (0..N)
      BY Zenon, <2>2, <2>3
    <3> QED BY Zenon, <3>1, NoKeyAssumption
  <2> QED BY Zenon, <1>a, <2>1, <2>4 DEF TypeOK
<1>2. CASE \E h \in Relays : HandleCreate(h)
  <2>1. PICK h \in Relays : HandleCreate(h)
    BY Zenon, <1>2
  <2> QED BY Zenon, <1>1, <2>1
<1>3. CASE ~ \E h \in Relays : HandleCreate(h)
  <2>1. key' = key
    <3>1. CASE Client \/ Exit \/ (Quiescent /\ UNCHANGED vars)
      BY Zenon, <3>1 DEF Client, Dial, HandshakeReply, HandshakeFails, SendRequest,
             ReadResponse, ResponseEnds, Close, Exit, ExitChunk, ExitDone, vars, circVars
    <3>2. ASSUME NEW h \in Relays, HandleConn(h), ~ HandleCreate(h) PROVE key' = key
      BY Zenon, <3>2 DEF HandleConn, ReadCell, ForwardExtend, StartExtend, HandleRelay,
             HandleDestroy, DestroyEnds, ConnEnds, ExtendDialed, ExtendDialFails,
             ExtendCreated, ExtendFails, circVars
    <3>3. ASSUME NEW h \in Relays, Forwarder(h) \/ Idle(h) \/ Sweep(h) \/ ConnLost(h)
          PROVE  key' = key
      BY Zenon, <3>3 DEF Forwarder, forwardCells, ForwarderEnds, Idle, Sweep,
             SweepCollect, SweepDestroy, SweepEnds, ConnLost, circVars
    <3> QED BY Zenon, <1>3, <3>1, <3>2, <3>3 DEF Next
  <2> QED BY Zenon, <1>3, <2>1
<1> QED BY Zenon, <1>2, <1>3

(* A relay that handles a Create goes on handling it until HandleCreate    *)
(* has inserted the circuit.                                               *)
LEMMA CreateHeld ==
    ASSUME CircInv, Next, NEW g \in Relays, ~ ReadCell(g), ~ HandleCreate(g)
    PROVE  Handles(g, "Create")' <=> Handles(g, "Create")
<1>a. TypeInv /\ TypeOK /\ HandOK /\ KeysInv /\ fwd[g] \in Seq(Cells)
  BY Zenon DEF CircInv, TypeInv, CoreInv, TypeOK
<1>1. ASSUME handler'[g] = "handle"
      PROVE  handler[g] = "handle" /\ Head(fwd'[g]) = Head(fwd[g])
  <2>1. handler[g] = "handle" /\ Holds(fwd[g], fwd'[g])
    BY Zenon, <1>a, <1>1, HandKept
  <2>2. fwd[g] # <<>>
    BY Zenon, <1>a, <2>1 DEF HandOK
  <2> QED BY Zenon, <1>a, <2>1, <2>2, HoldsHead
<1>2. ASSUME Handles(g, "Create") PROVE handler'[g] = "handle"
  <2>1. handler[g] = "handle" /\ Head(fwd[g]).cmd = "Create"
    BY Zenon, <1>2 DEF Handles
  <2>2. CASE Client
    <3>1. handler' = handler \/ (phase = "idle" /\ handler' = [handler EXCEPT ![1] = "read"])
      BY Zenon, <2>2 DEF Client, Dial, HandshakeReply, HandshakeFails, SendRequest,
             ReadResponse, ResponseEnds, Close, extendVars
    <3> QED BY Zenon, <1>a, <2>1, <3>1 DEF KeysInv, TypeOK
  <2>3. CASE Exit \/ (Quiescent /\ UNCHANGED vars)
    BY Zenon, <2>1, <2>3 DEF Exit, ExitChunk, ExitDone, vars, extendVars
  <2>4. ASSUME NEW h \in Relays, HandleConn(h) PROVE handler'[g] = "handle"
    <3>1. CASE g = h
      <4>1. ConnEnds(h) \/ DestroyEnds(h) => handler[h] \in {"read", "remove"}
        BY Zenon DEF ConnEnds, DestroyEnds
      <4>2. ExtendDialed(h) \/ ExtendDialFails(h) \/ ExtendCreated(h) \/ ExtendFails(h)
              => handler[h] \in {"dial", "await"}
        BY Zenon DEF ExtendDialed, ExtendDialFails, ExtendCreated, ExtendFails
      <4>3. ForwardExtend(h) \/ StartExtend(h) \/ HandleRelay(h) \/ HandleDestroy(h)
              => Head(fwd[h]).cmd \in {"Extend", "Relay", "Destroy"}
        BY Zenon DEF ForwardExtend, StartExtend, HandleRelay, HandleDestroy, Handles
      <4> QED BY Zenon, <2>1, <2>4, <3>1, <4>1, <4>2, <4>3 DEF HandleConn
    <3>2. CASE g # h
      <4>1. CASE ExtendDialed(h)
        BY Zenon, <1>a, <2>1, <3>2, <4>1 DEF ExtendDialed, TypeOK
      <4>2. CASE ~ ExtendDialed(h)
        <5>1. \E e : handler' = [handler EXCEPT ![h] = e]
          BY Zenon, <2>4, <4>2 DEF HandleConn, ReadCell, HandleCreate, ForwardExtend,
                 StartExtend, HandleRelay, HandleDestroy, DestroyEnds, ConnEnds,
                 ExtendDialFails, ExtendCreated, ExtendFails, Reads
        <5> QED BY Zenon, <1>a, <2>1, <3>2, <5>1 DEF TypeOK
      <4> QED BY Zenon, <4>1, <4>2
    <3> QED BY Zenon, <3>1, <3>2
  <2>5. ASSUME NEW h \in Relays, Forwarder(h) \/ Idle(h) \/ Sweep(h) \/ ConnLost(h)
        PROVE  handler'[g] = "handle"
    BY Zenon, <2>1, <2>5 DEF Forwarder, forwardCells, ForwarderEnds, Idle, Sweep,
           SweepCollect, SweepDestroy, SweepEnds, ConnLost, extendVars
  <2> QED BY Zenon, <2>2, <2>3, <2>4, <2>5 DEF Next
<1> QED BY Zenon, <1>1, <1>2 DEF Handles

(* What may be written to a relay that has no key yet: nothing but the     *)
(* Create, by whoever dials it.                                            *)
LEMMA FirstWrite ==
    ASSUME SweepInv, Next, NEW g \in Relays, key[g] = NoKey, ~ HandleCreate(g)
    PROVE  \/ fwd'[g] = fwd[g] \/ fwd'[g] = <<>>
           \/ fwd'[g] = <<Head(fwd[g])>> /\ fwd[g] # <<>>
           \/ fwd'[g] = Append(fwd[g], Cell("Create", <<>>, g))
<1> USE EntryIsRelay
<1>a. CircInv /\ TypeOK /\ HandOK /\ KeysInv /\ FirstCell(g)
  BY Zenon DEF SweepInv, CircInv, TypeInv, CoreInv
<1>b. \A h \in Relays : OutConn[h] # g
  <2>1. ASSUME NEW h \in Relays, OutConn[h] = g PROVE FALSE
    <3>1. OutConn[h] # 0
      BY <2>1 DEF Relays
    <3>2. OutConn[h] = h + 1
      BY Zenon, <1>a, <3>1, NextOfChain
    <3> QED BY Zenon, <2>1, <3>1, <3>2 DEF SweepInv, NextHasKey
  <2> QED BY Zenon, <2>1
<1>c. ~ Negotiated /\ ~ (g < hop)
  BY Zenon, <1>a, AllKeys, SomeKey DEF KeysInv
<1>d. \A cmd \in Commands : Handles(g, cmd) => cmd = "Create"
  BY Zenon, <1>a DEF FirstCell, Handles, HandOK
<1>1. CASE Client
  <2>1. CASE Dial
    BY Zenon, <1>a, <2>1 DEF Dial, Write, TypeOK
  <2>2. CASE HandshakeReply
    <3>1. CASE Head(bwd[1]).cmd = (IF hop = 1 THEN "Created" ELSE "Extended")
      <4>1. key[hop] = <<hop, hop>> /\ hop \in Relays
        BY Zenon, <1>a, <2>2, <3>1, ReplyFacts DEF HandshakeReply, TypeOK
      <4>2. 1 < hop \/ 1 = hop
        BY <4>1, NAssumption DEF Relays
      <4>3. g # 1
        BY Zenon, <1>c, <4>1, <4>2, SomeKey
      <4>4. fwd' = fwd \/ \E c : fwd' = Write(fwd, 1, c)
        BY Zenon, <2>2 DEF HandshakeReply
      <4> QED BY Zenon, <1>a, <4>3, <4>4 DEF Write, TypeOK
    <3>2. CASE Head(bwd[1]).cmd # (IF hop = 1 THEN "Created" ELSE "Extended")
      BY Zenon, <2>2, <3>2 DEF HandshakeReply
    <3> QED BY Zenon, <3>1, <3>2
  <2>3. CASE SendRequest \/ Close
    BY Zenon, <1>a, <1>c, <2>3 DEF SendRequest, Close, KeysInv
  <2>4. CASE HandshakeFails \/ ReadResponse \/ ResponseEnds
    BY Zenon, <2>4 DEF HandshakeFails, ReadResponse, ResponseEnds, connVars
  <2> QED BY Zenon, <1>1, <2>1, <2>2, <2>3, <2>4 DEF Client
<1>2. CASE Exit \/ (Quiescent /\ UNCHANGED vars)
  BY Zenon, <1>2 DEF Exit, ExitChunk, ExitDone, vars, connVars
<1>3. ASSUME NEW h \in Relays, HandleConn(h)
      PROVE  fwd'[g] = fwd[g] \/ fwd'[g] = Append(fwd[g], Cell("Create", <<>>, g))
  <2>1. CASE ForwardExtend(h) \/ HandleRelay(h)
    <3>1. h # g
      BY Zenon, <1>d, <2>1 DEF ForwardExtend, HandleRelay, Handles, Commands
    <3>2. fwd' = Taken(h) \/ \E c : fwd' = TakenAndForwarded(h, c)
      BY Zenon, <2>1 DEF ForwardExtend, HandleRelay
    <3> QED BY Zenon, <1>a, <1>b, <3>1, <3>2 DEF Taken, TakenAndForwarded, TypeOK
  <2>2. CASE StartExtend(h)
    <3>1. h # g
      BY Zenon, <1>d, <2>2 DEF StartExtend, Handles, Commands
    <3> QED BY Zenon, <1>a, <2>2, <3>1 DEF StartExtend, Taken, TypeOK
  <2>3. CASE HandleDestroy(h)
    <3>1. h # g
      BY Zenon, <1>d, <2>3 DEF HandleDestroy, Handles, Commands
    <3> QED BY Zenon, <1>a, <1>b, <2>3, <3>1 DEF HandleDestroy, destroyCircuit, Taken, TypeOK
  <2>4. CASE HandleCreate(h)
    BY Zenon, <1>a, <2>4 DEF HandleCreate, Taken, TypeOK
  <2>5. CASE ExtendDialed(h)
    BY Zenon, <1>a, <2>5 DEF ExtendDialed, Write, TypeOK
  <2>6. CASE ReadCell(h) \/ DestroyEnds(h) \/ ConnEnds(h) \/ ExtendDialFails(h)
             \/ ExtendCreated(h) \/ ExtendFails(h)
    BY Zenon, <2>6 DEF ReadCell, DestroyEnds, ConnEnds, ExtendDialFails, ExtendCreated,
           ExtendFails, connVars
  <2> QED BY Zenon, <1>3, <2>1, <2>2, <2>3, <2>4, <2>5, <2>6 DEF HandleConn
<1>4. ASSUME NEW h \in Relays, Forwarder(h) \/ Idle(h) \/ Sweep(h)
      PROVE  fwd'[g] = fwd[g]
  <2>1. CASE SweepDestroy(h)
    BY Zenon, <1>a, <1>b, <2>1 DEF SweepDestroy, destroyCircuit, TypeOK
  <2>2. CASE Forwarder(h) \/ Idle(h) \/ SweepCollect(h) \/ SweepEnds(h)
    BY Zenon, <2>2 DEF Forwarder, forwardCells, ForwarderEnds, Idle, SweepCollect,
           SweepEnds, connVars
  <2> QED BY Zenon, <1>4, <2>1, <2>2 DEF Sweep
<1>5. ASSUME NEW h \in Relays, ConnLost(h)
      PROVE  \/ fwd'[g] = fwd[g] \/ fwd'[g] = <<>>
             \/ fwd'[g] = <<Head(fwd[g])>> /\ fwd[g] # <<>>
  BY Zenon, <1>a, <1>5 DEF ConnLost, HandOK, TypeOK
<1> QED BY Zenon, <1>1, <1>2, <1>3, <1>4, <1>5 DEF Next

(* So the first cell a relay handles is a Create.                          *)
LEMMA FirstStep ==
    ASSUME SweepInv, Next, NEW g \in Relays
    PROVE  FirstCell(g)'
<1>a. CircInv /\ FirstCell(g) /\ fwd[g] \in Seq(Cells)
  BY Zenon DEF SweepInv, CircInv, TypeInv, CoreInv, TypeOK
<1> SUFFICES ASSUME key'[g] = NoKey, fwd'[g] # <<>> PROVE Head(fwd'[g]).cmd = "Create"
  BY Zenon DEF FirstCell
<1>1. key[g] = NoKey /\ ~ HandleCreate(g)
  BY Zenon, <1>a, KeyStep
<1>2. CASE fwd'[g] = fwd[g] \/ fwd'[g] = <<>>
  BY Zenon, <1>a, <1>1, <1>2 DEF FirstCell
<1>3. CASE fwd'[g] = <<Head(fwd[g])>> /\ fwd[g] # <<>>
  BY Zenon, <1>a, <1>1, <1>3, HoldsHead DEF FirstCell, Holds
<1>4. CASE fwd'[g] = Append(fwd[g], Cell("Create", <<>>, g))
  <2> DEFINE c == Cell("Create", <<>>, g)
  <2>1. c.cmd = "Create"
    BY DEF Cell
  <2> HIDE DEF c
  <2>2. CASE fwd[g] = <<>>
    <3>1. Head(Append(<<>>, c)) = c
      OBVIOUS
    <3> QED BY Zenon, <1>4, <2>1, <2>2, <3>1 DEF c
  <2>3. CASE fwd[g] # <<>>
    BY Zenon, <1>a, <1>1, <1>4, <2>3, HoldsHead DEF FirstCell, Holds
  <2> QED BY Zenon, <2>2, <2>3
<1> QED BY Zenon, <1>1, <1>2, <1>3, <1>4, FirstWrite

(* OutConn is set when the next hop has answered, so has derived its key.  *)
LEMMA NextStep ==
    ASSUME SweepInv, Next, NEW g \in Relays
    PROVE  NextHasKey(g)'
<1>a. CircInv /\ TypeOK /\ ChainInv /\ NextHasKey(g)
  BY Zenon DEF SweepInv, CircInv, TypeInv, CoreInv
<1> SUFFICES ASSUME OutConn'[g] # 0 PROVE key'[g + 1] # NoKey
  BY Zenon DEF NextHasKey
<1>1. CASE OutConn[g] # 0
  <2>1. g + 1 \in Relays /\ key[g + 1] # NoKey
    BY Zenon, <1>a, <1>1, NextOfChain DEF NextHasKey
  <2> QED BY Zenon, <1>a, <2>1, KeyStep
<1>2. CASE OutConn[g] = 0
  <2>1. ExtendCreated(g) /\ Head(bwd[target[g]]).cmd = "Created"
    <3>1. CASE Client \/ Exit \/ (Quiescent /\ UNCHANGED vars)
      BY Zenon, <1>2, <3>1 DEF Client, Dial, HandshakeReply, HandshakeFails, SendRequest,
             ReadResponse, ResponseEnds, Close, Exit, ExitChunk, ExitDone, vars, circVars
    <3>2. ASSUME NEW h \in Relays, HandleConn(h)
          PROVE  ExtendCreated(g) /\ Head(bwd[target[g]]).cmd = "Created"
      <4>1. ExtendCreated(h)
        BY Zenon, <1>2, <3>2 DEF HandleConn, ReadCell, HandleCreate, ForwardExtend,
               StartExtend, HandleRelay, HandleDestroy, DestroyEnds, ConnEnds,
               ExtendDialed, ExtendDialFails, ExtendFails, circVars
      <4>2. \/ OutConn' = OutConn
            \/ /\ Head(bwd[target[h]]).cmd = "Created"
               /\ OutConn' = [OutConn EXCEPT ![h] = target[h]]
        BY Zenon, <4>1 DEF ExtendCreated
      <4> QED BY Zenon, <1>a, <1>2, <4>1, <4>2 DEF TypeOK
    <3>3. ASSUME NEW h \in Relays, Forwarder(h) \/ Idle(h) \/ Sweep(h) \/ ConnLost(h)
          PROVE  FALSE
      BY Zenon, <1>2, <3>3 DEF Forwarder, forwardCells, ForwarderEnds, Idle, Sweep,
             SweepCollect, SweepDestroy, SweepEnds, ConnLost, circVars
    <3> QED BY Zenon, <3>1, <3>2, <3>3 DEF Next
  <2>2. target[g] = g + 1 /\ target[g] \in Relays
    <3>1. Extending(g)
      BY Zenon, <2>1 DEF ExtendCreated, Extending
    <3>2. target[g] = g + 1 /\ hop = g + 1
      BY Zenon, <1>a, <3>1 DEF ChainInv, ChainAt
    <3> QED BY Zenon, <1>a, <3>2 DEF TypeOK
  <2>3. key[g + 1] # NoKey
    <3>1. Head(bwd[g + 1]) \in BwdHead(g + 1) /\ Head(bwd[g + 1]).cmd = "Created"
      BY Zenon, <1>a, <2>1, <2>2, Heads DEF ExtendCreated
    <3>2. Head(bwd[g + 1]) \in CreatedCells(g + 1)
      BY Zenon, <3>1 DEF BwdHead, ExtendedCells, BwdRest
    <3> QED BY Zenon, <2>2, <3>2, SomeKey DEF CreatedCells
  <2> QED BY Zenon, <1>a, <2>2, <2>3, KeyStep
<1> QED BY Zenon, <1>1, <1>2

(* A step that leaves the tracker alone, and puts no circuit in the table. *)
Untracked(g) ==
    /\ lastSeen'[g] = lastSeen[g] /\ sweeper'[g] = sweeper[g]
    /\ overtaken \subseteq overtaken'
    /\ g \in circuits' => g \in circuits
    /\ handler'[g] = "remove" => handler[g] = "remove"

(* Only g's own handler and sweeper take other steps.                      *)
LEMMA TrackCases ==
    ASSUME SweepInv, Next, NEW g \in Relays
    PROVE  \/ Untracked(g)
           \/ ReadCell(g) \/ HandleCreate(g) \/ HandleDestroy(g) \/ DestroyEnds(g)
           \/ Idle(g) \/ SweepCollect(g) \/ SweepDestroy(g) \/ SweepEnds(g)
<1>a. TypeOK
  BY Zenon DEF SweepInv, CircInv, TypeInv, CoreInv
<1>1. CASE Client \/ Exit \/ (Quiescent /\ UNCHANGED vars)
  <2>1. UNCHANGED <<lastSeen, sweeper, overtaken, circuits>>
    BY Zenon, <1>1 DEF Client, Dial, HandshakeReply, HandshakeFails, SendRequest,
           ReadResponse, ResponseEnds, Close, Exit, ExitChunk, ExitDone, vars, circVars,
           idleVars
  <2>2. handler' = handler \/ handler' = [handler EXCEPT ![1] = "read"]
    BY Zenon, <1>1 DEF Client, Dial, HandshakeReply, HandshakeFails, SendRequest,
           ReadResponse, ResponseEnds, Close, Exit, ExitChunk, ExitDone, vars, extendVars
  <2> QED BY Zenon, <1>a, <2>1, <2>2 DEF Untracked, TypeOK
<1>2. ASSUME NEW h \in Relays, HandleConn(h), h # g PROVE Untracked(g)
  <2>1. UNCHANGED <<sweeper, overtaken>>
    BY Zenon, <1>2 DEF HandleConn, ReadCell, HandleCreate, ForwardExtend, StartExtend,
           HandleRelay, HandleDestroy, DestroyEnds, ConnEnds, ExtendDialed,
           ExtendDialFails, ExtendCreated, ExtendFails, idleVars
  <2>2. lastSeen' = lastSeen \/ \E e : lastSeen' = [lastSeen EXCEPT ![h] = e]
    BY Zenon, <1>2 DEF HandleConn, ReadCell, HandleCreate, ForwardExtend, StartExtend,
           HandleRelay, HandleDestroy, DestroyEnds, ConnEnds, ExtendDialed,
           ExtendDialFails, ExtendCreated, ExtendFails, idleVars, Touch, Remove
  <2>3. circuits' = circuits \/ circuits' = circuits \cup {h} \/ circuits' = circuits \ {h}
    BY Zenon, <1>2 DEF HandleConn, ReadCell, HandleCreate, ForwardExtend, StartExtend,
           HandleRelay, HandleDestroy, DestroyEnds, ConnEnds, ExtendDialed,
           ExtendDialFails, ExtendCreated, ExtendFails, circVars, destroyCircuit
  <2>4. handler'[g] = "remove" => handler[g] = "remove"
    <3>1. CASE ExtendDialed(h)
      BY Zenon, <1>a, <1>2, <3>1 DEF ExtendDialed, TypeOK
    <3>2. CASE ~ ExtendDialed(h)
      <4>1. \E e : handler' = [handler EXCEPT ![h] = e]
        BY Zenon, <1>2, <3>2 DEF HandleConn, ReadCell, HandleCreate, ForwardExtend,
               StartExtend, HandleRelay, HandleDestroy, DestroyEnds, ConnEnds,
               ExtendDialFails, ExtendCreated, ExtendFails, Reads
      <4> QED BY Zenon, <1>a, <1>2, <4>1 DEF TypeOK
    <3> QED BY Zenon, <3>1, <3>2
  <2> QED BY Zenon, <1>a, <1>2, <2>1, <2>2, <2>3, <2>4 DEF Untracked, TypeOK
<1>3. ASSUME HandleConn(g), ~ ReadCell(g), ~ HandleCreate(g), ~ HandleDestroy(g),
             ~ DestroyEnds(g)
      PROVE  Untracked(g)
  <2>1. UNCHANGED <<lastSeen, sweeper, overtaken, circuits>>
    BY Zenon, <1>3 DEF HandleConn, ForwardExtend, StartExtend, HandleRelay, ConnEnds,
           ExtendDialed, ExtendDialFails, ExtendCreated, ExtendFails, idleVars, circVars
  <2>2. handler'[g] # "remove"
    <3>1. CASE ExtendDialed(g)
      BY Zenon, <1>a, <3>1 DEF ExtendDialed, TypeOK
    <3>2. CASE ~ ExtendDialed(g)
      <4>1. \E e \in {"read", "dial", "gone"} : handler' = [handler EXCEPT ![g] = e]
        BY Zenon, <1>3, <3>2 DEF HandleConn, ForwardExtend, StartExtend, HandleRelay,
               ConnEnds, ExtendDialFails, ExtendCreated, ExtendFails, Reads
      <4> QED BY Zenon, <1>a, <4>1 DEF TypeOK
    <3> QED BY Zenon, <3>1, <3>2
  <2> QED BY Zenon, <2>1, <2>2 DEF Untracked
<1>4. ASSUME NEW h \in Relays, Forwarder(h) \/ ConnLost(h) PROVE Untracked(g)
  BY Zenon, <1>4 DEF Forwarder, forwardCells, ForwarderEnds, ConnLost, Untracked, idleVars,
         circVars, extendVars
<1>5. ASSUME NEW h \in Relays, Idle(h) \/ Sweep(h), h # g PROVE Untracked(g)
  <2>1. CASE Idle(h) \/ SweepCollect(h) \/ SweepEnds(h)
    <3>1. UNCHANGED <<overtaken, circuits, handler>>
      BY Zenon, <2>1 DEF Idle, SweepCollect, SweepEnds, circVars, extendVars
    <3>2. /\ \E e : lastSeen' = [lastSeen EXCEPT ![h] = e]
          /\ sweeper' = sweeper \/ \E e : sweeper' = [sweeper EXCEPT ![h] = e]
      BY Zenon, <2>1 DEF Idle, SweepCollect, SweepEnds, Remove
    <3> QED BY Zenon, <1>a, <1>5, <3>1, <3>2 DEF Untracked, TypeOK
  <2>2. CASE SweepDestroy(h)
    BY Zenon, <1>a, <1>5, <2>2 DEF SweepDestroy, destroyCircuit, Untracked, TypeOK,
           extendVars
  <2> QED BY Zenon, <1>5, <2>1, <2>2 DEF Sweep
<1>6. Idle(g) \/ Sweep(g) => Idle(g) \/ SweepCollect(g) \/ SweepDestroy(g) \/ SweepEnds(g)
  BY Zenon DEF Sweep
<1> QED BY Zenon, <1>1, <1>2, <1>3, <1>4, <1>5, <1>6 DEF Next

(* The tracker and the sweeper of relay g, through every step.             *)
LEMMA TrackStep ==
    ASSUME SweepInv, Next, NEW g \in Relays
    PROVE  Untouched(g)' /\ TrackAt(g)'
<1>a. CircInv /\ TypeOK /\ HandOK /\ FirstCell(g) /\ Untouched(g) /\ TrackAt(g)
  BY Zenon DEF SweepInv, CircInv, TypeInv, CoreInv
<1>b. ~ ReadCell(g) /\ ~ HandleCreate(g) =>
          (key'[g] = key[g]) /\ (Handles(g, "Create")' <=> Handles(g, "Create"))
  BY Zenon, <1>a, KeyStep, CreateHeld
<1>1. CASE ~ ReadCell(g) /\ ~ HandleCreate(g) /\ Untracked(g)
  BY Zenon, <1>a, <1>b, <1>1 DEF Untracked, Untouched, TrackAt, Tracked
<1>2. CASE ReadCell(g)
  <2>1. /\ handler[g] = "read" /\ fwd[g] # <<>> /\ handler'[g] = "handle"
        /\ lastSeen'[g] = "fresh" /\ sweeper' = sweeper /\ overtaken' = overtaken
        /\ fwd' = fwd /\ key' = key /\ circuits' = circuits
    BY Zenon, <1>a, <1>2 DEF ReadCell, Touch, TypeOK, connVars, circVars
  <2>2. ~ Handles(g, "Create")
    BY Zenon, <2>1 DEF Handles
  <2>3. Untouched(g)'
    BY Zenon, <1>a, <2>1 DEF FirstCell, Untouched, Handles
  <2>4. Handles(g, "Create")' => sweeper[g] = "asleep"
    <3>1. ASSUME Head(fwd[g]).cmd = "Create" PROVE key[g] = NoKey
      BY Zenon, <1>a, <2>1, <3>1, Heads DEF FwdHead, CreateCells, ExtendCells, FwdRest
    <3> QED BY Zenon, <1>a, <2>1, <2>2, <3>1 DEF Untouched, Handles
  <2>5. TrackAt(g)'
    BY Zenon, <1>a, <2>1, <2>2, <2>4 DEF TrackAt, Tracked
  <2> QED BY Zenon, <2>3, <2>5
<1>3. CASE HandleCreate(g)
  <2>1. /\ Handles(g, "Create") /\ handler'[g] = "read" /\ UNCHANGED idleVars
    BY Zenon, <1>a, <1>3 DEF HandleCreate, Reads, TypeOK
  <2>2. Untouched(g)'
    BY Zenon, <1>a, <1>3, KeyStep DEF Untouched
  <2>3. TrackAt(g)'
    BY Zenon, <1>a, <2>1 DEF TrackAt, Tracked, Handles, idleVars
  <2> QED BY Zenon, <2>2, <2>3
<1>4. CASE HandleDestroy(g)
  <2>1. /\ handler[g] = "handle" /\ Head(fwd[g]).cmd = "Destroy" /\ g \notin circuits'
        /\ handler'[g] = "remove" /\ UNCHANGED idleVars
    BY Zenon, <1>a, <1>4 DEF HandleDestroy, Handles, destroyCircuit, TypeOK
  <2>2. ~ Handles(g, "Create") /\ ~ Handles(g, "Create")'
    BY Zenon, <2>1 DEF Handles
  <2>3. key[g] # NoKey /\ key' = key
    <3>1. fwd[g] # <<>>
      BY Zenon, <1>a, <2>1 DEF HandOK
    <3> QED BY Zenon, <1>a, <1>4, <2>1, <3>1 DEF FirstCell, HandleDestroy
  <2> QED BY Zenon, <1>a, <2>1, <2>2, <2>3 DEF Untouched, TrackAt, Tracked, idleVars
<1>5. CASE DestroyEnds(g)
  <2>1. /\ handler[g] = "remove" /\ handler'[g] = "read" /\ lastSeen'[g] = "absent"
        /\ UNCHANGED <<sweeper, overtaken, circuits, key>>
    BY Zenon, <1>a, <1>5 DEF DestroyEnds, Reads, Remove, TypeOK, circVars
  <2>2. ~ Handles(g, "Create") /\ ~ Handles(g, "Create")'
    BY Zenon, <2>1 DEF Handles
  <2> QED BY Zenon, <1>a, <2>1, <2>2 DEF Untouched, TrackAt, Tracked
<1>6. CASE Idle(g)
  <2>1. /\ lastSeen[g] = "fresh" /\ lastSeen'[g] = "stale"
        /\ UNCHANGED <<sweeper, overtaken, circuits, key, handler, fwd>>
    BY Zenon, <1>a, <1>6 DEF Idle, TypeOK, circVars, extendVars, connVars
  <2>2. Handles(g, "Create")' <=> Handles(g, "Create")
    BY Zenon, <2>1 DEF Handles
  <2> QED BY Zenon, <1>a, <2>1, <2>2 DEF Untouched, TrackAt, Tracked
<1>7. CASE SweepCollect(g)
  <2>1. /\ lastSeen[g] = "stale" /\ sweeper'[g] = "expired"
        /\ UNCHANGED <<overtaken, circuits, key, handler, fwd>>
    BY Zenon, <1>a, <1>7 DEF SweepCollect, TypeOK, circVars, extendVars, connVars
  <2>2. Handles(g, "Create")' <=> Handles(g, "Create")
    BY Zenon, <2>1 DEF Handles
  <2> QED BY Zenon, <1>a, <2>1, <2>2 DEF Untouched, TrackAt, Tracked
<1>8. CASE SweepDestroy(g)
  <2>1. /\ sweeper[g] = "expired" /\ sweeper'[g] = "remove" /\ g \notin circuits'
        /\ UNCHANGED <<key, handler>>
        /\ overtaken' = overtaken \cup {i \in {g} : Handles(i, "Create")}
    BY Zenon, <1>a, <1>8 DEF SweepDestroy, destroyCircuit, TypeOK, extendVars
  <2>2. Handles(g, "Create")' <=> Handles(g, "Create")
    <3>1. ~ ReadCell(g) /\ ~ HandleCreate(g)
      BY Zenon, <1>a, <2>1 DEF ReadCell, HandleCreate, idleVars, TypeOK
    <3> QED BY Zenon, <1>b, <3>1
  <2>3. Handles(g, "Create") => g \in overtaken'
    BY Zenon, <2>1
  <2> QED BY Zenon, <1>a, <2>1, <2>2, <2>3 DEF Untouched, TrackAt, Tracked
<1>9. CASE SweepEnds(g)
  <2>1. /\ sweeper[g] = "remove" /\ sweeper'[g] = "asleep" /\ lastSeen'[g] = "absent"
        /\ UNCHANGED <<overtaken, circuits, key, handler, fwd>>
    BY Zenon, <1>a, <1>9 DEF SweepEnds, Remove, TypeOK, circVars, extendVars, connVars
  <2>2. Handles(g, "Create")' <=> Handles(g, "Create")
    BY Zenon, <2>1 DEF Handles
  <2> QED BY Zenon, <1>a, <2>1, <2>2 DEF Untouched, TrackAt, Tracked
<1> QED BY Zenon, <1>1, <1>2, <1>3, <1>4, <1>5, <1>6, <1>7, <1>8, <1>9, TrackCases

LEMMA SweepInit == Init => SweepInv
<1> SUFFICES ASSUME Init, NEW h \in Relays
             PROVE  FirstCell(h) /\ Untouched(h) /\ NextHasKey(h) /\ TrackAt(h)
  BY Zenon, CircInit DEF SweepInv
<1>1. fwd[h] = <<>> /\ OutConn[h] = 0 /\ handler[h] = "none" /\ lastSeen[h] = "absent"
      /\ sweeper[h] = "asleep" /\ h \notin circuits
  BY Zenon DEF Init
<1> QED BY Zenon, <1>1 DEF FirstCell, Untouched, NextHasKey, TrackAt, Handles

LEMMA SweepStep == SweepInv /\ [Next]_vars => SweepInv'
<1>1. ASSUME SweepInv, Next PROVE SweepInv'
  <2>1. CircInv'
    BY Zenon, <1>1, CircStep DEF SweepInv
  <2>2. \A h \in Relays :
            FirstCell(h)' /\ Untouched(h)' /\ NextHasKey(h)' /\ TrackAt(h)'
    BY Zenon, <1>1, FirstStep, TrackStep, NextStep
  <2> QED BY Zenon, <2>1, <2>2 DEF SweepInv
<1>2. ASSUME SweepInv, UNCHANGED vars PROVE SweepInv'
  <2>1. CircInv'
    BY Zenon, <1>2, CircStutter DEF SweepInv
  <2>2. UNCHANGED <<fwd, key, handler, lastSeen, sweeper, overtaken, circuits, OutConn>>
    BY Zenon, <1>2 DEF vars, connVars, extendVars, circVars, idleVars
  <2>3. ASSUME NEW h \in Relays
        PROVE  FirstCell(h)' /\ Untouched(h)' /\ NextHasKey(h)' /\ TrackAt(h)'
    BY Zenon, <1>2, <2>2 DEF SweepInv, FirstCell, Untouched, NextHasKey, TrackAt, Tracked,
           Handles
  <2> QED BY Zenon, <2>1, <2>3 DEF SweepInv
<1> QED BY Zenon, <1>1, <1>2

(* Every circuit of a relay's table is one the idle sweeper will get to:   *)
(* destroyCircuit drops the tracker's entry (Remove, after circuitsMu is   *)
(* unlocked) only of a circuit that has left the table.  The one exception *)
(* is a circuit whose Touch expired before handleCell came to insert it,   *)
(* so that the sweep's destroyCircuit overtook the insert.                 *)
THEOREM SweeperComplete == Spec => []SweeperSeesAll
<1>1. SweepInv => SweeperSeesAll
  <2>1. TypeOK => circuits \subseteq Relays
    BY Zenon DEF TypeOK
  <2> QED BY Zenon, <2>1 DEF SweepInv, CircInv, TypeInv, CoreInv, TrackAt, Tracked,
             SweeperSeesAll
<1>2. Init => SweepInv
  BY SweepInit
<1>3. SweepInv /\ [Next]_vars => SweepInv'
  BY SweepStep
<1> QED BY <1>1, <1>2, <1>3, PTL DEF Spec

=============================================================================
