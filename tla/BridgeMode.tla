---------------------------- MODULE BridgeMode ----------------------------
(***************************************************************************)
(* The client in bridge mode (dialBridge and buildCircuitViaBridge,        *)
(* client/main.go), the bridge of module Bridge, and the Create handler of *)
(* the foreign entry (relay/main.go), joined by the bridge's connections.  *)
(*                                                                         *)
(* The body of a Create is the number of the client's key pair, that of a  *)
(* Created the number of the entry's; the key both derive is the pair of   *)
(* the two.                                                                *)
(***************************************************************************)
EXTENDS Bridge

VARIABLES
    client,      \* "dial", "create", "wait", "built", "failed"
    clientKey,   \* Keys[0] of the client's Circuit, as a sequence of one
    entryKey     \* Key of the foreign entry's Circuit, likewise

modeVars == <<client, clientKey, entryKey>>

ModeInit ==
    /\ Init
    /\ client = "dial" /\ clientKey = <<>> /\ entryKey = <<>>

(* dialBridge: the handshake, with a key pair whose private half is        *)
(* dropped.                                                                *)
dialBridge ==
    /\ client = "dial"
    /\ PeerWrites("up", Cell("sentinel", "Create", 0, TRUE))
    /\ client' = "create"
    /\ UNCHANGED <<clientKey, entryKey>>

(* buildCircuitViaBridge: a Create with a key pair of its own.             *)
SendCreate ==
    /\ client = "create"
    /\ PeerWrites("up", Cell("sentinel", "Create", 1, FALSE))
    /\ client' = "wait"
    /\ UNCHANGED <<clientKey, entryKey>>

(* The first cell back decides.                                            *)
ReadCreatedAtClient ==
    LET c == Head(queue["toClient"])
    IN /\ client = "wait"
       /\ PeerReads("down")
       /\ c.cmd = "Created"
       /\ client' = "built"
       /\ clientKey' = <<[eph |-> 1, relay |-> c.n]>>
       /\ UNCHANGED entryKey

(* 15s, another cell, or a connection that is gone: conn.Close().          *)
BuildFails ==
    /\ client = "wait"
    /\ PeerCloses("up")
    /\ client' = "failed"
    /\ UNCHANGED <<clientKey, entryKey>>

(* handleCell of the foreign entry: a fresh key pair and a new Circuit in  *)
(* place of any other with this ID.                                        *)
EntryCreate ==
    LET c == Head(queue["toForeign"])
        n == Len(sent["down"])
        reply == Cell("new", "Created", n, FALSE)
    IN /\ "foreign" \notin closed
       /\ queue["toForeign"] # <<>>
       /\ queue' = [Take("toForeign") EXCEPT !["fromForeign"] = Append(@, reply)]
       /\ got' = [got EXCEPT !["up"] = Append(@, c)]
       /\ sent' = [sent EXCEPT !["down"] = Append(@, reply)]
       /\ entryKey' = <<[eph |-> c.n, relay |-> n]>>
       /\ UNCHANGED <<stage, pump, held, closed, client, clientKey>>

EntryCloses == PeerCloses("down") /\ UNCHANGED modeVars

BridgeSteps ==
    /\ Session \/ \E d \in Directions : Pump(d)
    /\ UNCHANGED modeVars

ModeNext ==
    \/ dialBridge \/ SendCreate \/ ReadCreatedAtClient \/ BuildFails
    \/ EntryCreate \/ EntryCloses
    \/ BridgeSteps

ModeSpec == ModeInit /\ [][ModeNext]_<<vars, modeVars>>

(* Protocol comment of bridge/main.go: "the client and foreign entry       *)
(* negotiate their own session key"; so once everything the client sent    *)
(* has arrived, the two hold the same key.                                 *)
SessionKeyShared ==
    client = "built" /\ Len(got["up"]) = 2 => clientKey = entryKey
====
