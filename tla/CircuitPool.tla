---------------------------- MODULE CircuitPool ----------------------------
(***************************************************************************)
(* The client's pool of circuits (client/main.go): proxy goroutines that   *)
(* get a circuit, send on it, replace it when it has expired and rebuild   *)
(* it once when sending fails, while buildAll, run by the start-up         *)
(* goroutine and by the rotation loop, replaces the whole pool.            *)
(*                                                                         *)
(* Circuits are numbered in the order they are built.  Every lock of the   *)
(* code is held only for the step it protects: what a goroutine reads      *)
(* under p.mu it uses after the unlock, and so it does here.               *)
(***************************************************************************)
EXTENDS Integers, Sequences, FiniteSets

CONSTANTS
    Requests,      \* calls of pool.send
    Count,         \* circuit_count
    MaxCircuits,   \* bound: circuits ever built
    MaxRotations,  \* bound: rotations of the pool
    MaxDead        \* bound: circuits that die

ASSUME CountAssumption == Count \in Nat \ {0}
ASSUME BoundsAssumption ==
    MaxCircuits \in Nat /\ MaxRotations \in Nat /\ MaxDead \in Nat

Builders == {"start", "rotate"}
Circuits == 1..MaxCircuits

VARIABLES
    bridge,     \* a bridge URI is configured
    stopped,    \* main has returned
    circuits,   \* p.circuits
    ready,      \* p.ready
    counter,    \* p.counter
    made,       \* circuits built so far
    closed,     \* circuits the client has closed
    dead,       \* circuits whose connection or relays are gone
    expired,    \* circuits older than circuitLifetime
    pc,         \* send: where each call stands
    circ, idx,  \* send and get: their locals of the same names
    newCirc,
    outcome,    \* how the first sendRequest of a call ended: "none", "full"
                \* (by a sentinel or the deadline) and "cut" (by a broken
                \* connection), both with a nil error, or "error"
    running,    \* the buildAll calls in progress
    left,       \* buildAll: builds still to do
    built,      \* buildAll: its local of the same name
    starts      \* buildAll calls begun, by builder

requestVars == <<pc, circ, idx, newCirc, outcome>>
builderVars == <<running, left, built, starts>>
circuitVars == <<made, closed, dead, expired>>
modeVars == <<bridge, stopped>>
vars == <<modeVars, circuits, ready, counter, circuitVars, requestVars, builderVars>>

Steps == {"new", "start", "replace", "install", "send", "rebuild", "swap",
          "resend", "done"}

TypeOK ==
    /\ circuits \in Seq(Circuits) /\ Len(circuits) <= Count
    /\ bridge \in BOOLEAN /\ stopped \in BOOLEAN /\ ready \in BOOLEAN
    /\ counter \in Nat
    /\ made \in 0..MaxCircuits
    /\ closed \subseteq 1..made /\ dead \subseteq 1..made /\ expired \subseteq 1..made
    /\ pc \in [Requests -> Steps]
    /\ circ \in [Requests -> 0..made]
    /\ idx \in [Requests -> 0..Count]
    /\ newCirc \in [Requests -> 0..made]
    /\ outcome \in [Requests -> {"none", "full", "cut", "error"}]
    /\ running \subseteq Builders
    /\ left \in [Builders -> 0..Count]
    /\ built \in [Builders -> Seq(Circuits)]
    /\ starts \in [Builders -> Nat]

Init ==
    /\ bridge \in BOOLEAN /\ stopped = FALSE
    /\ circuits = <<>>
    /\ ready = FALSE
    /\ counter = 0
    /\ made = 0
    /\ closed = {} /\ dead = {} /\ expired = {}
    /\ pc = [r \in Requests |-> "new"]
    /\ circ = [r \in Requests |-> 0]
    /\ idx = [r \in Requests |-> 0]
    /\ newCirc = [r \in Requests |-> 0]
    /\ outcome = [r \in Requests |-> "none"]
    /\ running = {}
    /\ left = [b \in Builders |-> 0]
    /\ built = [b \in Builders |-> <<>>]
    /\ starts = [b \in Builders |-> 0]

Goto(r, step) == pc' = [pc EXCEPT ![r] = step]

(* A circuit is built: the next one exists.                                *)
Built == made < MaxCircuits /\ made' = made + 1

(* buildOne succeeds.  In bridge mode the pool has no relays to build from *)
(* and it never does.                                                      *)
buildOne == ~ bridge /\ Built

(* The proxy handlers ask isReady before their first send: HTTP refuses a  *)
(* request that comes too early, SOCKS5 waits 30s for the pool.            *)
Admit(r) ==
    /\ pc[r] = "new"
    /\ ready
    /\ Goto(r, "start")
    /\ UNCHANGED <<modeVars, circuits, ready, counter, circuitVars, circ, idx,
                   newCirc, outcome, builderVars>>

Refuse(r) ==
    /\ pc[r] = "new"
    /\ ~ ready
    /\ Goto(r, "done")
    /\ UNCHANGED <<modeVars, circuits, ready, counter, circuitVars, circ, idx,
                   newCirc, outcome, builderVars>>

-----------------------------------------------------------------------------
(* get.                                                                    *)

(* The read-locked part, and the test whether the circuit has expired.     *)
get(r) ==
    LET i == (counter % Len(circuits)) + 1
    IN /\ pc[r] = "start"
       /\ IF circuits = <<>>
          THEN /\ Goto(r, "done")
               /\ UNCHANGED <<counter, circ, idx>>
          ELSE /\ counter' = counter + 1
               /\ circ' = [circ EXCEPT ![r] = circuits[i]]
               /\ idx' = [idx EXCEPT ![r] = i]
               /\ Goto(r, IF circuits[i] \in expired THEN "replace" ELSE "send")
       /\ UNCHANGED <<modeVars, circuits, ready, circuitVars, newCirc, outcome,
                      builderVars>>

(* No replacement can be built: the expired circuit is used.               *)
ReplaceFails(r) ==
    /\ pc[r] = "replace"
    /\ Goto(r, "send")
    /\ UNCHANGED <<modeVars, circuits, ready, counter, circuitVars, circ, idx,
                   newCirc, outcome, builderVars>>

(* The replacement is built and the expired circuit closed.                *)
ReplaceBuilt(r) ==
    /\ pc[r] = "replace"
    /\ buildOne
    /\ newCirc' = [newCirc EXCEPT ![r] = made']
    /\ closed' = closed \cup {circ[r]}
    /\ Goto(r, "install")
    /\ UNCHANGED <<modeVars, circuits, ready, counter, dead, expired, circ,
                   idx, outcome, builderVars>>

(* Mutant of Install: the bound is off by one.                             *)
InstallShort(r) ==
    /\ pc[r] = "install"
    /\ circuits' = IF idx[r] < Len(circuits)
                   THEN [circuits EXCEPT ![idx[r]] = newCirc[r]]
                   ELSE circuits
    /\ circ' = [circ EXCEPT ![r] = newCirc[r]]
    /\ Goto(r, "send")
    /\ UNCHANGED <<modeVars, ready, counter, circuitVars, idx, newCirc,
                   outcome, builderVars>>

(* The replacement goes to the slot the expired circuit was read from.     *)
Install(r) ==
    /\ pc[r] = "install"
    /\ circuits' = IF idx[r] <= Len(circuits)
                   THEN [circuits EXCEPT ![idx[r]] = newCirc[r]]
                   ELSE circuits
    /\ circ' = [circ EXCEPT ![r] = newCirc[r]]
    /\ Goto(r, "send")
    /\ UNCHANGED <<modeVars, ready, counter, circuitVars, idx, newCirc,
                   outcome, builderVars>>

-----------------------------------------------------------------------------
(* send.                                                                   *)

(* What sendRequest may report: a live circuit carries the response to its *)
(* end or to the read deadline, on a broken or closed one it is cut off;   *)
(* an oversized request, a cancelled context or a layer that does not      *)
(* decrypt is an error.  A circuit built through a bridge has the key of   *)
(* its first hop only, and no request can be encrypted for it.             *)
sendRequest(c) ==
    {"error"} \cup (IF bridge THEN {}
                    ELSE IF c \in closed \cup dead THEN {"cut"} ELSE {"full"})

Send(r) ==
    /\ pc[r] = "send"
    /\ \E how \in sendRequest(circ[r]) :
          /\ outcome' = [outcome EXCEPT ![r] = how]
          /\ Goto(r, IF how = "error" THEN "rebuild" ELSE "done")
    /\ UNCHANGED <<modeVars, circuits, ready, counter, circuitVars, circ, idx,
                   newCirc, builderVars>>

RebuildFails(r) ==
    /\ pc[r] = "rebuild"
    /\ Goto(r, "done")
    /\ UNCHANGED <<modeVars, circuits, ready, counter, circuitVars, circ, idx,
                   newCirc, outcome, builderVars>>

RebuildBuilt(r) ==
    /\ pc[r] = "rebuild"
    /\ buildOne
    /\ newCirc' = [newCirc EXCEPT ![r] = made']
    /\ closed' = closed \cup {circ[r]}
    /\ Goto(r, "swap")
    /\ UNCHANGED <<modeVars, circuits, ready, counter, dead, expired, circ,
                   idx, outcome, builderVars>>

(* The rebuilt circuit takes the place of the failed one, which is there  *)
(* at most once.                                                           *)
Swap(r) ==
    /\ pc[r] = "swap"
    /\ circuits' = [i \in 1..Len(circuits) |->
                       IF circuits[i] = circ[r] THEN newCirc[r] ELSE circuits[i]]
    /\ circ' = [circ EXCEPT ![r] = newCirc[r]]
    /\ Goto(r, "resend")
    /\ UNCHANGED <<modeVars, ready, counter, circuitVars, idx, newCirc,
                   outcome, builderVars>>

(* The second sendRequest, whose result is returned as it is.              *)
Resend(r) ==
    /\ pc[r] = "resend"
    /\ Goto(r, "done")
    /\ UNCHANGED <<modeVars, circuits, ready, counter, circuitVars, circ, idx,
                   newCirc, outcome, builderVars>>

-----------------------------------------------------------------------------
(* buildAll.                                                               *)

(* The pool is emptied and its circuits closed.  The start-up goroutine    *)
(* runs buildAll once, the rotation loop again and again; the two are not  *)
(* excluded from each other.                                               *)
TakeAll(b) ==
    /\ ~ bridge /\ ~ stopped
    /\ b \notin running
    /\ starts[b] < (IF b = "start" THEN 1 ELSE MaxRotations)
    /\ starts' = [starts EXCEPT ![b] = @ + 1]
    /\ running' = running \cup {b}
    /\ left' = [left EXCEPT ![b] = Count]
    /\ closed' = closed \cup {circuits[i] : i \in 1..Len(circuits)}
    /\ circuits' = <<>>
    /\ UNCHANGED <<modeVars, ready, counter, made, dead, expired, requestVars,
                   built>>

(* Mutant of BuildOne: one build too many.                                 *)
BuildOneExtra(b) ==
    /\ b \in running
    /\ left[b] >= 0
    /\ left' = [left EXCEPT ![b] = @ - 1]
    /\ UNCHANGED <<made, built>>
    /\ UNCHANGED <<modeVars, circuits, ready, counter, closed, dead, expired,
                   requestVars, running, starts>>

BuildOne(b) ==
    /\ b \in running
    /\ left[b] > 0
    /\ left' = [left EXCEPT ![b] = @ - 1]
    /\ \/ Built /\ built' = [built EXCEPT ![b] = Append(@, made')]
       \/ UNCHANGED <<made, built>>
    /\ UNCHANGED <<modeVars, circuits, ready, counter, closed, dead, expired,
                   requestVars, running, starts>>

(* Mutant of ReplaceAll: a pool that failed to build is still ready.       *)
ReplaceAllReady(b) ==
    /\ ~ bridge
    /\ b \in running
    /\ left[b] = 0
    /\ running' = running \ {b}
    /\ circuits' = built[b]
    /\ ready' = (ready \/ built[b] # <<>>)
    /\ built' = [built EXCEPT ![b] = <<>>]
    /\ UNCHANGED <<modeVars, counter, circuitVars, requestVars, left, starts>>

ReplaceAll(b) ==
    /\ ~ bridge
    /\ b \in running
    /\ left[b] = 0
    /\ running' = running \ {b}
    /\ circuits' = built[b]
    /\ ready' = (built[b] # <<>>)
    /\ built' = [built EXCEPT ![b] = <<>>]
    /\ UNCHANGED <<modeVars, counter, circuitVars, requestVars, left, starts>>

-----------------------------------------------------------------------------
(* Bridge mode: the start-up goroutine builds the circuits itself, with    *)
(* BuildOne standing for buildCircuitViaBridge, and fills the pool once.   *)

BridgeStart ==
    /\ bridge /\ ~ stopped
    /\ starts["start"] = 0
    /\ starts' = [starts EXCEPT !["start"] = 1]
    /\ running' = {"start"}
    /\ left' = [left EXCEPT !["start"] = Count]
    /\ UNCHANGED <<modeVars, circuits, ready, counter, circuitVars,
                   requestVars, built>>

BridgeFill ==
    /\ bridge
    /\ running # {} /\ left["start"] = 0
    /\ running' = {}
    /\ IF built["start"] = <<>> THEN UNCHANGED <<circuits, ready>>
       ELSE circuits' = built["start"] /\ ready' = TRUE
    /\ built' = [built EXCEPT !["start"] = <<>>]
    /\ UNCHANGED <<modeVars, counter, circuitVars, requestVars, left, starts>>

-----------------------------------------------------------------------------
(* What happens to circuits: ten minutes pass (which only get notices, and *)
(* only of circuits in the pool), or a relay goes away.                    *)

InPool(c) == \E i \in 1..Len(circuits) : circuits[i] = c

Expire(c) ==
    /\ InPool(c)
    /\ c \notin expired
    /\ expired' = expired \cup {c}
    /\ UNCHANGED <<modeVars, circuits, ready, counter, made, closed, dead,
                   requestVars, builderVars>>

Die(c) ==
    /\ ~ stopped
    /\ c \in (1..made) \ (dead \cup closed)
    /\ Cardinality(dead) < MaxDead
    /\ dead' = dead \cup {c}
    /\ UNCHANGED <<modeVars, circuits, ready, counter, made, closed, expired,
                   requestVars, builderVars>>

(* main after a signal: what is in the pool is closed, then the process    *)
(* and all it holds is gone.                                               *)
Shutdown ==
    /\ ~ stopped
    /\ stopped' = TRUE
    /\ closed' = closed \cup {circuits[i] : i \in 1..Len(circuits)}
    /\ circuits' = <<>> /\ ready' = FALSE /\ counter' = 0 /\ expired' = {}
    /\ pc' = [r \in Requests |-> "done"]
    /\ circ' = [r \in Requests |-> 0] /\ newCirc' = circ' /\ idx' = circ'
    /\ outcome' = [r \in Requests |-> "none"]
    /\ running' = {}
    /\ left' = [b \in Builders |-> 0] /\ starts' = left'
    /\ built' = [b \in Builders |-> <<>>]
    /\ UNCHANGED <<bridge, made, dead>>

Request(r) ==
    \/ Admit(r) \/ Refuse(r)
    \/ get(r) \/ ReplaceFails(r) \/ ReplaceBuilt(r) \/ Install(r)
    \/ Send(r) \/ RebuildFails(r) \/ RebuildBuilt(r) \/ Swap(r) \/ Resend(r)

buildAll(b) == TakeAll(b) \/ BuildOne(b) \/ ReplaceAll(b)

(* The process has ended.                                                  *)
Finished == stopped /\ UNCHANGED vars

Next ==
    \/ \E r \in Requests : Request(r)
    \/ \E b \in Builders : buildAll(b)
    \/ BridgeStart \/ BridgeFill
    \/ \E c \in Circuits : Expire(c) \/ Die(c)
    \/ Shutdown \/ Finished

Spec == Init /\ [][Next]_vars

-----------------------------------------------------------------------------
(* Properties.                                                             *)

(* A circuit the client has closed stays in the pool only until the call   *)
(* that closed it puts its replacement there, though get writes to a slot  *)
(* it looked up before other calls and buildAll changed the pool.          *)
ClosedOnlyInTransit ==
    \A c \in closed :
        InPool(c) => \E r \in Requests : pc[r] \in {"install", "swap"} /\ circ[r] = c

(* isReady tells whether the pool has circuits whenever no buildAll is in  *)
(* progress, also after two of them have overlapped, and in bridge mode.   *)
ReadyWhenSettled == running = {} => (ready <=> circuits # <<>>)

(* send is "rebuilding once on failure": a call whose first attempt was    *)
(* cut off by a broken circuit does not return that as its result.         *)
FailureRebuilds ==
    \A r \in Requests : pc[r] = "done" => outcome[r] # "cut"
====
