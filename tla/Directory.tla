----------------------------- MODULE Directory -----------------------------
(***************************************************************************)
(* The directory servers (directory/main.go): relays and brokers register  *)
(* with any of them; a registration that changes a directory's state is    *)
(* gossiped one hop to its peers, unreliably, and applied there if it is   *)
(* newer than what the peer holds.  Nothing is persisted.                  *)
(*                                                                         *)
(* Relay and broker descriptors are handled alike; Ids holds both.  A      *)
(* descriptor's fields are one value of Contents, and a registration also  *)
(* records the directory that accepted it, which the code does not keep.   *)
(* A request that is rate limited, malformed or fails its HMAC changes     *)
(* nothing and does not appear.                                            *)
(***************************************************************************)
EXTENDS Integers

CONSTANTS
    Dirs, Ids, Contents, None,
    Peers,         \* peer_dirs of each directory
    SyncWindow,    \* seconds of clock difference /sync tolerates
    MaxAge,        \* consensus_max_age
    MaxClock,      \* bound: readings of a directory's clock
    MaxRegisters,  \* bound: calls of /register
    MaxRestarts    \* bound: restarts of directories

Stamps == 0..MaxClock
Registrations == [dir : Dirs, id : Ids, content : Contents, LastSeen : Stamps]
Messages == [to : Dirs, reg : Registrations, Timestamp : Stamps]

ASSUME NoneAssumption == None \notin Registrations
ASSUME PeersAssumption == Peers \in [Dirs -> SUBSET Dirs]
ASSUME BoundsAssumption ==
    /\ SyncWindow \in Nat /\ MaxAge \in Nat /\ MaxClock \in Nat
    /\ MaxRegisters \in Nat /\ MaxRestarts \in Nat

VARIABLES
    clock,     \* each directory's wall clock
    registry,  \* s.relays and s.brokers of each directory
    pending,   \* /register handlers that have read the clock and not stored yet
    gossips,   \* POSTs to /sync in flight
    issued,    \* history: registrations that changed the state they were made to
    missed,    \* history: directories that lost a POST or their state
    registers, restarts

vars == <<clock, registry, pending, gossips, issued, missed, registers, restarts>>

TypeOK ==
    /\ clock \in [Dirs -> Stamps]
    /\ registry \in [Dirs -> [Ids -> Registrations \cup {None}]]
    /\ pending \subseteq Registrations
    /\ gossips \subseteq Messages
    /\ issued \subseteq Registrations
    /\ missed \subseteq Dirs
    /\ registers \in 0..MaxRegisters
    /\ restarts \in 0..MaxRestarts

Init ==
    /\ clock = [d \in Dirs |-> 0]
    /\ registry = [d \in Dirs |-> [id \in Ids |-> None]]
    /\ pending = {}
    /\ gossips = {}
    /\ issued = {}
    /\ missed = {}
    /\ registers = 0
    /\ restarts = 0

(* Mutant of Newer: an equally old registration is applied too.            *)
NewerOrEqual(reg, old) == old = None \/ reg.LastSeen >= old.LastSeen

(* storeRegistration's test under the lock.                                *)
Newer(reg, old) == old = None \/ reg.LastSeen > old.LastSeen

(* Mutant of Register: the stamp is backdated by the tolerated skew.       *)
RegisterBackdated(d, id, content) ==
    /\ registers < MaxRegisters
    /\ registers' = registers + 1
    /\ pending' = pending \cup {[dir |-> d, id |-> id, content |-> content,
                                 LastSeen |-> clock[d] - SyncWindow]}
    /\ UNCHANGED <<clock, registry, gossips, issued, missed, restarts>>

(* POST /register, up to the point where storeRegistration has stamped the *)
(* descriptor; another handler may take the lock first.                    *)
Register(d, id, content) ==
    /\ registers < MaxRegisters
    /\ registers' = registers + 1
    /\ pending' = pending \cup {[dir |-> d, id |-> id, content |-> content,
                                 LastSeen |-> clock[d]]}
    /\ UNCHANGED <<clock, registry, gossips, issued, missed, restarts>>

gossip(reg) ==
    {[to |-> peer, reg |-> reg, Timestamp |-> clock[reg.dir]] : peer \in Peers[reg.dir]}

(* Mutant of Store: only a descriptor that was unknown is gossiped.        *)
StoreGossipFirst(reg) ==
    LET old == registry[reg.dir][reg.id]
    IN /\ reg \in pending
       /\ pending' = pending \ {reg}
       /\ IF Newer(reg, old)
          THEN /\ registry' = [registry EXCEPT ![reg.dir][reg.id] = reg]
               /\ issued' = issued \cup {reg}
               /\ gossips' = gossips \cup (IF old = None THEN gossip(reg) ELSE {})
          ELSE UNCHANGED <<registry, issued, gossips>>
       /\ UNCHANGED <<clock, missed, registers, restarts>>

(* The rest of POST /register: store the descriptor if it is newer, and    *)
(* gossip it if the state changed.                                         *)
Store(reg) ==
    /\ reg \in pending
    /\ pending' = pending \ {reg}
    /\ IF Newer(reg, registry[reg.dir][reg.id])
       THEN /\ registry' = [registry EXCEPT ![reg.dir][reg.id] = reg]
            /\ issued' = issued \cup {reg}
            /\ gossips' = gossips \cup gossip(reg)
       ELSE UNCHANGED <<registry, issued, gossips>>
    /\ UNCHANGED <<clock, missed, registers, restarts>>

(* The timestamp half of verifyHMAC.                                       *)
InWindow(m) ==
    clock[m.to] - m.Timestamp <= SyncWindow /\ m.Timestamp - clock[m.to] <= SyncWindow

(* Mutant of handleSync: a descriptor already known is not updated.        *)
handleSyncFirst(m) ==
    /\ m \in gossips
    /\ gossips' = gossips \ {m}
    /\ registry' = IF InWindow(m) /\ registry[m.to][m.reg.id] = None
                   THEN [registry EXCEPT ![m.to][m.reg.id] = m.reg]
                   ELSE registry
    /\ missed' = IF InWindow(m) THEN missed ELSE missed \cup {m.to}
    /\ UNCHANGED <<clock, pending, issued, registers, restarts>>

(* POST /sync: never gossiped on.                                          *)
handleSync(m) ==
    /\ m \in gossips
    /\ gossips' = gossips \ {m}
    /\ registry' = IF InWindow(m) /\ Newer(m.reg, registry[m.to][m.reg.id])
                   THEN [registry EXCEPT ![m.to][m.reg.id] = m.reg]
                   ELSE registry
    /\ missed' = IF InWindow(m) THEN missed ELSE missed \cup {m.to}
    /\ UNCHANGED <<clock, pending, issued, registers, restarts>>

(* The POST fails, is rate limited or dies with the sender: fire-and-forget*)
LoseGossip(m) ==
    /\ m \in gossips
    /\ gossips' = gossips \ {m}
    /\ missed' = missed \cup {m.to}
    /\ UNCHANGED <<clock, registry, pending, issued, registers, restarts>>

(* A directory process ends and starts again with empty maps.              *)
Restart(d) ==
    /\ restarts < MaxRestarts
    /\ restarts' = restarts + 1
    /\ registry' = [registry EXCEPT ![d] = [id \in Ids |-> None]]
    /\ pending' = {reg \in pending : reg.dir # d}
    /\ missed' = missed \cup {d}
    /\ UNCHANGED <<clock, gossips, issued, registers>>

Tick(d) ==
    /\ clock[d] < MaxClock
    /\ clock' = [clock EXCEPT ![d] = @ + 1]
    /\ UNCHANGED <<registry, pending, gossips, issued, missed, registers, restarts>>

Next ==
    \/ \E d \in Dirs, id \in Ids, content \in Contents : Register(d, id, content)
    \/ \E reg \in pending : Store(reg)
    \/ \E m \in gossips : handleSync(m) \/ LoseGossip(m)
    \/ \E d \in Dirs : Restart(d) \/ Tick(d)

Spec == Init /\ [][Next]_vars

(* GET /consensus: the registrations a directory signs and serves.         *)
handleConsensus(d) ==
    {reg \in {registry[d][id] : id \in Ids} \ {None} : clock[d] - reg.LastSeen < MaxAge}

-----------------------------------------------------------------------------
(* Properties.                                                             *)

Holds(d, reg) ==
    registry[d][reg.id] # None /\ registry[d][reg.id].LastSeen >= reg.LastSeen

(* One hop of gossip is enough: every registration that changed the        *)
(* directory it was made to is held there, and by each of that directory's *)
(* peers, in this or a newer version, unless its POST is still in flight   *)
(* or the peer has missed one.  Handlers race between clock, lock and      *)
(* POST, and POSTs overtake each other.                                    *)
GossipReaches ==
    \A reg \in issued : \A d \in Peers[reg.dir] \cup {reg.dir} :
        d \in missed \/ Holds(d, reg) \/ \E m \in gossips : m.to = d /\ m.reg = reg

(* Directories that all peer with each other and have missed nothing serve *)
(* the same relays and brokers whenever the gossip has settled and their   *)
(* clocks agree, however far apart the clocks were when they stamped.      *)
SameConsensus ==
    \A d, e \in Dirs :
        /\ gossips = {} /\ missed = {} /\ clock[d] = clock[e]
        /\ \A f \in Dirs : Peers[f] \cup {f} = Dirs
        => {reg.id : reg \in handleConsensus(d)} = {reg.id : reg \in handleConsensus(e)}

(* The servers implement the last-writer-wins registry, direct and         *)
(* gossiped registrations alike: one that is not strictly newer than what  *)
(* is held changes nothing.  The comment on storeRegistration says of a    *)
(* direct /register that "the update is unconditional"; the code's         *)
(* comparison of LastSeen makes no such difference.                        *)
Registry == INSTANCE LWWRegistry
RegistrySpec == Registry!Spec
====
