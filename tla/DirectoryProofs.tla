-------------------------- MODULE DirectoryProofs --------------------------
(***************************************************************************)
(* Proofs about Directory, for any directories, peers, clocks and bounds.  *)
(***************************************************************************)
EXTENDS Directory, TLAPS

(* A registration is filed under its own id, and every registration held   *)
(* or gossiped was issued by the directory it names.                       *)
Filed == \A d \in Dirs, id \in Ids :
            registry[d][id] # None => /\ registry[d][id].id = id
                                      /\ registry[d][id] \in issued

Sourced == \A m \in gossips : m.reg \in issued

(* The inductive invariant.                                                *)
IInv == TypeOK /\ Filed /\ Sourced /\ GossipReaches

-----------------------------------------------------------------------------
(* Type correctness.                                                       *)

(* The empty registries of newServer are well typed.                       *)
LEMMA TypeInit == Init => TypeOK
BY BoundsAssumption DEF Init, TypeOK, Stamps

(* Filing a registration in a directory keeps the registries well typed.   *)
LEMMA FileType ==
    ASSUME TypeOK, NEW d \in Dirs, NEW reg \in Registrations
    PROVE  [registry EXCEPT ![d][reg.id] = reg]
              \in [Dirs -> [Ids -> Registrations \cup {None}]]
BY DEF TypeOK, Registrations

(* gossip addresses one message to each peer.                              *)
LEMMA GossipType ==
    ASSUME TypeOK, NEW reg \in Registrations
    PROVE  gossip(reg) \subseteq Messages
<1>1. reg.dir \in Dirs
  BY DEF Registrations
<1>2. clock[reg.dir] \in Stamps /\ Peers[reg.dir] \subseteq Dirs
  BY <1>1, PeersAssumption DEF TypeOK
<1> QED
  BY <1>2 DEF gossip, Messages

(* Every handler, lost POST, restart and tick keeps the types.             *)
LEMMA TypeStep == TypeOK /\ [Next]_vars => TypeOK'
<1> SUFFICES ASSUME TypeOK, [Next]_vars PROVE TypeOK'
  OBVIOUS
<1>1. ASSUME NEW d \in Dirs, NEW id \in Ids, NEW content \in Contents,
             Register(d, id, content)
      PROVE TypeOK'
  <2>1. clock[d] \in Stamps
    BY DEF TypeOK
  <2>2. [dir |-> d, id |-> id, content |-> content, LastSeen |-> clock[d]]
           \in Registrations
    BY <2>1 DEF Registrations
  <2>3. registers' \in 0..MaxRegisters
    BY <1>1, BoundsAssumption DEF TypeOK, Register
  <2> QED
    BY <1>1, <2>2, <2>3 DEF TypeOK, Register
<1>2. ASSUME NEW reg \in pending, Store(reg)
      PROVE TypeOK'
  <2>1. reg \in Registrations /\ reg.dir \in Dirs
    BY DEF TypeOK, Registrations
  <2>2. gossip(reg) \subseteq Messages
    BY <2>1, GossipType
  <2>3. [registry EXCEPT ![reg.dir][reg.id] = reg]
           \in [Dirs -> [Ids -> Registrations \cup {None}]]
    BY <2>1, FileType
  <2> QED
    BY <1>2, <2>1, <2>2, <2>3 DEF TypeOK, Store
<1>3. ASSUME NEW m \in gossips, handleSync(m)
      PROVE TypeOK'
  <2>1. m.reg \in Registrations /\ m.to \in Dirs
    BY DEF TypeOK, Messages
  <2>2. [registry EXCEPT ![m.to][m.reg.id] = m.reg]
           \in [Dirs -> [Ids -> Registrations \cup {None}]]
    BY <2>1, FileType
  <2> QED
    BY <1>3, <2>1, <2>2 DEF TypeOK, handleSync
<1>4. ASSUME NEW m \in gossips, LoseGossip(m)
      PROVE TypeOK'
  BY <1>4 DEF TypeOK, LoseGossip, Messages
<1>5. ASSUME NEW d \in Dirs, Restart(d)
      PROVE TypeOK'
  <2>1. restarts' \in 0..MaxRestarts
    BY <1>5, BoundsAssumption DEF TypeOK, Restart
  <2> QED
    BY <1>5, <2>1 DEF TypeOK, Restart
<1>6. ASSUME NEW d \in Dirs, Tick(d)
      PROVE TypeOK'
  <2>1. clock[d] + 1 \in Stamps
    BY <1>6, BoundsAssumption DEF TypeOK, Tick, Stamps
  <2> QED
    BY <1>6, <2>1 DEF TypeOK, Tick
<1>7. CASE UNCHANGED vars
  BY <1>7 DEF TypeOK, vars
<1> QED
  BY <1>1, <1>2, <1>3, <1>4, <1>5, <1>6, <1>7 DEF Next

-----------------------------------------------------------------------------
(* The gossip invariant.                                                   *)

(* A registry that changes only by strictly newer registrations keeps      *)
(* holding what it held.                                                   *)
LEMMA HoldsStable ==
    ASSUME TypeOK, Filed,
           NEW d \in Dirs, NEW new \in Registrations,
           Newer(new, registry[d][new.id]),
           registry' = [registry EXCEPT ![d][new.id] = new],
           NEW e \in Dirs, NEW reg \in Registrations, Holds(e, reg)
    PROVE  Holds(e, reg)'
<1>1. /\ reg.id \in Ids /\ new.id \in Ids
      /\ reg.LastSeen \in Int /\ new.LastSeen \in Int
  BY BoundsAssumption DEF Registrations, Stamps
<1>2. CASE e = d /\ reg.id = new.id
  <2>1. registry'[e][reg.id] = new
    BY <1>1, <1>2 DEF TypeOK
  <2>2. registry[d][new.id] # None /\ registry[d][new.id].LastSeen \in Int
    BY <1>1, <1>2, BoundsAssumption DEF Holds, TypeOK, Registrations, Stamps
  <2>3. new.LastSeen >= reg.LastSeen
    BY <1>1, <1>2, <2>2 DEF Holds, Newer
  <2> QED
    BY <2>1, <2>3, NoneAssumption DEF Holds
<1>3. CASE ~ (e = d /\ reg.id = new.id)
  <2>1. registry'[e][reg.id] = registry[e][reg.id]
    BY <1>1, <1>3 DEF TypeOK
  <2> QED
    BY <2>1 DEF Holds
<1> QED
  BY <1>2, <1>3

(* What has just been filed, or was not newer than what is held, is held.  *)
LEMMA FiledHolds ==
    ASSUME TypeOK, NEW d \in Dirs, NEW reg \in Registrations,
           registry' = [registry EXCEPT ![d][reg.id] = reg]
    PROVE  Holds(d, reg)'
<1>1. reg.id \in Ids /\ reg.LastSeen \in Int
  BY BoundsAssumption DEF Registrations, Stamps
<1>2. registry'[d][reg.id] = reg
  BY <1>1 DEF TypeOK
<1> QED
  BY <1>1, <1>2, NoneAssumption DEF Holds

(* A registration storeRegistration does not apply is superseded by the    *)
(* one held.                                                               *)
LEMMA NotNewerHolds ==
    ASSUME TypeOK, NEW d \in Dirs, NEW reg \in Registrations,
           ~ Newer(reg, registry[d][reg.id])
    PROVE  Holds(d, reg)
<1>1. reg.id \in Ids /\ reg.LastSeen \in Int
  BY BoundsAssumption DEF Registrations, Stamps
<1>2. registry[d][reg.id] # None
  BY DEF Newer
<1>3. registry[d][reg.id] \in Registrations
  BY <1>1, <1>2 DEF TypeOK
<1>4. registry[d][reg.id].LastSeen \in Int
  BY <1>3, BoundsAssumption DEF Registrations, Stamps
<1> QED
  BY <1>1, <1>2, <1>4 DEF Newer, Holds

(* Filing an issued registration keeps Filed.                              *)
LEMMA FiledAfter ==
    ASSUME TypeOK, Filed, NEW d \in Dirs, NEW reg \in Registrations,
           registry' = [registry EXCEPT ![d][reg.id] = reg],
           reg \in issued', issued \subseteq issued'
    PROVE  Filed'
<1> SUFFICES ASSUME NEW e \in Dirs, NEW id \in Ids, registry'[e][id] # None
             PROVE  registry'[e][id].id = id /\ registry'[e][id] \in issued'
  BY DEF Filed
<1>1. reg.id \in Ids
  BY DEF Registrations
<1>2. CASE e = d /\ id = reg.id
  BY <1>1, <1>2 DEF TypeOK
<1>3. CASE ~ (e = d /\ id = reg.id)
  <2>1. registry'[e][id] = registry[e][id]
    BY <1>1, <1>3 DEF TypeOK
  <2> QED
    BY <2>1 DEF Filed
<1> QED
  BY <1>2, <1>3

(* Whatever a directory holds or gossips was issued, and stays filed under *)
(* its own id.                                                             *)
LEMMA SourceStep == TypeOK /\ Filed /\ Sourced /\ [Next]_vars => Filed' /\ Sourced'
<1> SUFFICES ASSUME TypeOK, Filed, Sourced, [Next]_vars PROVE Filed' /\ Sourced'
  OBVIOUS
<1>1. ASSUME NEW d \in Dirs, NEW id \in Ids, NEW content \in Contents,
             Register(d, id, content)
      PROVE Filed' /\ Sourced'
  BY <1>1 DEF Filed, Sourced, Register
<1>2. ASSUME NEW reg \in pending, Store(reg)
      PROVE Filed' /\ Sourced'
  <2>1. reg \in Registrations /\ reg.dir \in Dirs
    BY DEF TypeOK, Registrations
  <2>2. CASE Newer(reg, registry[reg.dir][reg.id])
    <3>1. Filed'
      <4>1. /\ registry' = [registry EXCEPT ![reg.dir][reg.id] = reg]
            /\ reg \in issued' /\ issued \subseteq issued'
        BY <1>2, <2>2 DEF Store
      <4> QED
        BY <2>1, <4>1, FiledAfter
    <3>2. Sourced'
      BY <1>2, <2>2 DEF Sourced, Store, gossip
    <3> QED
      BY <3>1, <3>2
  <2>3. CASE ~ Newer(reg, registry[reg.dir][reg.id])
    BY <1>2, <2>3 DEF Filed, Sourced, Store
  <2> QED
    BY <2>2, <2>3
<1>3. ASSUME NEW m \in gossips, handleSync(m)
      PROVE Filed' /\ Sourced'
  <2>1. m.reg \in Registrations /\ m.to \in Dirs
    BY DEF TypeOK, Messages
  <2>2. m.reg \in issued /\ issued' = issued
    BY <1>3 DEF Sourced, handleSync
  <2>3. Filed'
    <3>1. CASE registry' = [registry EXCEPT ![m.to][m.reg.id] = m.reg]
      BY <2>1, <2>2, <3>1, FiledAfter
    <3>2. CASE registry' = registry
      BY <2>2, <3>2 DEF Filed
    <3> QED
      BY <1>3, <3>1, <3>2 DEF handleSync
  <2>4. Sourced'
    BY <1>3 DEF Sourced, handleSync
  <2> QED
    BY <2>3, <2>4
<1>4. ASSUME NEW m \in gossips, LoseGossip(m)
      PROVE Filed' /\ Sourced'
  BY <1>4 DEF Filed, Sourced, LoseGossip
<1>5. ASSUME NEW d \in Dirs, Restart(d)
      PROVE Filed' /\ Sourced'
  <2>1. Sourced'
    BY <1>5 DEF Sourced, Restart
  <2>2. ASSUME NEW e \in Dirs, NEW id \in Ids, registry'[e][id] # None
        PROVE  registry'[e][id].id = id /\ registry'[e][id] \in issued'
    <3>1. registry'[e][id] = registry[e][id]
      BY <1>5, <2>2 DEF Restart, TypeOK
    <3> QED
      BY <1>5, <2>2, <3>1 DEF Filed, Restart
  <2> QED
    BY <2>1, <2>2 DEF Filed
<1>6. ASSUME NEW d \in Dirs, Tick(d)
      PROVE Filed' /\ Sourced'
  BY <1>6 DEF Filed, Sourced, Tick
<1>7. CASE UNCHANGED vars
  BY <1>7 DEF Filed, Sourced, vars
<1> QED
  BY <1>1, <1>2, <1>3, <1>4, <1>5, <1>6, <1>7 DEF Next

(* One registration's part of GossipReaches at one directory.              *)
Reaches(d, reg) ==
    d \in missed \/ Holds(d, reg) \/ \E m \in gossips : m.to = d /\ m.reg = reg

(* Every step keeps GossipReaches: Store adds the POSTs it owes,           *)
(* handleSync delivers one, and what is held is only replaced by newer.    *)
LEMMA ReachesStep == IInv /\ [Next]_vars => GossipReaches'
<1> SUFFICES ASSUME IInv, [Next]_vars,
                    NEW reg \in issued', NEW d \in Peers[reg.dir] \cup {reg.dir}
             PROVE  Reaches(d, reg)'
  BY DEF GossipReaches, Reaches, Holds
<1>0. /\ TypeOK /\ Filed /\ TypeOK'
      /\ reg \in Registrations /\ reg.dir \in Dirs /\ d \in Dirs
      /\ reg \in issued => Reaches(d, reg)
  <2>1. TypeOK'
    BY TypeStep DEF IInv
  <2>2. reg \in Registrations /\ reg.dir \in Dirs
    BY <2>1 DEF TypeOK, Registrations
  <2> QED
    BY <2>1, <2>2, PeersAssumption DEF IInv, GossipReaches, Reaches
<1>1. ASSUME NEW e \in Dirs, NEW id \in Ids, NEW content \in Contents,
             Register(e, id, content)
      PROVE Reaches(d, reg)'
  BY <1>0, <1>1 DEF Reaches, Holds, Register
<1>2. ASSUME NEW new \in pending, Store(new)
      PROVE Reaches(d, reg)'
  <2>1. new \in Registrations /\ new.dir \in Dirs
    BY <1>0 DEF TypeOK, Registrations
  <2>2. CASE ~ Newer(new, registry[new.dir][new.id])
    BY <1>0, <1>2, <2>2 DEF Reaches, Holds, Store
  <2>3. CASE Newer(new, registry[new.dir][new.id])
    <3>1. /\ registry' = [registry EXCEPT ![new.dir][new.id] = new]
          /\ issued' = issued \cup {new}
          /\ gossips' = gossips \cup gossip(new)
          /\ missed' = missed
      BY <1>2, <2>3 DEF Store
    <3>2. CASE reg = new
      <4>1. CASE d = new.dir
        BY <1>0, <2>1, <3>1, <3>2, <4>1, FiledHolds DEF Reaches
      <4>2. CASE d \in Peers[new.dir]
        <5> DEFINE m == [to |-> d, reg |-> new, Timestamp |-> clock[new.dir]]
        <5>1. m \in gossips'
          BY <3>1, <4>2 DEF gossip
        <5>2. m.to = d /\ m.reg = reg
          BY <3>2
        <5> QED
          BY <5>1, <5>2 DEF Reaches
      <4> QED
        BY <3>2, <4>1, <4>2
    <3>3. CASE reg \in issued
      <4>1. CASE Holds(d, reg)
        BY <1>0, <2>1, <2>3, <3>1, <4>1, HoldsStable DEF Reaches
      <4>2. CASE ~ Holds(d, reg)
        BY <1>0, <3>1, <3>3, <4>2 DEF Reaches
      <4> QED
        BY <4>1, <4>2
    <3> QED
      BY <3>1, <3>2, <3>3
  <2> QED
    BY <2>2, <2>3
<1>3. ASSUME NEW m \in gossips, handleSync(m)
      PROVE Reaches(d, reg)'
  <2>1. /\ m.reg \in Registrations /\ m.to \in Dirs
        /\ reg \in issued /\ missed \subseteq missed'
    BY <1>0, <1>3 DEF TypeOK, Messages, handleSync
  <2>2. Holds(d, reg) => Holds(d, reg)'
    <3>1. CASE registry' = registry
      BY <3>1 DEF Holds
    <3>2. CASE /\ registry' = [registry EXCEPT ![m.to][m.reg.id] = m.reg]
               /\ Newer(m.reg, registry[m.to][m.reg.id])
      BY <1>0, <2>1, <3>2, HoldsStable
    <3> QED
      BY <1>3, <3>1, <3>2 DEF handleSync
  <2>3. CASE m.to = d /\ m.reg = reg
    <3>1. CASE ~ InWindow(m)
      BY <1>3, <2>3, <3>1 DEF handleSync, Reaches
    <3>2. CASE InWindow(m) /\ Newer(m.reg, registry[m.to][m.reg.id])
      <4>1. registry' = [registry EXCEPT ![m.to][m.reg.id] = m.reg]
        BY <1>3, <3>2 DEF handleSync
      <4> QED
        BY <1>0, <2>1, <2>3, <4>1, FiledHolds DEF Reaches
    <3>3. CASE InWindow(m) /\ ~ Newer(m.reg, registry[m.to][m.reg.id])
      <4>1. Holds(d, reg)
        BY <1>0, <2>1, <2>3, <3>3, NotNewerHolds
      <4> QED
        BY <2>2, <4>1 DEF Reaches
    <3> QED
      BY <3>1, <3>2, <3>3
  <2>4. CASE ~ (m.to = d /\ m.reg = reg)
    <3>1. \A n \in gossips : n.to = d /\ n.reg = reg => n \in gossips'
      BY <1>3, <2>4 DEF handleSync
    <3> QED
      BY <1>0, <2>1, <2>2, <3>1 DEF Reaches
  <2> QED
    BY <2>3, <2>4
<1>4. ASSUME NEW m \in gossips, LoseGossip(m)
      PROVE Reaches(d, reg)'
  BY <1>0, <1>4 DEF Reaches, Holds, LoseGossip
<1>5. ASSUME NEW e \in Dirs, Restart(e)
      PROVE Reaches(d, reg)'
  <2>1. CASE d = e
    BY <1>5, <2>1 DEF Restart, Reaches
  <2>2. CASE d # e
    <3>1. registry'[d] = registry[d]
      BY <1>0, <1>5, <2>2 DEF Restart, TypeOK
    <3> QED
      BY <1>0, <1>5, <3>1 DEF Restart, Reaches, Holds
  <2> QED
    BY <2>1, <2>2
<1>6. ASSUME NEW e \in Dirs, Tick(e)
      PROVE Reaches(d, reg)'
  BY <1>0, <1>6 DEF Reaches, Holds, Tick
<1>7. CASE UNCHANGED vars
  BY <1>0, <1>7 DEF Reaches, Holds, vars
<1> QED
  BY <1>1, <1>2, <1>3, <1>4, <1>5, <1>6, <1>7 DEF Next

(* The inductive invariant holds of handleRegister, gossip and handleSync  *)
(* under every interleaving.                                               *)
THEOREM Invariant == Spec => []IInv
<1>1. Init => IInv
  <2>1. ASSUME Init PROVE Filed /\ Sourced /\ GossipReaches
    BY <2>1 DEF Init, Filed, Sourced, GossipReaches
  <2> QED
    BY <2>1, TypeInit DEF IInv
<1>2. IInv /\ [Next]_vars => IInv'
  BY TypeStep, SourceStep, ReachesStep DEF IInv
<1> QED
  BY <1>1, <1>2, PTL DEF Spec

(* Every variable keeps its type in every behaviour of the directories.    *)
THEOREM TypeCorrect == Spec => []TypeOK
<1>1. IInv => TypeOK
  BY DEF IInv
<1> QED
  BY <1>1, Invariant, PTL

(* One hop of gossip brings every registration that changed its directory  *)
(* to each of that directory's peers (gossip and handleSync), for any peer *)
(* graph.                                                                  *)
THEOREM GossipReachesAll == Spec => []GossipReaches
<1>1. IInv => GossipReaches
  BY DEF IInv
<1> QED
  BY <1>1, Invariant, PTL

-----------------------------------------------------------------------------
(* The consensus.                                                          *)

(* What one directory serves, another that has heard of everything serves  *)
(* too, in the same or a newer version.                                    *)
LEMMA ServedElsewhere ==
    ASSUME IInv, NEW d \in Dirs, NEW e \in Dirs,
           gossips = {}, missed = {}, clock[d] = clock[e],
           \A f \in Dirs : Peers[f] \cup {f} = Dirs,
           NEW reg \in handleConsensus(d)
    PROVE  \E other \in handleConsensus(e) : other.id = reg.id
<1>1. PICK id \in Ids : reg = registry[d][id]
  BY DEF handleConsensus
<1>2. reg # None /\ clock[d] - reg.LastSeen < MaxAge
  BY DEF handleConsensus
<1>3. reg.id = id /\ reg \in issued
  BY <1>1, <1>2 DEF IInv, Filed
<1>4. reg \in Registrations /\ reg.dir \in Dirs
  BY <1>3 DEF IInv, TypeOK, Registrations
<1>5. Holds(e, reg)
  BY <1>3, <1>4 DEF IInv, GossipReaches
<1> DEFINE other == registry[e][id]
<1>6. other # None /\ other.LastSeen >= reg.LastSeen
  BY <1>3, <1>5 DEF Holds
<1>7. other \in Registrations
  BY <1>6 DEF IInv, TypeOK
<1>8. /\ other.LastSeen \in Int /\ reg.LastSeen \in Int
      /\ clock[e] \in Int /\ MaxAge \in Int
  BY <1>4, <1>7, BoundsAssumption DEF Registrations, Stamps, IInv, TypeOK
<1>9. clock[e] - other.LastSeen < MaxAge
  BY <1>2, <1>6, <1>8
<1>10. other.id = id
  BY <1>6 DEF IInv, Filed
<1>11. other \in handleConsensus(e)
  BY <1>6, <1>9 DEF handleConsensus
<1> QED
  BY <1>3, <1>10, <1>11

(* Settled directories of a mesh serve the same relays and brokers         *)
(* (handleConsensus after handleRegister, gossip and handleSync).          *)
THEOREM ConsensusAgrees == Spec => []SameConsensus
<1>1. IInv => SameConsensus
  <2> SUFFICES ASSUME IInv, NEW d \in Dirs, NEW e \in Dirs,
                      gossips = {}, missed = {}, clock[d] = clock[e],
                      \A f \in Dirs : Peers[f] \cup {f} = Dirs
               PROVE  {reg.id : reg \in handleConsensus(d)}
                         = {reg.id : reg \in handleConsensus(e)}
    BY DEF SameConsensus
  <2>1. \A reg \in handleConsensus(d) :
           \E other \in handleConsensus(e) : other.id = reg.id
    BY ServedElsewhere
  <2>2. \A reg \in handleConsensus(e) :
           \E other \in handleConsensus(d) : other.id = reg.id
    BY ServedElsewhere
  <2> QED
    BY <2>1, <2>2
<1> QED
  BY <1>1, Invariant, PTL

-----------------------------------------------------------------------------
(* The directories implement the last-writer-wins registry: a Store that   *)
(* changes state is an Accept, a handleSync that does is a Learn of a      *)
(* registration issued before, a Restart is a Forget, and every other step *)
(* leaves the registry alone.                                              *)
THEOREM ImplementsRegistry == Spec => RegistrySpec
<1>1. Init => Registry!Init
  BY DEF Init, Registry!Init
<1>2. IInv /\ [Next]_vars => [Registry!Next]_<<registry, issued>>
  <2> SUFFICES ASSUME IInv, [Next]_vars
               PROVE  Registry!Next \/ UNCHANGED <<registry, issued>>
    OBVIOUS
  <2>1. ASSUME NEW d \in Dirs, NEW id \in Ids, NEW content \in Contents,
               Register(d, id, content)
        PROVE UNCHANGED <<registry, issued>>
    BY <2>1 DEF Register
  <2>2. ASSUME NEW reg \in pending, Store(reg)
        PROVE Registry!Next \/ UNCHANGED <<registry, issued>>
    <3>1. reg \in Registry!Registrations
      BY DEF IInv, TypeOK, Registrations, Registry!Registrations
    <3>2. CASE Newer(reg, registry[reg.dir][reg.id])
      <4>1. Registry!Accept(reg)
        BY <2>2, <3>2 DEF Store, Newer, Registry!Accept, Registry!Hold,
                          Registry!Supersedes
      <4> QED
        BY <3>1, <4>1 DEF Registry!Next
    <3>3. CASE ~ Newer(reg, registry[reg.dir][reg.id])
      BY <2>2, <3>3 DEF Store
    <3> QED
      BY <3>2, <3>3
  <2>3. ASSUME NEW m \in gossips, handleSync(m)
        PROVE Registry!Next \/ UNCHANGED <<registry, issued>>
    <3>1. m.to \in Dirs /\ m.reg \in issued
      BY DEF IInv, TypeOK, Messages, Sourced
    <3>2. CASE InWindow(m) /\ Newer(m.reg, registry[m.to][m.reg.id])
      <4>1. Registry!Learn(m.to, m.reg)
        BY <2>3, <3>2 DEF handleSync, Newer, Registry!Learn, Registry!Hold,
                          Registry!Supersedes
      <4> QED
        BY <3>1, <4>1 DEF Registry!Next
    <3>3. CASE ~ (InWindow(m) /\ Newer(m.reg, registry[m.to][m.reg.id]))
      BY <2>3, <3>3 DEF handleSync
    <3> QED
      BY <3>2, <3>3
  <2>4. ASSUME NEW m \in gossips, LoseGossip(m)
        PROVE UNCHANGED <<registry, issued>>
    BY <2>4 DEF LoseGossip
  <2>5. ASSUME NEW d \in Dirs, Restart(d)
        PROVE Registry!Next
    BY <2>5 DEF Restart, Registry!Next, Registry!Forget
  <2>6. ASSUME NEW d \in Dirs, Tick(d)
        PROVE UNCHANGED <<registry, issued>>
    BY <2>6 DEF Tick
  <2>7. CASE UNCHANGED vars
    BY <2>7 DEF vars
  <2> QED
    BY <2>1, <2>2, <2>3, <2>4, <2>5, <2>6, <2>7 DEF Next
<1> QED
  BY <1>1, <1>2, Invariant, PTL DEF Spec, RegistrySpec, Registry!Spec
====
