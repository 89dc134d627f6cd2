---------------------------- MODULE PathsProofs ----------------------------
(***************************************************************************)
(* Proofs about Paths, for all sets of relays, consensuses and builders.   *)
(***************************************************************************)
EXTENDS Paths, SequenceTheorems, TLAPS

Labels == {"idle", "guard", "truncate", "write", "rest", "assign", "tail", "volunteer",
           "done", "failed"}
Hops == Seq(Relays)

(* How long a path is at each step of a build.                             *)
ShapeAt(l, p) ==
    /\ l \in {"guard", "tail"} => p = <<>>
    /\ l \in {"truncate", "write", "rest"} => Len(p) = 1
    /\ l = "assign" => Len(p) \in 0..2
    /\ l = "volunteer" => Len(p) = 2
    /\ l = "done" => Len(p) = 3

Shape == \A b \in Builders : ShapeAt(pc[b], path[b])

BuilderTypes ==
    /\ pc \in [Builders -> Labels]
    /\ snap \in [Builders -> Lists \cup {NoList}]
    /\ path \in [Builders -> Hops]
    /\ Shape

OtherTypes ==
    /\ mode \in Modes /\ consensus \in Lists
    /\ list \in [Holders -> Lists \cup {NoList}]
    /\ guardFile \in Relays \cup {NoRelay, Torn} /\ raced \subseteq Builders
    /\ token \subseteq Tokens
    /\ served \subseteq Lists /\ now \in 0..MaxNow

TypeInv == BuilderTypes /\ OtherTypes

(* The type invariant follows.                                             *)
LEMMA TypeInvOK == TypeInv => TypeOK
BY DEF TypeInv, BuilderTypes, OtherTypes, TypeOK, Labels, Hops, Shape, ShapeAt

(* Builder b moves to l with path p.                                       *)
Moves(b) ==
    \E l \in Labels, p \in Hops :
        /\ ShapeAt(l, p)
        /\ pc' = [pc EXCEPT ![b] = l]
        /\ path' = [path EXCEPT ![b] = p]

(* pickRelay, pick and pickEntry return relays.                            *)
LEMMA WithRoleRelays ==
    \A l \in Lists \cup {NoList} : \A role : WithRole(l, role) \subseteq Relays
<1>1. DOMAIN NoList.role = {}
  BY DEF NoList
<1> QED
  BY <1>1, PathsAssumption DEF WithRole

(* Init establishes the type invariant.                                    *)
LEMMA TypeInit == Init => TypeInv
<1> SUFFICES ASSUME Init PROVE TypeInv
  OBVIOUS
<1>1. now \in 0..MaxNow
  BY PathsAssumption DEF Init
<1>2. Len(<<>>) = 0 /\ <<>> \in Hops
  BY DEF Hops
<1> QED
  BY <1>1, <1>2 DEF Init, TypeInv, BuilderTypes, OtherTypes, Shape, ShapeAt, Labels, Holders

(* A move keeps the types of the builders.                                 *)
LEMMA TypeMove ==
    ASSUME BuilderTypes, NEW b \in Builders, Moves(b), UNCHANGED snap
    PROVE  BuilderTypes'
BY DEF BuilderTypes, Moves, Shape

(* So does the first step of a build.                                      *)
LEMMA TypeBegin ==
    ASSUME BuilderTypes, NEW b \in Builders, NEW l \in Lists \cup {NoList}, Begin(b, l)
    PROVE  BuilderTypes'
<1>1. buildOne(l) \in {"tail", "assign", "failed", "guard"}
  BY DEF buildOne
<1>2. Len(<<>>) = 0 /\ <<>> \in Hops
  BY DEF Hops
<1>3. ShapeAt(buildOne(l), <<>>) /\ buildOne(l) \in Labels
  BY <1>1, <1>2 DEF ShapeAt, Labels
<1> QED
  BY <1>2, <1>3 DEF Begin, BuilderTypes, Shape

(* Every step of a build is a move.                                        *)
LEMMA BuildMoves ==
    ASSUME TypeInv, NEW b \in Builders, Build(b)
    PROVE  Moves(b) /\ UNCHANGED snap
<1> USE DEF Goto
<1>1. /\ \A role : pickRelay(snap[b], role) \subseteq Relays
      /\ \A h \in Holders : \A role : WithRole(list[h], role) \subseteq Relays
  BY WithRoleRelays DEF TypeInv, BuilderTypes, OtherTypes, pickRelay
<1>2. path[b] \in Hops /\ <<>> \in Hops /\ ShapeAt(pc[b], path[b])
  BY DEF TypeInv, BuilderTypes, Hops, Shape
<1>3. UNCHANGED snap
  BY DEF Build, loadOrPickGuard, TruncateGuard, WriteGuard, WriteGuardFails, buildDirect,
         buildViaKind, pickEntry, handleAssign
<1>4. Fails(b) => Moves(b)
  BY <1>2 DEF Fails, Moves, Labels, ShapeAt
<1>5. CASE loadOrPickGuard(b)
  <2>1. ASSUME NEW g \in Relays
        PROVE  <<g>> \in Hops /\ Len(<<g>>) = 1
    BY DEF Hops
  <2>2. ~ Fails(b) => \E g \in Relays : /\ path' = [path EXCEPT ![b] = <<g>>]
                                        /\ Goto(b, "rest") \/ Goto(b, "truncate")
    BY <1>1, <1>5 DEF loadOrPickGuard, loadGuard
  <2> QED
    BY <1>3, <1>4, <2>1, <2>2 DEF Moves, Labels, ShapeAt
<1>6. CASE TruncateGuard(b) \/ WriteGuard(b) \/ WriteGuardFails(b)
  <2>1. path' = [path EXCEPT ![b] = path[b]]
    BY <1>6 DEF TruncateGuard, WriteGuard, WriteGuardFails, TypeInv, BuilderTypes
  <2> QED
    BY <1>2, <1>3, <1>6, <2>1
       DEF TruncateGuard, WriteGuard, WriteGuardFails, Moves, Labels, ShapeAt
<1>7. CASE buildDirect(b)
  <2>1. path[b][1] \in Relays
    BY <1>2, <1>7 DEF buildDirect, ShapeAt, Hops
  <2>2. ASSUME NEW m \in Relays, NEW x \in Relays
        PROVE  <<path[b][1], m, x>> \in Hops /\ Len(<<path[b][1], m, x>>) = 3
    BY <2>1 DEF Hops
  <2>3. ~ Fails(b) => \E m \in Relays, x \in Relays :
             /\ path' = [path EXCEPT ![b] = <<path[b][1], m, x>>]
             /\ Goto(b, "done")
    BY <1>1, <1>7 DEF buildDirect
  <2> QED
    BY <1>3, <1>4, <2>2, <2>3 DEF Moves, Labels, ShapeAt
<1>8. CASE buildViaKind(b)
  <2>1. ASSUME NEW m \in Relays, NEW x \in Relays
        PROVE  <<m, x>> \in Hops /\ Len(<<m, x>>) = 2
    BY DEF Hops
  <2>2. ~ Fails(b) => \E m \in Relays, x \in Relays :
             /\ path' = [path EXCEPT ![b] = <<m, x>>]
             /\ Goto(b, "volunteer")
    BY <1>1, <1>8 DEF buildViaKind
  <2> QED
    BY <1>3, <1>4, <2>1, <2>2 DEF Moves, Labels, ShapeAt
<1>9. CASE pickEntry(b)
  <2>1. path[b][1] \in Relays /\ path[b][2] \in Relays
    BY <1>2, <1>9 DEF pickEntry, ShapeAt, Hops
  <2>2. ASSUME NEW e \in Relays
        PROVE  /\ <<e, path[b][1], path[b][2]>> \in Hops
               /\ Len(<<e, path[b][1], path[b][2]>>) = 3
    BY <2>1 DEF Hops
  <2>3. ~ Fails(b) => \E e \in Relays :
             /\ path' = [path EXCEPT ![b] = <<e, path[b][1], path[b][2]>>]
             /\ Goto(b, "done")
    BY <1>1, <1>9 DEF pickEntry, Holders
  <2> QED
    BY <1>3, <1>4, <2>2, <2>3 DEF Moves, Labels, ShapeAt
<1>10. CASE handleAssign(b)
  <2>1. Len(path[b]) \in 0..2
    BY <1>2, <1>10 DEF handleAssign, ShapeAt
  <2>2. ASSUME NEW r \in Relays
        PROVE  Append(path[b], r) \in Hops /\ Len(Append(path[b], r)) = Len(path[b]) + 1
    BY <1>2 DEF Hops
  <2>3. PathRoles[Len(path[b]) + 1] = "exit" <=> Len(path[b]) = 2
    <3>1. Len(path[b]) = 0 \/ Len(path[b]) = 1 \/ Len(path[b]) = 2
      BY <2>1
    <3>2. PathRoles[0 + 1] = "entry" /\ PathRoles[1 + 1] = "middle" /\ PathRoles[2 + 1] = "exit"
      BY DEF PathRoles
    <3> QED
      BY <3>1, <3>2
  <2>4. ~ Fails(b) => \E r \in Relays :
             /\ path' = [path EXCEPT ![b] = Append(path[b], r)]
             /\ IF Len(path[b]) = 2 THEN Goto(b, "done") ELSE Goto(b, "assign")
    BY <1>1, <1>10, <2>3 DEF handleAssign, pick, Holders
  <2>5. CASE Len(path[b]) = 2
    <3>a. 2 + 1 = 3
      OBVIOUS
    <3>1. \A r \in Relays : Len(Append(path[b], r)) = 3
      BY <2>2, <2>5, <3>a, Zenon
    <3>2. \A p : Len(p) = 3 => ShapeAt("done", p)
      BY DEF ShapeAt
    <3>3. \A r \in Relays : ShapeAt("done", Append(path[b], r))
      BY <3>1, <3>2, Zenon
    <3> QED
      BY <1>3, <1>4, <2>2, <2>4, <2>5, <3>3 DEF Moves, Labels
  <2>6. CASE Len(path[b]) # 2
    <3>1. \A n \in 0..2 : n # 2 => n + 1 \in 0..2
      OBVIOUS
    <3>2. \A r \in Relays : Len(Append(path[b], r)) \in 0..2
      BY <2>1, <2>2, <2>6, <3>1, Zenon
    <3>3. \A p : Len(p) \in 0..2 => ShapeAt("assign", p)
      BY DEF ShapeAt
    <3>4. \A r \in Relays : ShapeAt("assign", Append(path[b], r))
      BY <3>2, <3>3, Zenon
    <3> QED
      BY <1>3, <1>4, <2>2, <2>4, <2>6, <3>4 DEF Moves, Labels
  <2> QED
    BY <2>5, <2>6
<1> QED
  BY <1>3, <1>5, <1>6, <1>7, <1>8, <1>9, <1>10 DEF Build

(* Every step keeps the type invariant.                                    *)
LEMMA TypeNext ==
    ASSUME TypeInv, [Next]_vars
    PROVE  TypeInv'
<1> USE DEF builderVars, fileVars, brokerVars, bounds
<1>1. ASSUME UNCHANGED builderVars
      PROVE  BuilderTypes'
  BY <1>1 DEF TypeInv, BuilderTypes, Shape
<1>2. ASSUME NEW b \in Builders, Build(b)
      PROVE  TypeInv'
  <2>1. BuilderTypes'
    BY <1>2, BuildMoves, TypeMove DEF TypeInv
  <2>2. UNCHANGED <<mode, consensus, list, served, now>> /\ raced' \subseteq Builders
    BY <1>2 DEF Build, loadOrPickGuard, TruncateGuard, WriteGuard, WriteGuardFails, buildDirect,
                buildViaKind, pickEntry, handleAssign, TypeInv, OtherTypes
  <2>3. guardFile' \in Relays \cup {NoRelay, Torn}
    <3>1. pc[b] = "write" => path[b][1] \in Relays
      BY DEF TypeInv, BuilderTypes, Shape, ShapeAt, Hops
    <3> QED
      BY <1>2, <3>1 DEF Build, loadOrPickGuard, TruncateGuard, WriteGuard, WriteGuardFails,
                buildDirect, buildViaKind, pickEntry, handleAssign, TypeInv, OtherTypes
  <2>4. token' \subseteq Tokens
    <3>1. CASE UNCHANGED token
      BY <3>1 DEF TypeInv, OtherTypes
    <3>2. CASE ~ UNCHANGED token
      <4>1. PICK r \in pick(PathRoles[Len(path[b]) + 1]) :
               token' = {[relay |-> r, exp |-> now + TokenTTL, stored |-> TRUE]}
        BY <1>2, <3>2 DEF Build, loadOrPickGuard, TruncateGuard, WriteGuard, WriteGuardFails,
                buildDirect, buildViaKind, pickEntry, handleAssign, issue
      <4>a. list["broker"] \in Lists \cup {NoList}
        BY DEF TypeInv, OtherTypes, Holders
      <4>b. r \in Relays
        BY <4>1, <4>a, WithRoleRelays DEF pick
      <4>2. r \in Relays /\ now + TokenTTL \in Nat
        BY <4>b, PathsAssumption DEF TypeInv, OtherTypes
      <4> QED
        BY <4>1, <4>2 DEF Tokens
    <3> QED
      BY <3>1, <3>2
  <2> QED
    BY <2>1, <2>2, <2>3, <2>4 DEF TypeInv, OtherTypes
<1>3. ASSUME NEW l \in Lists, Change(l)
      PROVE  TypeInv'
  BY <1>1, <1>3 DEF Change, TypeInv, OtherTypes
<1>4. CASE pollConsensus \/ refreshConsensus
  BY <1>1, <1>4 DEF pollConsensus, refreshConsensus, TypeInv, OtherTypes
<1>5. CASE Rotate
  <2>1. BuilderTypes'
    BY <1>1, <1>5, TypeBegin, PathsAssumption DEF Rotate, TypeInv, OtherTypes
  <2> QED
    BY <1>5, <2>1 DEF Rotate, TypeInv, OtherTypes
<1>6. CASE NextOfAll
  <2>1. snap[Rotation] \in Lists \cup {NoList}
    BY PathsAssumption DEF TypeInv, BuilderTypes
  <2>2. BuilderTypes'
    BY <1>6, <2>1, TypeBegin, PathsAssumption DEF NextOfAll, TypeInv
  <2> QED
    BY <1>6, <2>2 DEF NextOfAll, TypeInv, OtherTypes
<1>7. ASSUME NEW b \in Builders, Rebuild(b)
      PROVE  TypeInv'
  <2>1. list["client"] \in Lists \cup {NoList}
    BY DEF TypeInv, OtherTypes, Holders
  <2>2. BuilderTypes'
    BY <1>7, <2>1, TypeBegin DEF Rebuild, TypeInv
  <2> QED
    BY <1>7, <2>2 DEF Rebuild, TypeInv, OtherTypes
<1>8. CASE Crash
  <2>1. BuilderTypes'
    <3>1. <<>> \in Hops
      BY DEF Hops
    <3> QED
      BY <1>8, <3>1 DEF Crash, BuilderTypes, Shape, ShapeAt, Labels
  <2> QED
    BY <1>8, <2>1 DEF Crash, TypeInv, OtherTypes
<1>9. CASE RestartBroker
  <2>1. list' \in [Holders -> Lists \cup {NoList}]
    BY <1>9 DEF RestartBroker, TypeInv, OtherTypes
  <2> QED
    BY <1>1, <1>9, <2>1 DEF RestartBroker, TypeInv, OtherTypes
<1>10. CASE validate \/ gc
  <2>1. \A t \in Tokens : Forget(t) \in Tokens
    BY DEF Forget, Tokens
  <2>2. token' \subseteq Tokens
    BY <1>10, <2>1 DEF validate, gc, TypeInv, OtherTypes
  <2> QED
    BY <1>1, <1>10, <2>2 DEF validate, gc, TypeInv, OtherTypes
<1>11. CASE Tick
  <2>1. now' \in 0..MaxNow
    BY <1>11, PathsAssumption DEF Tick, TypeInv, OtherTypes
  <2> QED
    BY <1>1, <1>11, <2>1 DEF Tick, TypeInv, OtherTypes
<1>12. CASE UNCHANGED vars
  BY <1>1, <1>12 DEF vars, TypeInv, OtherTypes
<1> QED
  BY <1>2, <1>3, <1>4, <1>5, <1>6, <1>7, <1>8, <1>9, <1>10, <1>11, <1>12 DEF Next

(* TypeOK for every value of the constants.                                *)
THEOREM TypeCorrect == Spec => []TypeOK
<1>1. Spec => []TypeInv
  BY TypeInit, TypeNext, PTL DEF Spec
<1> QED
  BY <1>1, TypeInvOK, PTL

-----------------------------------------------------------------------------
(* The hops chosen so far were listed, under the role of their place, in   *)
(* some list of L.                                                         *)
Listed(L, r, role) == \E l \in L : r \in WithRole(l, role)

GoodPath(L, l, p) ==
    /\ l \in {"truncate", "write", "rest"} => Listed(L, p[1], "entry")
    /\ l = "assign" /\ Len(p) >= 1 => Listed(L, p[1], "entry")
    /\ l = "assign" /\ Len(p) >= 2 => Listed(L, p[2], "middle")
    /\ l = "volunteer" => Listed(L, p[1], "middle") /\ Listed(L, p[2], "exit")
    /\ l = "done" => /\ Listed(L, p[1], "entry")
                     /\ Listed(L, p[2], "middle")
                     /\ Listed(L, p[3], "exit")

(* All lists in use have been served, and so have been the hops' roles; in *)
(* direct mode the builder's own list has them all.                        *)
PathInv ==
    /\ consensus \in served
    /\ \A h \in Holders : list[h] \in served \cup {NoList}
    /\ \A b \in Builders : /\ snap[b] \in served \cup {NoList}
                           /\ GoodPath(served, pc[b], path[b])
    /\ mode = "direct" => \A b \in Builders :
                              /\ pc[b] \notin {"assign", "tail", "volunteer"}
                              /\ GoodPath({snap[b]}, pc[b], path[b])

(* A longer list of lists has the same hops.                               *)
LEMMA GoodPathMonotone ==
    ASSUME NEW L, NEW K, L \subseteq K, NEW l, NEW p, GoodPath(L, l, p)
    PROVE  GoodPath(K, l, p)
<1>1. \A r, role : Listed(L, r, role) => Listed(K, r, role)
  BY DEF Listed
<1> QED
  BY <1>1, Zenon DEF GoodPath

(* No relay is picked from the empty list.                                 *)
LEMMA PickListed ==
    ASSUME NEW L, NEW k \in L \cup {NoList}, NEW role, NEW r \in WithRole(k, role)
    PROVE  Listed(L, r, role)
<1>1. DOMAIN NoList.role = {}
  BY DEF NoList
<1>2. k \in L
  BY SMTT(30), <1>1 DEF WithRole
<1> QED
  BY <1>2, Zenon DEF Listed

(* A build step chooses its hops from the builder's list, the broker's or  *)
(* the volunteer's.                                                        *)
LEMMA GoodBuild ==
    ASSUME TypeInv, NEW b \in Builders, Build(b), NEW L,
           snap[b] \in L \cup {NoList},
           pc[b] = "assign" => list["broker"] \in L \cup {NoList},
           pc[b] = "volunteer" => list["volunteer"] \in L \cup {NoList},
           GoodPath(L, pc[b], path[b])
    PROVE  GoodPath(L, pc'[b], path'[b])
<1> USE DEF Goto
<1>1. /\ pc \in [Builders -> Labels] /\ path \in [Builders -> Seq(Relays)]
      /\ ShapeAt(pc[b], path[b])
  BY DEF TypeInv, BuilderTypes, Hops, Shape
<1>2. \A role : \A r \in pickRelay(snap[b], role) : Listed(L, r, role)
  BY PickListed DEF pickRelay
<1>3. Fails(b) => GoodPath(L, pc'[b], path'[b])
  BY <1>1 DEF Fails, GoodPath
<1>4. CASE loadOrPickGuard(b)
  <2>1. ~ Fails(b) => \E g : /\ Listed(L, g, "entry")
                             /\ path' = [path EXCEPT ![b] = <<g>>]
                             /\ Goto(b, "rest") \/ Goto(b, "truncate")
    BY SMTT(30), <1>2, <1>4 DEF loadOrPickGuard, loadGuard
  <2> QED
    BY <1>1, <1>3, <2>1 DEF GoodPath
<1>5. CASE TruncateGuard(b) \/ WriteGuard(b) \/ WriteGuardFails(b)
  BY <1>1, <1>5 DEF TruncateGuard, WriteGuard, WriteGuardFails, GoodPath
<1>6. CASE buildDirect(b)
  <2>1. Listed(L, path[b][1], "entry")
    BY <1>6 DEF buildDirect, GoodPath
  <2>2. ~ Fails(b) => \E m, x : /\ Listed(L, m, "middle") /\ Listed(L, x, "exit")
                                /\ path' = [path EXCEPT ![b] = <<path[b][1], m, x>>]
                                /\ Goto(b, "done")
    BY <1>2, <1>6 DEF buildDirect
  <2> QED
    BY <1>1, <1>3, <2>1, <2>2 DEF GoodPath
<1>7. CASE buildViaKind(b)
  <2>1. ~ Fails(b) => \E m, x : /\ Listed(L, m, "middle") /\ Listed(L, x, "exit")
                                /\ path' = [path EXCEPT ![b] = <<m, x>>]
                                /\ Goto(b, "volunteer")
    BY <1>2, <1>7 DEF buildViaKind
  <2> QED
    BY SMTT(30), <1>1, <1>3, <2>1 DEF GoodPath
<1>8. CASE pickEntry(b)
  <2>1. Listed(L, path[b][1], "middle") /\ Listed(L, path[b][2], "exit")
    BY <1>8 DEF pickEntry, GoodPath
  <2>2. ~ Fails(b) => \E e : /\ Listed(L, e, "entry")
                             /\ path' = [path EXCEPT ![b] = <<e, path[b][1], path[b][2]>>]
                             /\ Goto(b, "done")
    BY <1>8, PickListed DEF pickEntry
  <2> QED
    BY <1>1, <1>3, <2>1, <2>2 DEF GoodPath
<1>9. CASE handleAssign(b)
  <2> DEFINE n == Len(path[b])
  <2>1. n \in 0..2 /\ pc[b] = "assign"
    BY <1>1, <1>9 DEF handleAssign, ShapeAt
  <2>2. ~ Fails(b) => \E r : /\ Listed(L, r, PathRoles[n + 1])
                             /\ path' = [path EXCEPT ![b] = Append(path[b], r)]
                             /\ Goto(b, IF PathRoles[n + 1] = "exit" THEN "done" ELSE "assign")
    BY <1>9, PickListed DEF handleAssign, pick
  <2>3. \A r : /\ Append(path[b], r)[n + 1] = r
               /\ \A i \in 1..n : Append(path[b], r)[i] = path[b][i]
    BY <1>1
  <2>4. PathRoles[1] = "entry" /\ PathRoles[2] = "middle" /\ PathRoles[3] = "exit"
    BY DEF PathRoles
  <2>5. CASE n = 0
    BY <1>1, <1>3, <2>1, <2>2, <2>3, <2>4, <2>5 DEF GoodPath
  <2>6. CASE n = 1 /\ ~ Fails(b)
    <3>1. PICK r : Listed(L, r, "middle") /\ path'[b] = Append(path[b], r) /\ pc'[b] = "assign"
      BY <1>1, <2>2, <2>4, <2>6
    <3>2. path'[b][1] = path[b][1] /\ path'[b][2] = r
      BY SMTT(30), <2>3, <2>6, <3>1
    <3>3. Listed(L, path'[b][1], "entry") /\ Listed(L, path'[b][2], "middle")
      BY SMTT(30), <2>1, <2>6, <3>1, <3>2 DEF GoodPath
    <3> QED
      BY <3>1, <3>3 DEF GoodPath
  <2>7. CASE n = 2 /\ ~ Fails(b)
    <3>1. PICK r : Listed(L, r, "exit") /\ path'[b] = Append(path[b], r) /\ pc'[b] = "done"
      BY <1>1, <2>2, <2>4, <2>7
    <3>2. path'[b][1] = path[b][1] /\ path'[b][2] = path[b][2] /\ path'[b][3] = r
      BY <2>3, <2>7, <3>1
    <3>3. /\ Listed(L, path'[b][1], "entry") /\ Listed(L, path'[b][2], "middle")
          /\ Listed(L, path'[b][3], "exit")
      BY <2>1, <2>7, <3>1, <3>2 DEF GoodPath
    <3> QED
      BY <3>1, <3>3 DEF GoodPath
  <2> QED
    BY <1>3, <2>1, <2>5, <2>6, <2>7
<1> QED
  BY <1>4, <1>5, <1>6, <1>7, <1>8, <1>9 DEF Build

(* A build that begins has no hops yet.                                    *)
LEMMA GoodBegin ==
    ASSUME BuilderTypes, NEW b \in Builders, NEW k, Begin(b, k), NEW L
    PROVE  /\ GoodPath(L, pc'[b], path'[b]) /\ snap'[b] = k
           /\ mode = "direct" => pc'[b] = "guard"
           /\ \A c \in Builders \ {b} : /\ pc'[c] = pc[c] /\ path'[c] = path[c]
                                        /\ snap'[c] = snap[c]
<1>1. buildOne(k) \in {"tail", "assign", "failed", "guard"}
      /\ (mode = "direct" => buildOne(k) = "guard")
  BY DEF buildOne
<1>2. pc'[b] = buildOne(k) /\ path'[b] = <<>> /\ snap'[b] = k
  BY DEF Begin, BuilderTypes
<1>3. Len(<<>>) = 0
  OBVIOUS
<1>4. GoodPath(L, pc'[b], path'[b])
  BY <1>1, <1>2, <1>3 DEF GoodPath
<1> QED
  BY <1>1, <1>2, <1>4 DEF Begin, BuilderTypes

(* Init establishes the path invariant.                                    *)
LEMMA PathInit == Init => PathInv
BY DEF Init, PathInv, GoodPath, Holders

(* Every step keeps it.                                                    *)
LEMMA PathNext ==
    ASSUME TypeInv, PathInv, [Next]_vars
    PROVE  PathInv'
<1> USE DEF builderVars, fileVars, brokerVars, bounds
<1>1. ASSUME UNCHANGED <<mode, consensus, list, served, builderVars>>
      PROVE  PathInv'
  BY <1>1 DEF PathInv
<1>2. ASSUME NEW b \in Builders, Build(b)
      PROVE  PathInv'
  <2>1. UNCHANGED <<mode, consensus, list, served, snap>>
    BY <1>2 DEF Build, loadOrPickGuard, TruncateGuard, WriteGuard, WriteGuardFails, buildDirect,
                buildViaKind, pickEntry, handleAssign
  <2>2. \A c \in Builders \ {b} : pc'[c] = pc[c] /\ path'[c] = path[c]
    BY <1>2, BuildMoves DEF Moves, TypeInv, BuilderTypes
  <2>3. GoodPath(served, pc'[b], path'[b])
    <3>1. /\ snap[b] \in served \cup {NoList}
          /\ list["broker"] \in served \cup {NoList}
          /\ list["volunteer"] \in served \cup {NoList}
          /\ GoodPath(served, pc[b], path[b])
      BY DEF PathInv, Holders
    <3> QED
      BY <1>2, <3>1, GoodBuild
  <2>4. mode = "direct" => /\ GoodPath({snap[b]}, pc'[b], path'[b])
                           /\ pc'[b] \notin {"assign", "tail", "volunteer"}
    <3> SUFFICES ASSUME mode = "direct"
                 PROVE  /\ GoodPath({snap[b]}, pc'[b], path'[b])
                        /\ pc'[b] \notin {"assign", "tail", "volunteer"}
      OBVIOUS
    <3>1. /\ pc[b] \notin {"assign", "tail", "volunteer"}
          /\ GoodPath({snap[b]}, pc[b], path[b]) /\ snap[b] \in {snap[b]} \cup {NoList}
      BY DEF PathInv
    <3>2. GoodPath({snap[b]}, pc'[b], path'[b])
      BY SMTT(30), <1>2, <3>1, GoodBuild
    <3>3. pc'[b] \notin {"assign", "tail", "volunteer"}
      BY SMTT(30), <1>2, <3>1 DEF Build, loadOrPickGuard, TruncateGuard, WriteGuard, WriteGuardFails,
                buildDirect, buildViaKind, pickEntry, handleAssign, Goto, Fails, TypeInv,
                BuilderTypes
    <3> QED
      BY <3>2, <3>3
  <2> QED
    BY SMTT(30), <2>1, <2>2, <2>3, <2>4 DEF PathInv
<1>3. ASSUME NEW b \in Builders, NEW k \in served \cup {NoList}, Begin(b, k),
             UNCHANGED <<mode, consensus, served>>,
             \A h \in Holders : list'[h] \in served \cup {NoList}
      PROVE  PathInv'
  <2>1. /\ GoodPath(served, pc'[b], path'[b]) /\ GoodPath({k}, pc'[b], path'[b])
        /\ snap'[b] = k /\ (mode = "direct" => pc'[b] = "guard")
        /\ \A c \in Builders \ {b} : /\ pc'[c] = pc[c] /\ path'[c] = path[c]
                                     /\ snap'[c] = snap[c]
    BY <1>3, GoodBegin DEF TypeInv
  <2> QED
    BY <1>3, <2>1 DEF PathInv
<1>4. ASSUME NEW l \in Lists, Change(l)
      PROVE  PathInv'
  <2>1. served \subseteq served' /\ l \in served' /\ consensus' = l
    BY <1>4 DEF Change
  <2>2. \A b \in Builders : GoodPath(served', pc[b], path[b])
    BY <2>1, GoodPathMonotone DEF PathInv
  <2> QED
    BY <1>4, <2>1, <2>2 DEF Change, PathInv
<1>5. CASE pollConsensus \/ refreshConsensus
  <2>1. \A h \in Holders : list'[h] \in served \cup {NoList}
    BY <1>5 DEF pollConsensus, refreshConsensus, PathInv, TypeInv, OtherTypes
  <2> QED
    BY <1>5, <2>1 DEF pollConsensus, refreshConsensus, PathInv
<1>6. CASE Rotate
  <2>1. /\ \A h \in Holders : list'[h] \in served \cup {NoList}
        /\ consensus \in served
    BY <1>6 DEF Rotate, PathInv, TypeInv, OtherTypes
  <2>2. CASE Begin(Rotation, consensus)
    BY SMTT(30), <1>3, <1>6, <2>1, <2>2, PathsAssumption DEF Rotate
  <2>3. CASE UNCHANGED builderVars
    BY SMTT(30), <1>6, <2>1, <2>3 DEF Rotate, PathInv
  <2> QED
    BY SMTT(30), <1>6, <2>2, <2>3 DEF Rotate
<1>7. CASE NextOfAll
  <2>1. snap[Rotation] \in served \cup {NoList} /\ Rotation \in Builders
    BY SMTT(30), PathsAssumption DEF PathInv
  <2> QED
    BY <1>3, <1>7, <2>1 DEF NextOfAll, PathInv
<1>8. ASSUME NEW b \in Builders, Rebuild(b)
      PROVE  PathInv'
  <2>1. list["client"] \in served \cup {NoList}
    BY DEF PathInv, Holders
  <2> QED
    BY SMTT(30), <1>3, <1>8, <2>1 DEF Rebuild, PathInv
<1>9. CASE Crash
  <2>1. \A h \in Holders : list'[h] \in served \cup {NoList}
    BY <1>9 DEF Crash, PathInv, TypeInv, OtherTypes
  <2>2. \A L : GoodPath(L, "idle", <<>>)
    BY DEF GoodPath
  <2>3. \A b \in Builders : pc'[b] = "idle" /\ path'[b] = <<>> /\ snap'[b] = NoList
    BY <1>9 DEF Crash
  <2> QED
    BY SMTT(30), <1>9, <2>1, <2>2, <2>3 DEF Crash, PathInv
<1>10. CASE RestartBroker
  <2>1. \A h \in Holders : list'[h] \in served \cup {NoList}
    BY <1>10 DEF RestartBroker, PathInv, TypeInv, OtherTypes
  <2> QED
    BY <1>10, <2>1 DEF RestartBroker, PathInv
<1>11. CASE validate \/ gc \/ Tick \/ UNCHANGED vars
  BY <1>1, <1>11 DEF validate, gc, Tick, vars
<1> QED
  BY <1>2, <1>4, <1>5, <1>6, <1>7, <1>8, <1>9, <1>10, <1>11 DEF Next

(* A path built directly, and any path while no relay has been listed      *)
(* under two roles, has three different relays: SoundPath for every        *)
(* network and every sequence of consensuses.                              *)
THEOREM PathsSound == Spec => []SoundPath
<1>1. TypeInv /\ PathInv => SoundPath
  <2> SUFFICES ASSUME TypeInv, PathInv, NEW b \in Builders, pc[b] = "done",
                      mode = "direct" \/ RolesAgree
               PROVE  Distinct(path[b])
    BY SMTT(30) DEF SoundPath
  <2> DEFINE L == IF mode = "direct" THEN {snap[b]} ELSE served
  <2>1. /\ Listed(L, path[b][1], "entry")
        /\ Listed(L, path[b][2], "middle")
        /\ Listed(L, path[b][3], "exit")
    BY DEF PathInv, GoodPath
  <2>2. \A l, k \in L : \A r \in DOMAIN l.role \cap DOMAIN k.role : l.role[r] = k.role[r]
    BY DEF RolesAgree
  <2>3. /\ path[b][1] # path[b][2] /\ path[b][1] # path[b][3]
        /\ path[b][2] # path[b][3]
    <3> HIDE DEF L
    <3> QED
      BY <2>1, <2>2 DEF Listed, WithRole
  <2>4. DOMAIN path[b] = 1..3
    BY DEF TypeInv, BuilderTypes, Shape, ShapeAt, Hops
  <2> QED
    BY <2>3, <2>4 DEF Distinct
<1>2. Spec => [](TypeInv /\ PathInv)
  BY TypeInit, TypeNext, PathInit, PathNext, PTL DEF Spec
<1> QED
  BY <1>1, <1>2, PTL

-----------------------------------------------------------------------------
(* A builder about to truncate a guard it could use has been overtaken.    *)
GuardInv ==
    \A b \in Builders :
        pc[b] = "truncate" /\ guardFile \in WithRole(snap[b], "entry") => b \in raced

(* Every step keeps it.                                                    *)
LEMMA GuardNext ==
    ASSUME TypeInv, GuardInv, [Next]_vars
    PROVE  GuardInv'
<1> USE DEF builderVars, fileVars, brokerVars, bounds
<1>1. ASSUME UNCHANGED <<builderVars, fileVars>>
      PROVE  GuardInv'
  BY <1>1 DEF GuardInv
<1>2. ASSUME NEW b \in Builders, NEW k, Begin(b, k), UNCHANGED fileVars
      PROVE  GuardInv'
  <2>1. buildOne(k) # "truncate"
    BY DEF buildOne
  <2> QED
    BY <1>2, <2>1 DEF Begin, GuardInv, TypeInv, BuilderTypes
<1>3. ASSUME NEW b \in Builders, Build(b)
      PROVE  GuardInv'
  <2>1. /\ UNCHANGED snap
        /\ \A c \in Builders \ {b} : pc'[c] = pc[c]
    BY <1>3, BuildMoves DEF Moves, TypeInv, BuilderTypes
  <2>2. CASE loadOrPickGuard(b)
    <3>1. /\ UNCHANGED guardFile /\ raced' = raced \ {b}
          /\ pc'[b] = "truncate" => loadGuard(b) = {}
      BY <2>2 DEF loadOrPickGuard, Goto, Fails, TypeInv, BuilderTypes
    <3>2. loadGuard(b) = {} => guardFile \notin WithRole(snap[b], "entry")
      BY SMTT(30) DEF loadGuard, pickRelay
    <3> QED
      BY <2>1, <3>1, <3>2 DEF GuardInv
  <2>3. CASE TruncateGuard(b)
    <3>1. \A c \in Builders : Torn \notin WithRole(snap[c], "entry")
      BY SMTT(30), WithRoleRelays, PathsAssumption DEF TypeInv, BuilderTypes
    <3> QED
      BY <2>1, <2>3, <3>1 DEF TruncateGuard, GuardInv
  <2>4. CASE WriteGuard(b)
    <3>1. pc'[b] = "rest"
      BY <2>4 DEF WriteGuard, Goto, TypeInv, BuilderTypes
    <3>2. \A c \in Builders \ {b} : pc[c] = "truncate" => c \in raced'
      BY <2>4 DEF WriteGuard
    <3> QED
      BY <2>1, <3>1, <3>2 DEF GuardInv
  <2>5. CASE WriteGuardFails(b) \/ buildDirect(b) \/ buildViaKind(b) \/ pickEntry(b)
             \/ handleAssign(b)
    <3>1. pc'[b] # "truncate" /\ UNCHANGED fileVars
      BY SMTT(30), <2>5 DEF WriteGuardFails, buildDirect, buildViaKind, pickEntry, handleAssign, Goto,
                  Fails, TypeInv, BuilderTypes
    <3> QED
      BY SMTT(30), <2>1, <3>1 DEF GuardInv
  <2> QED
    BY <1>3, <2>2, <2>3, <2>4, <2>5 DEF Build
<1>4. CASE Rotate \/ NextOfAll \/ \E b \in Builders : Rebuild(b)
  BY ZenonT(30), <1>1, <1>2, <1>4, PathsAssumption DEF Rotate, NextOfAll, Rebuild
<1>5. CASE Crash
  BY SMTT(30), <1>5 DEF Crash, GuardInv
<1>6. CASE \/ \E l \in Lists : Change(l)
           \/ pollConsensus \/ refreshConsensus \/ RestartBroker \/ validate \/ gc \/ Tick
           \/ UNCHANGED vars
  BY <1>1, <1>6
     DEF Change, pollConsensus, refreshConsensus, RestartBroker, validate, gc, Tick, vars
<1> QED
  BY <1>3, <1>4, <1>5, <1>6 DEF Next

(* A pinned guard that a build could have used is overwritten only by a    *)
(* build that read the file before the guard was pinned: GuardKept for any *)
(* number of builders, crashes and failed writes.                          *)
THEOREM GuardStays == Spec => GuardKept
<1>1. Init => GuardInv
  BY DEF Init, GuardInv
<1>2. GuardInv => \A b \in Builders :
          TruncateGuard(b) /\ guardFile \in WithRole(snap[b], "entry") => b \in raced
  BY DEF GuardInv, TruncateGuard
<1>3. Spec => [](TypeInv /\ GuardInv)
  BY <1>1, TypeInit, TypeNext, GuardNext, PTL DEF Spec
<1> QED
  BY <1>2, <1>3, PTL DEF GuardKept

-----------------------------------------------------------------------------
(* A token leaves the store only when it has expired.                      *)
TokenInv == \A t \in token : t.stored \/ Expired(t)

(* Every step keeps it.                                                    *)
LEMMA TokenNext ==
    ASSUME TypeInv, TokenInv, [Next]_vars
    PROVE  TokenInv'
<1> USE DEF builderVars, fileVars, brokerVars, bounds
<1>0. token \subseteq Tokens /\ now \in Nat
  BY PathsAssumption DEF TypeInv, OtherTypes
<1>1. ASSUME UNCHANGED brokerVars
      PROVE  TokenInv'
  BY <1>1 DEF TokenInv, Expired
<1>2. ASSUME NEW b \in Builders, handleAssign(b)
      PROVE  TokenInv'
  <2>1. UNCHANGED now
    BY <1>2 DEF handleAssign
  <2>2. UNCHANGED token \/ \A t \in token' : t.stored
    <3>1. UNCHANGED token \/ \E r : issue(r)
      BY <1>2, Zenon DEF handleAssign
    <3>2. ASSUME NEW r, issue(r)
          PROVE  UNCHANGED token \/ \A t \in token' : t.stored
      BY <3>2 DEF issue
    <3> QED
      BY <3>1, <3>2
  <2> QED
    BY <2>1, <2>2 DEF TokenInv, Expired
<1>3. CASE validate \/ gc
  <2>1. UNCHANGED now
    BY <1>3 DEF validate, gc
  <2>2. \A t \in Tokens : Forget(t).exp = t.exp
    BY DEF Forget, Tokens
  <2>3. \A u \in token' : \/ u \in token
                          \/ \E t \in token : u = Forget(t) /\ Expired(t)
    BY <1>3 DEF validate, gc, Validates, TokenInv
  <2> QED
    BY <1>0, <2>1, <2>2, <2>3 DEF TokenInv, Expired
<1>4. CASE Tick
  BY <1>0, <1>4 DEF Tick, TokenInv, Expired, Tokens
<1>5. CASE RestartBroker
  BY SMTT(30), <1>5 DEF RestartBroker, TokenInv
<1>6. CASE \/ \E l \in Lists : Change(l)
           \/ pollConsensus \/ refreshConsensus \/ Rotate \/ NextOfAll
           \/ \E b \in Builders : Rebuild(b)
           \/ Crash \/ UNCHANGED vars
  BY SMTT(30), <1>1, <1>6 DEF Change, pollConsensus, refreshConsensus, Rotate, NextOfAll, Rebuild, Crash,
                    vars
<1>7. ASSUME NEW b \in Builders, Build(b), ~ handleAssign(b)
      PROVE  TokenInv'
  BY <1>1, <1>7 DEF Build, loadOrPickGuard, TruncateGuard, WriteGuard, WriteGuardFails,
                    buildDirect, buildViaKind, pickEntry
<1> QED
  BY <1>2, <1>3, <1>4, <1>5, <1>6, <1>7 DEF Next

(* The broker honours a token until the second it announced and never      *)
(* after the expiry: TokenHonoured for every lifetime.                     *)
THEOREM TokensHonoured == Spec => []TokenHonoured
<1>1. Init => TokenInv
  BY DEF Init, TokenInv
<1>2. TypeInv /\ TokenInv => TokenHonoured
  <2> SUFFICES ASSUME TypeInv, TokenInv, NEW t \in token
               PROVE  LET told == (t.exp \div TicksPerSecond) * TicksPerSecond
                      IN /\ now <= told => Validates(t)
                         /\ now > t.exp => ~Validates(t)
    BY DEF TokenHonoured
  <2>1. t.exp \in Nat /\ now \in Nat
    BY PathsAssumption DEF TypeInv, OtherTypes, Tokens
  <2>2. (t.exp \div 2) * 2 <= t.exp /\ (t.exp \div 2) * 2 \in Nat
    BY <2>1
  <2> QED
    BY <2>1, <2>2 DEF TokenInv, Validates, Expired, TicksPerSecond
<1>3. Spec => [](TypeInv /\ TokenInv)
  BY <1>1, TypeInit, TypeNext, TokenNext, PTL DEF Spec
<1> QED
  BY <1>2, <1>3, PTL
====
