------------------------- MODULE CircuitPoolProofs -------------------------
(***************************************************************************)
(* Proofs about CircuitPool, for any number of calls of send, any          *)
(* circuit_count and any bound on circuits, rotations and failures.        *)
(*                                                                         *)
(* The invariant says who may have seen a circuit.  One that a call or a   *)
(* builder has just built is fresh: nobody else can close it, send on it   *)
(* or find it in the pool.  One in the pool is there once, in the slot     *)
(* every call that holds it remembers.                                     *)
(***************************************************************************)
EXTENDS CircuitPool, TLAPS

(* A call has built a replacement and not yet put it in the pool.          *)
Pending(r) == pc[r] \in {"install", "swap"}

Once(s) == \A i, j \in 1..Len(s) : s[i] = s[j] => i = j

(* Nobody but its builder knows c.                                         *)
Fresh(c) ==
    /\ c \in 1..made /\ c \notin closed
    /\ \A i \in 1..Len(circuits) : circuits[i] # c
    /\ \A r \in Requests : circ[r] # c

(* A circuit is in the pool once, where the calls that use it found it.    *)
PoolInv ==
    /\ Once(circuits)
    /\ \A i \in 1..Len(circuits) : circuits[i] \in 1..made
    /\ \A r \in Requests : \A i \in 1..Len(circuits) :
          circuits[i] = circ[r] => idx[r] = i

(* A call that sends or replaces has a circuit.                            *)
Holds(r) == pc[r] \in {"replace", "send", "rebuild"}
HoldInv == \A r \in Requests : Holds(r) => circ[r] # 0

(* Every replacement is known to the call that built it only.              *)
NewInv ==
    /\ \A r \in Requests : Pending(r) => Fresh(newCirc[r])
    /\ \A r, s \in Requests :
          Pending(r) /\ Pending(s) /\ newCirc[r] = newCirc[s] => r = s
    /\ \A r \in Requests, b \in Builders : Pending(r) =>
          \A i \in 1..Len(built[b]) : built[b][i] # newCirc[r]

(* So is every circuit of a new pool to the buildAll that builds it, which *)
(* never has more than Count.                                              *)
BuiltInv ==
    /\ \A b \in Builders :
          /\ Once(built[b])
          /\ \A i \in 1..Len(built[b]) : Fresh(built[b][i])
          /\ b \notin running => built[b] = <<>>
          /\ b \in running => Len(built[b]) + left[b] <= Count /\ starts[b] > 0
    /\ \A b, e \in Builders : b # e =>
          \A i \in 1..Len(built[b]), j \in 1..Len(built[e]) : built[b][i] # built[e][j]

(* The rotation loop does not run in bridge mode, where the pool is filled *)
(* at once; otherwise ready lags behind the pool while a buildAll runs.    *)
ModeInv ==
    /\ bridge => "rotate" \notin running
    /\ bridge \/ running = {} => (ready <=> circuits # <<>>)

IInv ==
    /\ TypeOK /\ PoolInv /\ HoldInv /\ NewInv /\ BuiltInv /\ ModeInv
    /\ ClosedOnlyInTransit

-----------------------------------------------------------------------------
(* The initial states.                                                     *)

(* An empty pool, nobody in it.                                            *)
LEMMA InitInv == Init => IInv
<1> SUFFICES ASSUME Init PROVE IInv
  OBVIOUS
<1> USE CountAssumption, BoundsAssumption
<1>1. TypeOK
  <2>1. circuits \in Seq(Circuits) /\ Len(circuits) <= Count
    BY DEF Init
  <2>2. bridge \in BOOLEAN /\ stopped \in BOOLEAN /\ ready \in BOOLEAN
    BY DEF Init
  <2>3. built \in [Builders -> Seq(Circuits)]
    BY DEF Init
  <2> QED BY <2>1, <2>2, <2>3 DEF Init, TypeOK, Steps, Builders
<1>2. PoolInv /\ HoldInv /\ NewInv /\ ModeInv /\ ClosedOnlyInTransit
  BY DEF Init, PoolInv, HoldInv, Holds, NewInv, ModeInv, ClosedOnlyInTransit, Once,
         Pending, InPool
<1>3. BuiltInv
  BY DEF Init, BuiltInv, Once, Builders
<1> QED BY <1>1, <1>2, <1>3 DEF IInv

-----------------------------------------------------------------------------
(* Sequences.                                                              *)

(* Replacing an element.                                                   *)
LEMMA PutFacts ==
    ASSUME NEW S, NEW s \in Seq(S), NEW x \in S, NEW k \in 1..Len(s)
    PROVE  /\ [s EXCEPT ![k] = x] \in Seq(S)
           /\ Len([s EXCEPT ![k] = x]) = Len(s)
           /\ \A i \in 1..Len(s) : [s EXCEPT ![k] = x][i] = IF i = k THEN x ELSE s[i]
OBVIOUS

(* Replacing every element that equals c.                                  *)
LEMMA SwapFacts ==
    ASSUME NEW S, NEW s \in Seq(S), NEW x \in S, NEW c, NEW t,
           t = [i \in 1..Len(s) |-> IF s[i] = c THEN x ELSE s[i]]
    PROVE  /\ t \in Seq(S) /\ Len(t) = Len(s)
           /\ \A i \in 1..Len(s) : t[i] = IF s[i] = c THEN x ELSE s[i]
OBVIOUS

(* Adding an element.                                                      *)
LEMMA AppendFacts ==
    ASSUME NEW S, NEW s \in Seq(S), NEW x \in S
    PROVE  /\ Append(s, x) \in Seq(S) /\ Len(Append(s, x)) = Len(s) + 1
           /\ Append(s, x) # <<>>
           /\ \A i \in 1..Len(s) : Append(s, x)[i] = s[i]
           /\ Append(s, x)[Len(s) + 1] = x
OBVIOUS

-----------------------------------------------------------------------------
(* Steps that touch neither the pool nor what is known of circuits.        *)

(* Only where a call stands changes, and it neither has a replacement to   *)
(* put in the pool nor gets one.                                           *)
Calm ==
    /\ UNCHANGED <<bridge, stopped, circuits, ready, made, closed, circ, idx,
                   newCirc, running, left, built, starts>>
    /\ \A r \in Requests : (Pending(r)' <=> Pending(r)) /\ (Holds(r)' => Holds(r))

(* Such a step keeps the invariant.                                        *)
LEMMA CalmStep ==
    ASSUME IInv, TypeOK', Calm
    PROVE  IInv'
<1>1. \A c : Fresh(c)' <=> Fresh(c)
  BY DEF Calm, Fresh
<1>2. PoolInv' /\ HoldInv' /\ ModeInv'
  BY DEF IInv, PoolInv, HoldInv, ModeInv, Calm, Once
<1>3. NewInv'
  BY <1>1 DEF IInv, NewInv, Calm
<1>4. BuiltInv'
  BY <1>1 DEF IInv, BuiltInv, Calm, Once
<1>5. ClosedOnlyInTransit'
  BY DEF IInv, ClosedOnlyInTransit, Calm, InPool, Pending
<1> QED BY <1>2, <1>3, <1>4, <1>5 DEF IInv

(* The call is admitted or refused (the proxy handlers), its first send    *)
(* ends, or a build of its fails and it goes on without.                   *)
LEMMA CallStep ==
    ASSUME IInv, NEW r \in Requests,
           \/ Admit(r) \/ Refuse(r) \/ ReplaceFails(r) \/ Send(r)
           \/ RebuildFails(r) \/ Resend(r)
    PROVE  IInv'
<1>0. TypeOK
  BY DEF IInv
<1>1. /\ UNCHANGED <<modeVars, circuits, ready, counter, circuitVars, circ, idx,
                     newCirc, builderVars>>
      /\ pc[r] \in Steps \ {"install", "swap"}
      /\ \E s \in Steps \ {"install", "swap"} :
            /\ pc' = [pc EXCEPT ![r] = s]
            /\ s \in {"replace", "send", "rebuild"} => Holds(r)
  BY DEF Admit, Refuse, ReplaceFails, Send, RebuildFails, Resend, Goto, Steps, Holds
<1>2. outcome' \in [Requests -> {"none", "full", "cut", "error"}]
  BY <1>0 DEF Admit, Refuse, ReplaceFails, Send, RebuildFails, Resend, TypeOK,
              sendRequest
<1>3. TypeOK'
  BY <1>0, <1>1, <1>2 DEF TypeOK, modeVars, circuitVars, builderVars
<1>4. Calm
  BY <1>0, <1>1 DEF Calm, Pending, Holds, TypeOK, modeVars, circuitVars, builderVars
<1> QED BY <1>3, <1>4, CalmStep

(* A circuit grows old, or its relays go away.                             *)
LEMMA AgeStep ==
    ASSUME IInv, NEW c \in Circuits, Expire(c) \/ Die(c)
    PROVE  IInv'
<1>0. TypeOK /\ PoolInv
  BY DEF IInv
<1>1. c \in 1..made
  BY <1>0 DEF Expire, Die, InPool, PoolInv
<1>2. TypeOK'
  BY <1>0, <1>1 DEF Expire, Die, TypeOK, modeVars, requestVars, builderVars
<1>3. Calm
  BY DEF Expire, Die, Calm, Pending, Holds, modeVars, requestVars, builderVars
<1> QED BY <1>2, <1>3, CalmStep

-----------------------------------------------------------------------------
(* Calls.                                                                  *)

(* get hands a circuit of the pool to the call.                            *)
LEMMA GetStep ==
    ASSUME IInv, NEW r \in Requests, get(r)
    PROVE  IInv'
<1>0. TypeOK /\ PoolInv
  BY DEF IInv
<1>1. /\ UNCHANGED <<modeVars, circuits, ready, circuitVars, newCirc, outcome,
                     builderVars>>
      /\ pc[r] = "start"
  BY DEF get
<1>2. CASE circuits = <<>>
  <2>1. pc' = [pc EXCEPT ![r] = "done"] /\ UNCHANGED <<counter, circ, idx>>
    BY <1>2 DEF get, Goto
  <2>2. TypeOK'
    BY <1>0, <1>1, <2>1 DEF TypeOK, Steps, modeVars, circuitVars, builderVars
  <2>3. Calm
    BY <1>0, <1>1, <2>1
       DEF Calm, Pending, Holds, TypeOK, modeVars, circuitVars, builderVars
  <2> QED BY <2>2, <2>3, CalmStep
<1>3. CASE circuits # <<>>
  <2> DEFINE k == (counter % Len(circuits)) + 1
  <2>1. /\ counter' = counter + 1
        /\ circ' = [circ EXCEPT ![r] = circuits[k]]
        /\ idx' = [idx EXCEPT ![r] = k]
        /\ \E s \in {"replace", "send"} : pc' = [pc EXCEPT ![r] = s]
    BY <1>3 DEF get, Goto
  <2>2. k \in 1..Len(circuits)
    <3>1. Len(circuits) \in Nat /\ Len(circuits) > 0 /\ counter \in Nat
      BY <1>0, <1>3 DEF TypeOK
    <3> QED BY ONLY <3>1
  <2> HIDE DEF k
  <2>3. circuits[k] \in 1..made /\ k \in 0..Count
    BY <1>0, <2>2, CountAssumption DEF PoolInv, TypeOK
  <2>4. TypeOK'
    BY SMTT(30), <1>0, <1>1, <2>1, <2>3 DEF TypeOK, Steps, modeVars, circuitVars, builderVars
  <2>5. \A q \in Requests : /\ Pending(q)' <=> Pending(q)
                            /\ q # r => circ'[q] = circ[q] /\ idx'[q] = idx[q]
                            /\ Pending(q) => q # r
                            /\ q # r => Holds(q)' = Holds(q)
    BY <1>0, <1>1, <2>1 DEF Pending, Holds, TypeOK
  <2>6. circ'[r] = circuits[k] /\ idx'[r] = k
    BY <1>0, <2>1 DEF TypeOK
  <2>7. \A c : Fresh(c) => Fresh(c)'
    BY <1>1, <2>2, <2>5, <2>6 DEF Fresh, circuitVars
  <2>8. PoolInv' /\ HoldInv'
    BY <1>0, <1>1, <2>2, <2>3, <2>5, <2>6 DEF IInv, PoolInv, HoldInv, Once, circuitVars
  <2>9. NewInv'
    BY <1>1, <2>5, <2>7 DEF IInv, NewInv, builderVars
  <2>10. BuiltInv'
    BY <1>1, <2>7 DEF IInv, BuiltInv, Once, builderVars
  <2>11. ModeInv'
    BY <1>1 DEF IInv, ModeInv, modeVars, builderVars
  <2>12. ClosedOnlyInTransit'
    BY <1>1, <2>5 DEF IInv, ClosedOnlyInTransit, InPool, Pending, circuitVars
  <2> QED BY <2>4, <2>8, <2>9, <2>10, <2>11, <2>12 DEF IInv
<1> QED BY <1>2, <1>3

(* One circuit more.                                                       *)
LEMMA Grows ==
    ASSUME NEW n \in Nat
    PROVE  /\ 1..n \subseteq 1..(n + 1) /\ 0..n \subseteq 0..(n + 1)
           /\ n + 1 \in 1..(n + 1) /\ n + 1 \notin 0..n
OBVIOUS

(* The call builds a replacement and closes the circuit it had: from here  *)
(* on it alone knows the one, and answers for the other.                   *)
LEMMA ReplacementStep ==
    ASSUME IInv, NEW r \in Requests, ReplaceBuilt(r) \/ RebuildBuilt(r)
    PROVE  IInv'
<1>0. TypeOK /\ PoolInv /\ NewInv /\ BuiltInv
  BY DEF IInv
<1>1. /\ UNCHANGED <<modeVars, circuits, ready, counter, dead, expired, circ,
                     idx, outcome, builderVars>>
      /\ made < MaxCircuits /\ made' = made + 1
      /\ newCirc' = [newCirc EXCEPT ![r] = made']
      /\ closed' = closed \cup {circ[r]}
      /\ pc[r] \in {"replace", "rebuild"}
      /\ \E s \in {"install", "swap"} : pc' = [pc EXCEPT ![r] = s]
  BY DEF ReplaceBuilt, RebuildBuilt, buildOne, Built, Goto
<1>2. PICK n \in Nat : made \in Nat /\ n = made + 1 /\ made' = n /\ n \in 0..MaxCircuits
  BY <1>0, <1>1, BoundsAssumption DEF TypeOK
<1>3. circ[r] \in 1..made
  BY <1>0, <1>1 DEF IInv, HoldInv, Holds, TypeOK
<1>4. TypeOK'
  <2>1. 1..made \subseteq 1..n /\ 0..made \subseteq 0..n /\ n \in 0..n /\ n \notin 0..made
    BY <1>2, Grows
  <2>2. closed' \subseteq 1..n /\ dead' \subseteq 1..n /\ expired' \subseteq 1..n
    BY <1>0, <1>1, <1>3, <2>1 DEF TypeOK
  <2>3. circ' \in [Requests -> 0..n] /\ newCirc' \in [Requests -> 0..n]
    BY <1>0, <1>1, <1>2, <2>1 DEF TypeOK
  <2>4. pc' \in [Requests -> Steps]
    BY <1>0, <1>1 DEF TypeOK, Steps
  <2> QED BY <1>0, <1>1, <1>2, <2>2, <2>3, <2>4 DEF TypeOK, modeVars, builderVars
<1>5. /\ Pending(r)' /\ ~ Pending(r) /\ newCirc'[r] = n
      /\ \A q \in Requests :
            q # r => /\ newCirc'[q] = newCirc[q] /\ (Pending(q)' <=> Pending(q))
                     /\ Holds(q)' => Holds(q)
      /\ ~ Holds(r)'
  BY <1>0, <1>1, <1>2 DEF Pending, Holds, TypeOK
<1>6. Fresh(n)' /\ ~ Fresh(n)
  BY <1>0, <1>1, <1>2, <1>3 DEF Fresh, TypeOK, PoolInv
<1>7. \A c : Fresh(c) => Fresh(c)'
  BY <1>1, <1>2 DEF Fresh
<1>8. PoolInv' /\ HoldInv'
  BY <1>0, <1>1, <1>2, <1>5, Grows DEF IInv, PoolInv, HoldInv, Once
<1>9. NewInv'
  BY <1>0, <1>1, <1>5, <1>6, <1>7 DEF NewInv, BuiltInv, builderVars
<1>10. BuiltInv'
  BY <1>0, <1>1, <1>7 DEF BuiltInv, Once, builderVars
<1>11. ModeInv'
  BY <1>1 DEF IInv, ModeInv, modeVars, builderVars
<1>12. ClosedOnlyInTransit'
  BY <1>1, <1>5 DEF IInv, ClosedOnlyInTransit, InPool, Pending
<1> QED BY <1>4, <1>8, <1>9, <1>10, <1>11, <1>12 DEF IInv

(* Install and Swap put the replacement where the call found the old       *)
(* circuit, which is then no longer in the pool; if it was gone already,   *)
(* Install overwrites another circuit of the slot and Swap nothing.        *)
LEMMA PlacedStep ==
    ASSUME IInv, NEW r \in Requests, Install(r) \/ Swap(r)
    PROVE  IInv'
<1>0. TypeOK /\ PoolInv /\ NewInv /\ BuiltInv
  BY DEF IInv
<1>1. /\ UNCHANGED <<modeVars, ready, counter, circuitVars, idx, newCirc,
                     outcome, builderVars>>
      /\ circ' = [circ EXCEPT ![r] = newCirc[r]]
      /\ Pending(r)
      /\ \E s \in {"send", "resend"} : pc' = [pc EXCEPT ![r] = s]
  BY DEF Install, Swap, Goto, Pending
<1>2. newCirc[r] \in Circuits /\ newCirc[r] \in 1..made /\ Fresh(newCirc[r])
  BY <1>0, <1>1, BoundsAssumption DEF NewInv, Fresh, TypeOK, Circuits
<1>3. /\ circuits' \in Seq(Circuits) /\ Len(circuits') = Len(circuits)
      /\ \A i \in 1..Len(circuits) :
            \/ circuits'[i] = circuits[i] /\ circuits[i] # circ[r]
            \/ circuits'[i] = newCirc[r] /\ i = idx[r]
  <2>1. CASE Install(r) /\ idx[r] \in 1..Len(circuits)
    <3>1. circuits' = [circuits EXCEPT ![idx[r]] = newCirc[r]]
      BY <1>0, <2>1 DEF Install, TypeOK
    <3> QED BY <1>0, <1>2, <2>1, <3>1, PutFacts DEF TypeOK, PoolInv
  <2>2. CASE Install(r) /\ idx[r] \notin 1..Len(circuits)
    <3>1. circuits' = circuits
      BY <1>0, <2>2 DEF Install, TypeOK
    <3> QED BY <1>0, <2>2, <3>1 DEF TypeOK, PoolInv
  <2>3. CASE Swap(r)
    <3>1. circuits' = [i \in 1..Len(circuits) |->
                          IF circuits[i] = circ[r] THEN newCirc[r] ELSE circuits[i]]
      BY <2>3 DEF Swap
    <3> QED BY <1>0, <1>2, <3>1, SwapFacts DEF TypeOK, PoolInv
  <2> QED BY <2>1, <2>2, <2>3
<1>4. TypeOK'
  BY SMTT(30), <1>0, <1>1, <1>2, <1>3 DEF TypeOK, Steps, modeVars, circuitVars, builderVars
<1>5. /\ ~ Pending(r)' /\ circ'[r] = newCirc[r]
      /\ \A q \in Requests :
            q # r => /\ circ'[q] = circ[q] /\ (Pending(q)' <=> Pending(q))
                     /\ Holds(q)' => Holds(q)
  BY <1>0, <1>1 DEF Pending, Holds, TypeOK
<1>6. \A c : Fresh(c) /\ c # newCirc[r] => Fresh(c)'
  BY <1>1, <1>3, <1>5 DEF Fresh, circuitVars
<1>7. PoolInv'
  <2>1. Once(circuits')
    BY <1>0, <1>2, <1>3 DEF PoolInv, Once, Fresh
  <2>3. \A i \in 1..Len(circuits') : circuits'[i] \in 1..made'
    BY <1>0, <1>1, <1>2, <1>3 DEF PoolInv, circuitVars
  <2>2. \A q \in Requests : \A i \in 1..Len(circuits') :
           circuits'[i] = circ'[q] => idx'[q] = i
    BY <1>0, <1>1, <1>2, <1>3, <1>5 DEF PoolInv, Fresh
  <2> QED BY SMTT(30), <2>1, <2>2, <2>3 DEF PoolInv
<1>12. HoldInv'
  BY <1>2, <1>5 DEF IInv, HoldInv
<1>8. NewInv'
  BY SMTT(30), <1>0, <1>1, <1>5, <1>6 DEF NewInv, builderVars
<1>9. BuiltInv'
  BY SMTT(30), <1>0, <1>1, <1>6 DEF NewInv, BuiltInv, Once, builderVars
<1>10. ModeInv'
  <2>1. circuits' # <<>> <=> circuits # <<>>
    BY <1>0, <1>3 DEF TypeOK
  <2> QED BY <1>1, <2>1 DEF IInv, ModeInv, modeVars, builderVars
<1>11. ClosedOnlyInTransit'
  <2> SUFFICES ASSUME NEW c \in closed, NEW i \in 1..Len(circuits), circuits'[i] = c
               PROVE  \E q \in Requests : Pending(q)' /\ circ'[q] = c
    BY <1>1, <1>3 DEF ClosedOnlyInTransit, InPool, Pending, circuitVars
  <2>1. circuits[i] = c /\ c # circ[r]
    BY <1>2, <1>3 DEF Fresh
  <2>2. PICK q \in Requests : Pending(q) /\ circ[q] = c
    BY <2>1 DEF IInv, ClosedOnlyInTransit, InPool, Pending
  <2> QED BY <1>5, <2>1, <2>2
<1> QED BY <1>4, <1>7, <1>8, <1>9, <1>10, <1>11, <1>12 DEF IInv

-----------------------------------------------------------------------------
(* buildAll.                                                               *)

(* Emptying the pool closes what was in it, and nothing anybody builds.    *)
LEMMA TakeAllStep ==
    ASSUME IInv, NEW b \in Builders, TakeAll(b)
    PROVE  IInv'
<1>0. TypeOK /\ PoolInv /\ BuiltInv
  BY DEF IInv
<1>1. /\ UNCHANGED <<modeVars, ready, counter, made, dead, expired, requestVars, built>>
      /\ ~ bridge /\ b \notin running /\ running' = running \cup {b}
      /\ left' = [left EXCEPT ![b] = Count]
      /\ starts' = [starts EXCEPT ![b] = @ + 1]
      /\ closed' = closed \cup {circuits[i] : i \in 1..Len(circuits)}
      /\ circuits' = <<>>
  BY DEF TakeAll
<1>2. circuits' \in Seq(Circuits) /\ Len(circuits') = 0
  BY <1>1
<1>3. TypeOK'
  <2>1. closed' \subseteq 1..made
    BY <1>0, <1>1 DEF TypeOK, PoolInv
  <2>2. left' \in [Builders -> 0..Count] /\ starts' \in [Builders -> Nat]
    BY <1>0, <1>1, CountAssumption DEF TypeOK
  <2> QED BY SMTT(30), <1>0, <1>1, <1>2, <2>1, <2>2, CountAssumption
          DEF TypeOK, modeVars, requestVars
<1>4. \A c : Fresh(c) => Fresh(c)'
  BY <1>1, <1>2 DEF Fresh, requestVars
<1>5. PoolInv' /\ ClosedOnlyInTransit'
  BY <1>2 DEF PoolInv, Once, ClosedOnlyInTransit, InPool
<1>6. HoldInv' /\ ModeInv'
  BY <1>1 DEF IInv, HoldInv, Holds, ModeInv, modeVars, requestVars
<1>7. NewInv'
  BY <1>1, <1>4 DEF IInv, NewInv, Pending, requestVars
<1>8. BuiltInv'
  <2>1. \A e \in Builders : e \in running' => Len(built[e]) + left'[e] <= Count /\ starts'[e] > 0
    <3>1. \A e \in Builders : e # b => left'[e] = left[e] /\ starts'[e] = starts[e]
      BY <1>0, <1>1 DEF TypeOK
    <3>2. Len(built[b]) = 0 /\ left'[b] = Count /\ starts'[b] = starts[b] + 1
          /\ starts[b] \in Nat
      BY <1>0, <1>1 DEF TypeOK, BuiltInv
    <3> QED BY <1>0, <1>1, <3>1, <3>2, CountAssumption DEF BuiltInv
  <2> QED BY <1>0, <1>1, <1>4, <2>1 DEF BuiltInv, Once
<1> QED BY <1>3, <1>5, <1>6, <1>7, <1>8 DEF IInv

(* A circuit of the new pool is built, or a build fails.                   *)
LEMMA BuildOneStep ==
    ASSUME IInv, NEW b \in Builders, BuildOne(b)
    PROVE  IInv'
<1>0. TypeOK /\ PoolInv /\ NewInv /\ BuiltInv
  BY DEF IInv
<1>1. /\ UNCHANGED <<modeVars, circuits, ready, counter, closed, dead, expired,
                     requestVars, running, starts>>
      /\ b \in running /\ left[b] > 0 /\ left' = [left EXCEPT ![b] = @ - 1]
  BY DEF BuildOne
<1>2. /\ left' \in [Builders -> 0..Count] /\ left'[b] = left[b] - 1 /\ left[b] \in Nat
      /\ \A e \in Builders : e # b => left'[e] = left[e]
  BY <1>0, <1>1, CountAssumption DEF TypeOK
<1>3. HoldInv' /\ ModeInv'
  BY <1>1 DEF IInv, HoldInv, Holds, ModeInv, modeVars, requestVars
<1>4. ClosedOnlyInTransit'
  BY <1>1 DEF IInv, ClosedOnlyInTransit, InPool, Pending, requestVars
<1>5. CASE UNCHANGED <<made, built>>
  <2>1. TypeOK'
    BY SMTT(30), <1>0, <1>1, <1>2, <1>5 DEF TypeOK, modeVars, requestVars
  <2>2. \A c : Fresh(c) => Fresh(c)'
    BY <1>1, <1>5 DEF Fresh, requestVars
  <2>3. PoolInv' /\ NewInv'
    BY <1>0, <1>1, <1>5, <2>2 DEF PoolInv, Once, NewInv, Pending, requestVars
  <2>4. \A e \in Builders : Len(built[e]) \in Nat
    BY SMTT(30), <1>0 DEF TypeOK
  <2>5. BuiltInv'
    BY <1>0, <1>1, <1>2, <1>5, <2>2, <2>4, CountAssumption DEF BuiltInv, Once
  <2> QED BY <1>3, <1>4, <2>1, <2>3, <2>5 DEF IInv
<1>6. CASE Built /\ built' = [built EXCEPT ![b] = Append(@, made')]
  <2>1. PICK n \in Nat : /\ made \in Nat /\ n = made + 1 /\ made' = n
                         /\ n \in 0..MaxCircuits /\ n \in Circuits
    BY <1>0, <1>6, BoundsAssumption DEF TypeOK, Built, Circuits
  <2>2. 1..made \subseteq 1..n /\ 0..made \subseteq 0..n /\ n \notin 0..made
    BY <2>1, Grows
  <2> DEFINE s == built[b]
  <2>3. /\ s \in Seq(Circuits) /\ built'[b] = Append(s, n)
        /\ \A e \in Builders : e # b => built'[e] = built[e]
    BY <1>0, <1>6, <2>1 DEF TypeOK
  <2>4. /\ Append(s, n) \in Seq(Circuits) /\ Len(Append(s, n)) = Len(s) + 1
        /\ \A i \in 1..Len(s) : Append(s, n)[i] = s[i]
        /\ Append(s, n)[Len(s) + 1] = n /\ Len(s) \in Nat
    BY <2>1, <2>3, AppendFacts
  <2>5. TypeOK'
    <3>1. closed \subseteq 1..n /\ dead \subseteq 1..n /\ expired \subseteq 1..n
      BY <1>0, <2>2 DEF TypeOK
    <3>2. circ \in [Requests -> 0..n] /\ newCirc \in [Requests -> 0..n]
      BY <1>0, <2>2 DEF TypeOK
    <3>3. built' \in [Builders -> Seq(Circuits)]
      BY <1>0, <1>6, <2>1, <2>4 DEF TypeOK
    <3> QED BY SMTT(30), <1>0, <1>1, <1>2, <2>1, <3>1, <3>2, <3>3 DEF TypeOK, modeVars, requestVars
  <2>6. \A c : Fresh(c) => Fresh(c)' /\ c # n
    BY <1>1, <2>1 DEF Fresh, requestVars
  <2>7. Fresh(n)'
    BY SMTT(30), <1>0, <1>1, <2>1 DEF Fresh, TypeOK, PoolInv, requestVars
  <2>8. PoolInv'
    BY <1>0, <1>1, <2>1, <2>2 DEF PoolInv, Once, requestVars
  <2>9. \A e \in Builders : \A i \in 1..Len(built'[e]) :
           \/ i \in 1..Len(built[e]) /\ built'[e][i] = built[e][i]
           \/ e = b /\ i = Len(s) + 1 /\ built'[e][i] = n
    <3>1. \A i \in 1..(Len(s) + 1) : i \in 1..Len(s) \/ i = Len(s) + 1
      BY <2>4
    <3>2. \A i \in 1..Len(built'[b]) :
             \/ i \in 1..Len(s) /\ built'[b][i] = s[i]
             \/ i = Len(s) + 1 /\ built'[b][i] = n
      BY Zenon, <2>3, <2>4, <3>1
    <3> QED BY Zenon, <2>3, <3>2
  <2>10. NewInv'
    <3>1. \A r \in Requests : /\ Pending(r)' => Pending(r)
                              /\ newCirc'[r] = newCirc[r]
      BY <1>1 DEF Pending, requestVars
    <3>2. \A r \in Requests : Pending(r)' => Fresh(newCirc[r])'
      <4> SUFFICES ASSUME NEW r \in Requests, Pending(r)'
                   PROVE  Fresh(newCirc[r])'
        OBVIOUS
      <4>1. PICK c : c = newCirc[r] /\ Fresh(c)
        BY <1>0, <3>1 DEF NewInv
      <4>2. Fresh(c)' /\ c = newCirc'[r]
        BY SMTT(30), <2>6, <3>1, <4>1
      <4> QED BY <4>2 DEF Fresh
    <3>3. \A r, q \in Requests :
             Pending(r)' /\ Pending(q)' /\ newCirc'[r] = newCirc'[q] => r = q
      BY <1>0, <3>1 DEF NewInv
    <3>4. \A r \in Requests, e \in Builders : Pending(r)' =>
             \A i \in 1..Len(built'[e]) : built'[e][i] # newCirc'[r]
      BY <1>0, <2>6, <2>9, <3>1 DEF NewInv
    <3> QED BY <3>2, <3>3, <3>4 DEF NewInv
  <2>11. BuiltInv'
    <3> SUFFICES ASSUME NEW e \in Builders
                 PROVE  /\ Once(built'[e])
                        /\ \A i \in 1..Len(built'[e]) : Fresh(built[e][i])'
                        /\ e \notin running' => built'[e] = <<>>
                        /\ e \in running' =>
                              Len(built'[e]) + left'[e] <= Count /\ starts'[e] > 0
                        /\ \A f \in Builders : e # f =>
                              \A i \in 1..Len(built'[e]), j \in 1..Len(built'[f]) :
                                 built'[e][i] # built'[f][j]
      BY DEF BuiltInv
    <3>1. Once(built'[e])
      BY <1>0, <2>6, <2>9 DEF BuiltInv, Once
    <3>2. \A i \in 1..Len(built'[e]) : Fresh(built[e][i])'
      <4> TAKE i \in 1..Len(built'[e])
      <4>1. PICK c : c = built'[e][i] /\ Fresh(c)'
        BY SMTT(30), <1>0, <2>6, <2>7, <2>9 DEF BuiltInv
      <4> QED BY <4>1 DEF Fresh
    <3>3. e \notin running' => built'[e] = <<>>
      BY SMTT(30), <1>0, <1>1, <2>3 DEF BuiltInv
    <3>4. e \in running' => Len(built'[e]) + left'[e] <= Count /\ starts'[e] > 0
      BY SMTT(30), <1>0, <1>1, <1>2, <2>3, <2>4, CountAssumption DEF BuiltInv
    <3>5. \A f \in Builders : e # f =>
             \A i \in 1..Len(built'[e]), j \in 1..Len(built'[f]) :
                built'[e][i] # built'[f][j]
      <4> SUFFICES ASSUME NEW f \in Builders, e # f,
                          NEW i \in 1..Len(built'[e]), NEW j \in 1..Len(built'[f])
                   PROVE  built'[e][i] # built'[f][j]
        OBVIOUS
      <4>1. /\ \A k \in 1..Len(built[e]) : built[e][k] # n
            /\ \A k \in 1..Len(built[f]) : built[f][k] # n
            /\ \A k \in 1..Len(built[e]), l \in 1..Len(built[f]) : built[e][k] # built[f][l]
        BY <1>0, <2>6 DEF BuiltInv
      <4>2. \/ i \in 1..Len(built[e]) /\ built'[e][i] = built[e][i]
            \/ e = b /\ built'[e][i] = n
        BY <2>9
      <4>3. \/ j \in 1..Len(built[f]) /\ built'[f][j] = built[f][j]
            \/ f = b /\ built'[f][j] = n
        BY <2>9
      <4> QED BY ONLY <4>1, <4>2, <4>3, e # f
    <3> QED BY <3>1, <3>2, <3>3, <3>4, <3>5
  <2> QED BY <1>3, <1>4, <2>5, <2>8, <2>10, <2>11 DEF IInv
<1> QED BY <1>5, <1>6 DEF BuildOne

(* A new pool, whose circuits nobody has seen, takes the place of the one  *)
(* there is: the end of buildAll and of the start in bridge mode.          *)
LEMMA FillStep ==
    ASSUME IInv, NEW b \in Builders,
           UNCHANGED <<modeVars, counter, circuitVars, requestVars, left, starts>>,
           b \in running, running' = running \ {b}, circuits' = built[b],
           ready' = (built[b] # <<>>), built' = [built EXCEPT ![b] = <<>>]
    PROVE  IInv'
<1>0. TypeOK /\ PoolInv /\ NewInv /\ BuiltInv
  BY DEF IInv
<1>1. /\ built'[b] = <<>> /\ Len(built'[b]) = 0
      /\ \A e \in Builders : e # b => built'[e] = built[e]
      /\ built' \in [Builders -> Seq(Circuits)]
  BY <1>0 DEF TypeOK
<1>2. circuits' \in Seq(Circuits) /\ Len(circuits') <= Count
  <2>1. Len(built[b]) \in Nat /\ left[b] \in Nat /\ Len(built[b]) + left[b] <= Count
    BY <1>0 DEF TypeOK, BuiltInv
  <2> QED BY <1>0, <2>1, CountAssumption DEF TypeOK
<1>3. TypeOK'
  BY SMTT(30), <1>0, <1>1, <1>2 DEF TypeOK, modeVars, circuitVars, requestVars
<1>4. \A c : Fresh(c) /\ (\A i \in 1..Len(built[b]) : built[b][i] # c) => Fresh(c)'
  BY DEF Fresh, circuitVars, requestVars
<1>5. PoolInv' /\ ClosedOnlyInTransit'
  BY <1>0 DEF BuiltInv, Fresh, PoolInv, Once, ClosedOnlyInTransit, InPool, circuitVars,
              requestVars
<1>6. HoldInv' /\ ModeInv'
  BY ZenonT(30) DEF IInv, HoldInv, Holds, ModeInv, modeVars, requestVars
<1>7. NewInv'
  BY <1>0, <1>1, <1>4 DEF NewInv, Pending, requestVars
<1>8. BuiltInv'
  <2> SUFFICES ASSUME NEW e \in Builders
               PROVE  /\ Once(built'[e])
                      /\ \A i \in 1..Len(built'[e]) : Fresh(built[e][i])'
                      /\ e \notin running' => built'[e] = <<>>
                      /\ e \in running' =>
                            Len(built'[e]) + left'[e] <= Count /\ starts'[e] > 0
                      /\ \A f \in Builders : e # f =>
                            \A i \in 1..Len(built'[e]), j \in 1..Len(built'[f]) :
                               built'[e][i] # built'[f][j]
    BY SMTT(30) DEF BuiltInv
  <2>1. CASE e = b
    BY <1>1, <2>1 DEF Once
  <2>2. CASE e # b
    <3>1. \A i \in 1..Len(built[e]) : Fresh(built[e][i])'
      <4> TAKE i \in 1..Len(built[e])
      <4>1. PICK c : c = built[e][i] /\ Fresh(c)'
        BY <1>0, <1>4, <2>2 DEF BuiltInv
      <4> QED BY <1>1, <2>2, <4>1 DEF Fresh
    <3> QED BY <1>0, <1>1, <2>2, <3>1 DEF BuiltInv
  <2> QED BY <2>1, <2>2
<1> QED BY <1>3, <1>5, <1>6, <1>7, <1>8 DEF IInv

(* The end of buildAll,                                                    *)
LEMMA ReplaceAllStep ==
    ASSUME IInv, NEW b \in Builders, ReplaceAll(b)
    PROVE  IInv'
BY FillStep DEF ReplaceAll

(* and of the start in bridge mode, which keeps an empty pool empty if it  *)
(* could build nothing.                                                    *)
LEMMA BridgeFillStep ==
    ASSUME IInv, BridgeFill
    PROVE  IInv'
<1>0. TypeOK /\ NewInv /\ BuiltInv
  BY DEF IInv
<1>1. running = {"start"} /\ "start" \in Builders /\ running' = running \ {"start"}
  BY ZenonT(30), <1>0 DEF IInv, BridgeFill, ModeInv, TypeOK, Builders
<1>2. CASE built["start"] # <<>>
  BY <1>1, <1>2, FillStep DEF BridgeFill
<1>3. CASE built["start"] = <<>>
  <2>1. UNCHANGED <<modeVars, circuits, ready, counter, circuitVars, requestVars,
                    left, starts>>
    BY <1>3 DEF BridgeFill
  <2>2. built' = built
    BY <1>0, <1>3 DEF BridgeFill, TypeOK
  <2>3. TypeOK'
    BY <1>0, <1>1, <2>1, <2>2 DEF TypeOK, modeVars, circuitVars, requestVars
  <2>4. \A c : Fresh(c) => Fresh(c)'
    BY SMTT(30), <2>1 DEF Fresh, circuitVars, requestVars
  <2>5. PoolInv' /\ HoldInv' /\ ClosedOnlyInTransit'
    BY <2>1 DEF IInv, PoolInv, Once, HoldInv, Holds, ClosedOnlyInTransit, InPool,
                circuitVars, requestVars
  <2>6. ModeInv'
    BY SMTT(30), <1>1, <2>1 DEF IInv, ModeInv, BridgeFill, modeVars
  <2>7. NewInv'
    BY <1>0, <2>1, <2>2, <2>4 DEF NewInv, Pending, requestVars
  <2>8. BuiltInv'
    BY <1>0, <1>1, <1>3, <2>1, <2>2, <2>4 DEF BuiltInv, Once, Builders
  <2> QED BY <2>3, <2>5, <2>6, <2>7, <2>8 DEF IInv
<1> QED BY <1>2, <1>3

(* The start in bridge mode.                                               *)
LEMMA BridgeStartStep ==
    ASSUME IInv, BridgeStart
    PROVE  IInv'
<1>0. TypeOK /\ NewInv /\ BuiltInv
  BY DEF IInv
<1>1. /\ UNCHANGED <<modeVars, circuits, ready, counter, circuitVars, requestVars, built>>
      /\ bridge /\ starts["start"] = 0 /\ "start" \in Builders /\ running' = {"start"}
      /\ starts' = [starts EXCEPT !["start"] = 1]
      /\ left' = [left EXCEPT !["start"] = Count]
  BY DEF BridgeStart, Builders
<1>2. running = {}
  <2>1. "rotate" \notin running
    BY <1>1 DEF IInv, ModeInv
  <2>2. "start" \notin running
    BY <1>0, <1>1 DEF BuiltInv
  <2> QED BY <1>0, <2>1, <2>2 DEF TypeOK, Builders
<1>3. TypeOK'
  <2>1. left' \in [Builders -> 0..Count] /\ starts' \in [Builders -> Nat]
    BY <1>0, <1>1, CountAssumption DEF TypeOK
  <2> QED BY <1>0, <1>1, <2>1 DEF TypeOK, modeVars, circuitVars, requestVars
<1>4. \A c : Fresh(c) => Fresh(c)'
  BY <1>1 DEF Fresh, circuitVars, requestVars
<1>5. PoolInv' /\ HoldInv' /\ ClosedOnlyInTransit'
  BY <1>1 DEF IInv, PoolInv, Once, HoldInv, Holds, ClosedOnlyInTransit, InPool,
              circuitVars, requestVars
<1>6. ModeInv'
  BY SMTT(30), <1>1 DEF IInv, ModeInv, modeVars
<1>7. NewInv'
  BY SMTT(30), <1>0, <1>1, <1>4 DEF NewInv, Pending, requestVars
<1>8. BuiltInv'
  <2>1. \A e \in Builders : built[e] = <<>> /\ Len(built[e]) = 0
    BY <1>0, <1>2 DEF BuiltInv
  <2>2. left'["start"] = Count /\ starts'["start"] = 1
    BY <1>0, <1>1 DEF TypeOK
  <2> QED BY <1>0, <1>1, <2>1, <2>2, CountAssumption DEF BuiltInv, Once
<1> QED BY <1>3, <1>5, <1>6, <1>7, <1>8 DEF IInv

-----------------------------------------------------------------------------
(* Together.                                                               *)

(* After main has returned nothing is left to be wrong.                    *)
LEMMA ShutdownStep ==
    ASSUME IInv, Shutdown
    PROVE  IInv'
<1>0. TypeOK /\ PoolInv
  BY DEF IInv
<1> USE CountAssumption, BoundsAssumption
<1>1. circuits' \in Seq(Circuits) /\ Len(circuits') = 0 /\ circuits' = <<>> /\ ready' = FALSE
  BY DEF Shutdown
<1>2. TypeOK'
  <2>1. closed' \subseteq 1..made' /\ made' = made /\ dead' = dead /\ expired' = {}
    <3>1. /\ made' = made /\ dead' = dead /\ expired' = {}
          /\ closed' = closed \cup {circuits[i] : i \in 1..Len(circuits)}
      BY DEF Shutdown
    <3>2. closed \subseteq 1..made /\ \A i \in 1..Len(circuits) : circuits[i] \in 1..made
      BY <1>0 DEF TypeOK, PoolInv
    <3> QED BY <3>1, <3>2
  <2>2. /\ circ' \in [Requests -> 0..made'] /\ newCirc' \in [Requests -> 0..made']
        /\ idx' \in [Requests -> 0..Count] /\ pc' \in [Requests -> Steps]
        /\ outcome' \in [Requests -> {"none", "full", "cut", "error"}]
    <3>1. 0 \in 0..made' /\ 0 \in 0..Count
      BY <1>0, <2>1 DEF TypeOK
    <3> QED BY <3>1 DEF Shutdown, Steps
  <2>3. /\ left' \in [Builders -> 0..Count] /\ starts' \in [Builders -> Nat]
        /\ built' \in [Builders -> Seq(Circuits)] /\ running' = {}
    BY DEF Shutdown
  <2>4. bridge' \in BOOLEAN /\ stopped' \in BOOLEAN /\ ready' \in BOOLEAN /\ counter' = 0
    BY <1>0 DEF Shutdown, TypeOK
  <2> QED BY <1>0, <1>1, <2>1, <2>2, <2>3, <2>4 DEF TypeOK
<1>3. \A r \in Requests : ~ Pending(r)' /\ ~ Holds(r)'
  BY DEF Shutdown, Pending, Holds
<1>4. PoolInv' /\ HoldInv' /\ NewInv' /\ ClosedOnlyInTransit'
  BY <1>1, <1>3 DEF PoolInv, Once, HoldInv, NewInv, ClosedOnlyInTransit, InPool
<1>5. ModeInv'
  BY <1>1 DEF Shutdown, ModeInv
<1>6. BuiltInv'
  <2>1. running' = {} /\ \A b \in Builders : built'[b] = <<>> /\ Len(built'[b]) = 0
    BY DEF Shutdown
  <2> QED BY <2>1 DEF BuiltInv, Once
<1> QED BY <1>2, <1>4, <1>5, <1>6 DEF IInv

(* A step that changes nothing.                                            *)
LEMMA StutterStep ==
    ASSUME IInv, UNCHANGED vars
    PROVE  IInv'
<1>1. TypeOK'
  BY DEF IInv, TypeOK, vars, modeVars, circuitVars, requestVars, builderVars
<1>2. Calm
  BY DEF Calm, Pending, Holds, vars, modeVars, circuitVars, requestVars, builderVars
<1> QED BY <1>1, <1>2, CalmStep

(* Every step keeps the invariant.                                         *)
LEMMA NextInv == IInv /\ [Next]_vars => IInv'
<1> SUFFICES ASSUME IInv, [Next]_vars PROVE IInv'
  OBVIOUS
<1>1. ASSUME NEW r \in Requests, Request(r) PROVE IInv'
  BY <1>1, CallStep, GetStep, ReplacementStep, PlacedStep DEF Request
<1>2. ASSUME NEW b \in Builders, buildAll(b) PROVE IInv'
  BY <1>2, TakeAllStep, BuildOneStep, ReplaceAllStep DEF buildAll
<1>3. ASSUME NEW c \in Circuits, Expire(c) \/ Die(c) PROVE IInv'
  BY <1>3, AgeStep
<1>4. CASE BridgeStart \/ BridgeFill
  BY <1>4, BridgeStartStep, BridgeFillStep
<1>5. CASE Shutdown
  BY <1>5, ShutdownStep
<1>6. CASE UNCHANGED vars
  BY <1>6, StutterStep
<1> QED BY <1>1, <1>2, <1>3, <1>4, <1>5, <1>6 DEF Next, Finished

(* So the invariant holds always.                                          *)
LEMMA Invariance == Spec => []IInv
BY InitInv, NextInv, PTL DEF Spec

(* The pool's variables have their types; in particular the pool never     *)
(* holds more circuits than circuit_count asks for, however many builds    *)
(* overlap.                                                                *)
THEOREM TypeCorrect == Spec => []TypeOK
<1>1. IInv => TypeOK
  BY DEF IInv
<1> QED BY <1>1, Invariance, PTL

(* A circuit that get or send has closed is in the pool only while the     *)
(* call that closed it is about to put its replacement there.              *)
THEOREM ClosedInTransit == Spec => []ClosedOnlyInTransit
<1>1. IInv => ClosedOnlyInTransit
  BY DEF IInv
<1> QED BY <1>1, Invariance, PTL

(* isReady tells whether the pool has circuits when no build is running,   *)
(* also after overlapping buildAll calls, and in bridge mode.              *)
THEOREM ReadySettled == Spec => []ReadyWhenSettled
<1>1. IInv => ReadyWhenSettled
  BY DEF IInv, ModeInv, ReadyWhenSettled
<1> QED BY <1>1, Invariance, PTL

=============================================================================
