------------------------------- MODULE Paths ------------------------------
(***************************************************************************)
(* Which relays a circuit goes through: the copies of the consensus that   *)
(* the client, the broker and the volunteer keep (common/consensus.go and  *)
(* their refresh loops), the guard file, the three ways of choosing a path *)
(* (client/main.go) and the broker's assignments with their tokens         *)
(* (broker/main.go).                                                       *)
(*                                                                         *)
(* A list is what the directory serves: the role of each relay in it, and  *)
(* whether the broker the client is set to use is among the brokers.       *)
(* Broker, volunteer and client hold lists of different age, and every     *)
(* choice is made from the list its maker holds at that moment.            *)
(***************************************************************************)
EXTENDS Integers, Sequences

CONSTANTS
    Relays,
    Lists,        \* the consensuses the directory may serve
    Builders,     \* goroutines that build circuits
    Rotation,     \* the one that runs buildAll after each fetch
    Skew,         \* each holder's clock minus the directory's, in seconds
    TokenTTL,     \* in ticks of the clock
    MaxChanges,   \* bound: changes of the consensus
    MaxBuilds,    \* bound: circuits built
    MaxCrashes,   \* bound: restarts of the client
    MaxNow,       \* bound: ticks
    NoRelay, Torn

Holders == {"client", "broker", "volunteer"}
Modes == {"direct", "broker", "kind"}

(* Mutant of PathRoles: no middle is asked for.                            *)
PathRolesTwo == <<"entry", "exit">>

(* What buildViaBroker asks for, in this order.                            *)
PathRoles == <<"entry", "middle", "exit">>

NoList == [role |-> <<>>, broker |-> "none"]

ASSUME PathsAssumption ==
    /\ Rotation \in Builders
    /\ Skew \in [Holders -> Int]
    /\ \A l \in Lists : DOMAIN l.role \subseteq Relays
                        /\ l.broker \in {"none", "other", "ours"}
    /\ TokenTTL \in Nat /\ MaxNow \in Nat \ {0}
    /\ NoRelay \notin Relays /\ Torn \notin Relays /\ NoRelay # Torn

VARIABLES
    mode,        \* the client's configuration
    consensus,   \* what the directory serves now
    list,        \* what each holder has
    guardFile,   \* the relay pinned on disk; NoRelay without a file, Torn
                 \* while (or after) WriteFile has only truncated it
    pc,          \* each builder: "idle", "guard", "truncate", "write", "rest",
                 \* "assign", "tail", "volunteer", "done", "failed"
    snap,        \* the relays and brokers it was called with
    path,        \* the hops it has chosen
    raced,       \* history: builders that read guardFile before its last write
    served,      \* history: the consensuses there have been
    now,         \* the broker's clock
    token,       \* at most one of the tokens issued: for which relay, until
                 \* when, and whether the store still has it
    builds, changes, crashes

builderVars == <<pc, snap, path>>
fileVars == <<guardFile, raced>>
brokerVars == <<now, token>>
bounds == <<builds, changes, crashes>>
vars == <<mode, consensus, list, served, builderVars, fileVars, brokerVars, bounds>>

Tokens == [relay : Relays, exp : Nat, stored : BOOLEAN]

TypeOK ==
    /\ mode \in Modes /\ consensus \in Lists
    /\ list \in [Holders -> Lists \cup {NoList}]
    /\ guardFile \in Relays \cup {NoRelay, Torn} /\ raced \subseteq Builders
    /\ pc \in [Builders -> {"idle", "guard", "truncate", "write", "rest", "assign",
                            "tail", "volunteer", "done", "failed"}]
    /\ snap \in [Builders -> Lists \cup {NoList}]
    /\ path \in [Builders -> Seq(Relays)]
    /\ \A b \in Builders : pc[b] = "done" => Len(path[b]) = 3
    /\ token \subseteq Tokens
    /\ served \subseteq Lists /\ now \in 0..MaxNow

Init ==
    /\ mode \in Modes
    /\ consensus \in Lists
    /\ list = [h \in Holders |-> NoList]
    /\ guardFile = NoRelay /\ raced = {}
    /\ pc = [b \in Builders |-> "idle"]
    /\ snap = [b \in Builders |-> NoList]
    /\ path = [b \in Builders |-> <<>>]
    /\ served = {consensus}
    /\ now = 0 /\ token = {}
    /\ builds = 0 /\ changes = 0 /\ crashes = 0

WithRole(l, role) == {r \in DOMAIN l.role : l.role[r] = role}

-----------------------------------------------------------------------------
(* The consensus and its copies.                                           *)

(* Relays come, go and come back under another role.                       *)
Change(l) ==
    /\ changes < MaxChanges
    /\ changes' = changes + 1
    /\ consensus' = l
    /\ served' = served \cup {l}
    /\ UNCHANGED <<mode, list, builderVars, fileVars, brokerVars, builds, crashes>>

(* Mutant of Fresh: the age must be strictly below 600s.                   *)
FreshStrict(age) == age < 600 /\ age >= -60

(* The ages FetchVerifiedConsensus accepts.                                *)
Fresh(age) == age <= 600 /\ age >= -60

(* Timeout of the HTTP client, in seconds: what it takes from the          *)
(* directory's stamp to the check of the age is less, and adds to the age. *)
Timeout == 15

(* A fetch by h may succeed; it does however long the download takes.  The *)
(* ages accepted are an interval, so the extremes decide.                  *)
Fetched(h) == Fresh(Skew[h]) \/ Fresh(Skew[h] + Timeout)
FetchedSlowly(h) == Fresh(Skew[h]) /\ Fresh(Skew[h] + Timeout)

(* pollConsensus; a fetch that fails leaves the pool as it is.  The broker *)
(* and the volunteer run when the client is set to use them.               *)
pollConsensus ==
    /\ mode = "broker"
    /\ Fetched("broker")
    /\ list' = [list EXCEPT !["broker"] = consensus]
    /\ UNCHANGED <<mode, consensus, served, builderVars, fileVars, brokerVars, bounds>>

(* refreshConsensus of the volunteer.                                      *)
refreshConsensus ==
    /\ mode = "kind"
    /\ Fetched("volunteer")
    /\ list' = [list EXCEPT !["volunteer"] = consensus]
    /\ UNCHANGED <<mode, consensus, served, builderVars, fileVars, brokerVars, bounds>>

Resting(b) == pc[b] \in {"idle", "done", "failed"}

(* buildOne: the way a build takes.  Without any broker in the consensus a *)
(* client set to use one builds directly.                                  *)
buildOne(l) ==
    CASE mode = "kind" -> "tail"
      [] mode = "broker" /\ l.broker # "none" ->
            IF l.broker = "ours" THEN "assign" ELSE "failed"
      [] OTHER -> "guard"

Begin(b, l) ==
    /\ builds < MaxBuilds
    /\ builds' = builds + 1
    /\ snap' = [snap EXCEPT ![b] = l]
    /\ pc' = [pc EXCEPT ![b] = buildOne(l)]
    /\ path' = [path EXCEPT ![b] = <<>>]

(* The rotation: fetch, setRelays, buildAll.                               *)
Rotate ==
    /\ Resting(Rotation)
    /\ Fetched("client")
    /\ list' = [list EXCEPT !["client"] = consensus]
    /\ IF builds < MaxBuilds THEN Begin(Rotation, consensus)
       ELSE UNCHANGED <<builds, builderVars>>
    /\ UNCHANGED <<mode, consensus, served, fileVars, brokerVars, changes, crashes>>

(* buildAll goes on with its next circuit, and the relays it has.          *)
NextOfAll ==
    /\ pc[Rotation] \in {"done", "failed"}
    /\ Begin(Rotation, snap[Rotation])
    /\ UNCHANGED <<mode, consensus, list, served, fileVars, brokerVars, changes, crashes>>

(* get and send build a replacement from the relays of the moment.         *)
Rebuild(b) ==
    /\ b # Rotation
    /\ Resting(b)
    /\ Begin(b, list["client"])
    /\ UNCHANGED <<mode, consensus, list, served, fileVars, brokerVars, changes, crashes>>

(* The client is restarted: only the guard file is left.                   *)
Crash ==
    /\ crashes < MaxCrashes
    /\ crashes' = crashes + 1
    /\ list' = [list EXCEPT !["client"] = NoList]
    /\ pc' = [b \in Builders |-> "idle"]
    /\ snap' = [b \in Builders |-> NoList]
    /\ path' = [b \in Builders |-> <<>>]
    /\ raced' = {}
    /\ UNCHANGED <<mode, consensus, served, guardFile, brokerVars, builds, changes>>

-----------------------------------------------------------------------------
(* Choosing the hops.  pickRelay takes any relay of the role.              *)

Goto(b, l) == pc' = [pc EXCEPT ![b] = l]

Fails(b) == Goto(b, "failed") /\ path' = [path EXCEPT ![b] = <<>>]

pickRelay(l, role) == WithRole(l, role)

(* Mutant of loadGuard: the pinned relay is looked for among the relays of *)
(* the middle role.                                                        *)
loadGuardRole(b) == {guardFile} \cap pickRelay(snap[b], "middle")

(* The pinned relay, when it is an entry of the builder's list.            *)
loadGuard(b) == {guardFile} \cap pickRelay(snap[b], "entry")

(* loadOrPickGuard up to the write: the file is read once.                 *)
loadOrPickGuard(b) ==
    /\ pc[b] = "guard"
    /\ raced' = raced \ {b}
    /\ \/ \E g \in loadGuard(b) :
            path' = [path EXCEPT ![b] = <<g>>] /\ Goto(b, "rest")
       \/ /\ loadGuard(b) = {}
          /\ \E g \in pickRelay(snap[b], "entry") :
               path' = [path EXCEPT ![b] = <<g>>] /\ Goto(b, "truncate")
       \/ pickRelay(snap[b], "entry") = {} /\ Fails(b)
    /\ UNCHANGED <<mode, consensus, list, served, snap, guardFile, brokerVars, bounds>>

(* os.WriteFile truncates the file, then writes it ...                     *)
TruncateGuard(b) ==
    /\ pc[b] = "truncate"
    /\ guardFile' = Torn
    /\ Goto(b, "write")
    /\ UNCHANGED <<mode, consensus, list, served, snap, path, raced, brokerVars, bounds>>

WriteGuard(b) ==
    /\ pc[b] = "write"
    /\ guardFile' = path[b][1]
    /\ raced' = {c \in Builders \ {b} : pc[c] \in {"truncate", "write"}} \cup raced
    /\ Goto(b, "rest")
    /\ UNCHANGED <<mode, consensus, list, served, snap, path, brokerVars, bounds>>

(* ... and its error is ignored, whichever of the two fails.               *)
WriteGuardFails(b) ==
    /\ pc[b] \in {"truncate", "write"}
    /\ Goto(b, "rest")
    /\ UNCHANGED <<mode, consensus, list, served, snap, path, fileVars, brokerVars, bounds>>

(* Mutant of buildDirect: middle and exit come from the pool's relays, not *)
(* from the ones the build was called with.                                *)
buildDirectLive(b) ==
    /\ pc[b] = "rest"
    /\ \/ \E m \in pickRelay(list["client"], "middle"), x \in pickRelay(list["client"], "exit") :
            path' = [path EXCEPT ![b] = <<@[1], m, x>>] /\ Goto(b, "done")
       \/ (pickRelay(list["client"], "middle") = {} \/ pickRelay(list["client"], "exit") = {})
          /\ Fails(b)
    /\ UNCHANGED <<mode, consensus, list, served, snap, fileVars, brokerVars, bounds>>

(* The rest of buildDirect.                                                *)
buildDirect(b) ==
    /\ pc[b] = "rest"
    /\ \/ \E m \in pickRelay(snap[b], "middle"), x \in pickRelay(snap[b], "exit") :
            path' = [path EXCEPT ![b] = <<@[1], m, x>>] /\ Goto(b, "done")
       \/ (pickRelay(snap[b], "middle") = {} \/ pickRelay(snap[b], "exit") = {}) /\ Fails(b)
    /\ UNCHANGED <<mode, consensus, list, served, snap, fileVars, brokerVars, bounds>>

(* buildViaKind picks its own two hops before it dials ...                 *)
buildViaKind(b) ==
    /\ pc[b] = "tail"
    /\ \/ \E m \in pickRelay(snap[b], "middle"), x \in pickRelay(snap[b], "exit") :
            path' = [path EXCEPT ![b] = <<m, x>>] /\ Goto(b, "volunteer")
       \/ (pickRelay(snap[b], "middle") = {} \/ pickRelay(snap[b], "exit") = {}) /\ Fails(b)
    /\ UNCHANGED <<mode, consensus, list, served, snap, fileVars, brokerVars, bounds>>

(* ... and the volunteer picks the entry once the channel is open.  No     *)
(* volunteer, no entry or no answer within 30s fails the build.            *)
pickEntry(b) ==
    /\ pc[b] = "volunteer"
    /\ \/ \E e \in WithRole(list["volunteer"], "entry") :
            path' = [path EXCEPT ![b] = <<e, @[1], @[2]>>] /\ Goto(b, "done")
       \/ Fails(b)
    /\ UNCHANGED <<mode, consensus, list, served, snap, fileVars, brokerVars, bounds>>

-----------------------------------------------------------------------------
(* The broker.  The token store is a map whose entries do not affect each  *)
(* other: one token, any one of those issued, is followed.                 *)

(* relayPool.pick: the best score, which the random jitter and the clients'*)
(* wishes make any relay of the role.                                      *)
pick(role) == WithRole(list["broker"], role)

issue(r) ==
    \/ UNCHANGED token
    \/ token = {} /\ token' = {[relay |-> r, exp |-> now + TokenTTL, stored |-> TRUE]}

(* assignViaBroker and handleAssign for the builder's next hop; the broker *)
(* has no such relay, or cannot be reached, and the build fails.           *)
handleAssign(b) ==
    /\ pc[b] = "assign"
    /\ LET role == PathRoles[Len(path[b]) + 1]
       IN \/ \E r \in pick(role) :
               /\ path' = [path EXCEPT ![b] = Append(@, r)]
               /\ Goto(b, IF role = "exit" THEN "done" ELSE "assign")
               /\ issue(r)
          \/ Fails(b) /\ UNCHANGED token
    /\ UNCHANGED <<mode, consensus, list, served, snap, fileVars, now, bounds>>

Expired(t) == now > t.exp

(* What /validate answers for the token.                                   *)
Validates(t) == t.stored /\ ~Expired(t)

Forget(t) == [t EXCEPT !.stored = FALSE]

(* /validate is asked about it.                                            *)
validate ==
    /\ token # {}
    /\ token' = {IF Validates(t) THEN t ELSE Forget(t) : t \in token}
    /\ UNCHANGED <<mode, consensus, list, served, builderVars, fileVars, now, bounds>>

(* Mutant of gc: an entry goes at the instant it expires.                  *)
gcEarly ==
    /\ token # {}
    /\ token' = {IF now >= t.exp THEN Forget(t) ELSE t : t \in token}
    /\ UNCHANGED <<mode, consensus, list, served, builderVars, fileVars, now, bounds>>

gc ==
    /\ token # {}
    /\ token' = {IF Expired(t) THEN Forget(t) ELSE t : t \in token}
    /\ UNCHANGED <<mode, consensus, list, served, builderVars, fileVars, now, bounds>>

(* A restarted broker has no tokens and no relays.                         *)
RestartBroker ==
    /\ mode = "broker"
    /\ crashes < MaxCrashes
    /\ crashes' = crashes + 1
    /\ list' = [list EXCEPT !["broker"] = NoList]
    /\ token' = {}
    /\ UNCHANGED <<mode, consensus, served, builderVars, fileVars, now, builds, changes>>

(* The clock only matters for the token followed, and for the part of a    *)
(* second in which it is issued.                                           *)
Tick ==
    /\ mode = "broker"
    /\ now < IF token = {} THEN 1 ELSE MaxNow
    /\ now' = now + 1
    /\ UNCHANGED <<mode, consensus, list, served, builderVars, fileVars, token, bounds>>

-----------------------------------------------------------------------------
Build(b) ==
    \/ loadOrPickGuard(b) \/ TruncateGuard(b) \/ WriteGuard(b) \/ WriteGuardFails(b)
    \/ buildDirect(b) \/ buildViaKind(b) \/ pickEntry(b) \/ handleAssign(b)

Next ==
    \/ \E l \in Lists : Change(l)
    \/ pollConsensus \/ refreshConsensus \/ Rotate \/ NextOfAll
    \/ \E b \in Builders : Rebuild(b) \/ Build(b)
    \/ Crash \/ RestartBroker
    \/ validate \/ gc \/ Tick

(* The loops come back to their fetch, and a fetch whose outcome does not  *)
(* hang on the speed of the download succeeds in the end: the directory is *)
(* reached some time.  A builder does not wait for ever, except for the    *)
(* broker: the http.Post of assignViaBroker has no timeout.                *)
Fairness ==
    /\ WF_vars(FetchedSlowly("broker") /\ pollConsensus)
    /\ WF_vars(FetchedSlowly("volunteer") /\ refreshConsensus)
    /\ WF_vars(FetchedSlowly("client") /\ Rotate)
    /\ \A b \in Builders : WF_vars(pc[b] # "assign" /\ Build(b))

Spec == Init /\ [][Next]_vars /\ Fairness

-----------------------------------------------------------------------------
Distinct(p) == \A i, j \in DOMAIN p : p[i] = p[j] => i = j

RolesAgree ==
    \A l, k \in served : \A r \in DOMAIN l.role \cap DOMAIN k.role : l.role[r] = k.role[r]

(* A path built directly has three different relays whatever happens to    *)
(* the consensus meanwhile, because buildDirect works on the relays it was *)
(* called with.  A path whose hops were chosen by the broker in three      *)
(* calls, or by client and volunteer, has them as long as no relay has     *)
(* been listed under two roles.                                            *)
SoundPath ==
    \A b \in Builders :
        pc[b] = "done" /\ (mode = "direct" \/ RolesAgree) => Distinct(path[b])

(* loadOrPickGuard overwrites a pinned guard that the builder could have   *)
(* used only when the guard was pinned by another build after this one had *)
(* read the file; restarts, failed writes and changes of the consensus do  *)
(* not lose it.                                                            *)
GuardKept ==
    [][\A b \in Builders :
         TruncateGuard(b) /\ guardFile \in WithRole(snap[b], "entry") => b \in raced]_vars

TicksPerSecond == 2

(* A token is honoured by /validate up to the second handleAssign told the *)
(* client, and never after its expiry, whatever gc and earlier validations *)
(* have done, until the broker restarts.                                   *)
TokenHonoured ==
    \A t \in token :
        LET told == (t.exp \div TicksPerSecond) * TicksPerSecond
        IN /\ now <= told => Validates(t)
           /\ now > t.exp => ~Validates(t)

Running(h) ==
    \/ h = "client"
    \/ h = "broker" /\ mode = "broker"
    \/ h = "volunteer" /\ mode = "kind"

(* Once the consensus stops changing, every holder whose clock is within   *)
(* the window of FetchVerifiedConsensus, with room for the download, ends  *)
(* up with it; the client too, whose fetch waits for the circuits of the   *)
(* round before, unless one of those waits for a broker that never         *)
(* answers: assignViaBroker has no timeout, and the rotation, "every       *)
(* circuit_rotate_secs seconds" in the README, ends there.                 *)
ListsConverge ==
    <>[](\A h \in Holders :
            Running(h) /\ Skew[h] \in -60..(600 - Timeout)
               => list[h] = consensus \/ (h = "client" /\ pc[Rotation] = "assign"))
====
