----------------------- MODULE KindRendezvousProofs -----------------------
(***************************************************************************)
(* Proofs about KindRendezvous, for any clients, any workers and any       *)
(* capacity of the offers channel.                                         *)
(***************************************************************************)
EXTENDS KindRendezvous, FiniteSetTheorems, TLAPS

(* An offer is made once, and is in the channel once, until a worker takes *)
(* it.                                                                     *)
Listed(c) == \E i \in 1..Len(offers) : offers[i] = c

QueueInv ==
    /\ \A i, j \in 1..Len(offers) : offers[i] = offers[j] => i = j
    /\ \A i \in 1..Len(offers) : offers[i] \notin claimed
    /\ \A c \in Clients :
          /\ client[c] = "new" => connect[c] = "none"
          /\ connect[c] \in {"none", "enqueue"} => c \notin claimed /\ ~ Listed(c)
          /\ connect[c] = "wait" => c \in claimed \/ Listed(c)

(* A session has at most one worker, from when it is taken.                *)
SessionInv ==
    /\ \A w \in Workers :
          /\ worker[w] \in {"idle", "poll"} <=> session[w] = Nobody
          /\ session[w] # Nobody => session[w] \in claimed
          /\ worker[w] \in {"check", "serve"} => peer[session[w]] = "none"
    /\ \A v, w \in Workers : session[v] = session[w] /\ session[v] # Nobody => v = w

(* An open peer connection has a timeout and, until that closes it, a      *)
(* worker, or had one whose answer failed; a timeout that has passed       *)
(* without closing it found its data channel open.                         *)
PeerAt(c) ==
    /\ c \notin claimed => peer[c] = "none"
    /\ peer[c] = "none" => timer[c] = "off"
    /\ peer[c] = "open" => timer[c] # "off"
    /\ resCh[c] = "err" => peer[c] = "closed" \/ timer[c] = "closing"
    /\ peer[c] = "open" => \/ timer[c] = "closing"
                           \/ c \in abandoned
                           \/ \E w \in Workers : session[w] = c
    /\ peer[c] = "open" /\ timer[c] = "done" =>
          \/ resCh[c] = "conn"
          \/ \E w \in Workers : session[w] = c /\ worker[w] = "tunnel"

PeerInv == \A c \in Clients : PeerAt(c)

IInv == TypeOK /\ QueueInv /\ SessionInv /\ PeerInv

-----------------------------------------------------------------------------
(* Types.                                                                  *)

(* Initially.                                                              *)
LEMMA InitInv == Init => IInv
<1> SUFFICES ASSUME Init PROVE IInv
  OBVIOUS
<1>0. offers \in Seq(Clients) /\ Len(offers) = 0
  BY DEF Init
<1>1. TypeOK
  BY <1>0, CapacityAssumption DEF Init, TypeOK
<1>2. QueueInv
  BY <1>0 DEF Init, QueueInv, Listed
<1>3. SessionInv
  BY DEF Init, SessionInv
<1>4. PeerInv
  BY DEF Init, PeerInv, PeerAt
<1> QED BY <1>1, <1>2, <1>3, <1>4 DEF IInv

(* The client and handleKindConnect keep the types,                        *)
LEMMA ConnectType ==
    ASSUME TypeOK, NEW c \in Clients, ClientDial(c) \/ handleKindConnect(c)
    PROVE  TypeOK'
<1> USE DEF TypeOK, clientVars, brokerVars, workerVars, peerVars
<1>1. CASE Offer(c)
  BY <1>1 DEF Offer
<1>2. CASE ClientOpens(c) \/ ClientCloses(c)
  BY <1>2 DEF ClientOpens, ClientCloses
<1>3. CASE Enqueue(c)
  <2>1. CASE Len(offers) < Capacity
    <3>1. Append(offers, c) \in Seq(Clients) /\ Len(Append(offers, c)) <= Capacity
      BY <2>1, CapacityAssumption
    <3> QED BY ZenonT(30), <1>3, <2>1, <3>1 DEF Enqueue
  <2> QED BY <1>3, <2>1 DEF Enqueue
<1>4. CASE TakeAnswer(c)
  BY <1>4 DEF TakeAnswer
<1>6. CASE WaitExpires(c)
  BY <1>6 DEF WaitExpires
<1>5. CASE ConnectReturns(c)
  <2>1. client' \in [Clients -> {"new", "post", "dial", "conn", "closed"}]
    BY <1>5 DEF ConnectReturns
  <2>2. connect' \in [Clients -> {"none", "enqueue", "wait", "return", "done"}]
    BY <1>5 DEF ConnectReturns
  <2>3. pending' \subseteq Clients
    BY <1>5 DEF ConnectReturns
  <2>4. UNCHANGED <<reply, offers, answered, answer, workerVars, peerVars>>
    BY <1>5 DEF ConnectReturns
  <2> QED BY <2>1, <2>2, <2>3, <2>4
<1> QED BY <1>1, <1>2, <1>3, <1>4, <1>5, <1>6 DEF ClientDial, handleKindConnect

(* handleKindAnswer and the callbacks of the peer connection do,           *)
LEMMA CallbackType ==
    ASSUME TypeOK, NEW c \in Clients,
           handleKindAnswer(c) \/ OnOpen(c) \/ openTimeout(c)
    PROVE  TypeOK'
<1> USE DEF TypeOK, clientVars, brokerVars, workerVars, peerVars
<1>1. CASE AnswerLookup(c)
  BY <1>1 DEF AnswerLookup
<1>2. CASE AnswerSend(c)
  BY <1>2 DEF AnswerSend
<1>3. CASE OnOpen(c)
  BY ZenonT(30), <1>3 DEF OnOpen
<1>4. CASE TimerFires(c)
  <2>1. /\ resCh' = resCh \/ resCh' = [resCh EXCEPT ![c] = "err"]
        /\ \E t \in {"closing", "done"} : timer' = [timer EXCEPT ![c] = t]
    BY <1>4 DEF TimerFires
  <2>2. UNCHANGED <<clientVars, brokerVars, workerVars, peer, opened>>
    BY <1>4 DEF TimerFires
  <2> QED BY <2>1, <2>2
<1>5. CASE TimerCloses(c)
  BY <1>5 DEF TimerCloses
<1> QED BY <1>1, <1>2, <1>3, <1>4, <1>5 DEF handleKindAnswer, openTimeout

(* and the worker and handleKindPoll.                                      *)
LEMMA WorkerType ==
    ASSUME IInv, NEW w \in Workers, poll(w) \/ handleKindPoll(w) \/ serve(w)
    PROVE  TypeOK'
<1>0. TypeOK
  BY DEF IInv
<1>s. worker[w] \notin {"idle", "poll"} => session[w] \in Clients
  BY DEF IInv, TypeOK, SessionInv
<1> USE <1>0 DEF TypeOK, clientVars, brokerVars, workerVars, peerVars, Becomes
<1>1. CASE poll(w) \/ PollExpires(w) \/ PollCheck(w)
  BY <1>1 DEF poll, PollExpires, PollCheck
<1>2. CASE PollTakes(w)
  <2>1. /\ Tail(offers) \in Seq(Clients) /\ Len(Tail(offers)) <= Capacity
        /\ Head(offers) \in Clients
    BY <1>2, CapacityAssumption DEF PollTakes
  <2> QED BY <1>2, <2>1 DEF PollTakes
<1>3. CASE VolunteerAnswer(w) \/ AnswerFails(w)
  BY SMTT(30), <1>3, <1>s DEF VolunteerAnswer, AnswerFails
<1>4. CASE Submitted(w) \/ SubmitFails(w)
  BY <1>4, <1>s DEF Submitted, SubmitFails
<1>5. CASE TakeResult(w) \/ TunnelEnds(w)
  BY SMTT(30), <1>5, <1>s DEF TakeResult, TunnelEnds
<1> QED BY <1>1, <1>2, <1>3, <1>4, <1>5 DEF handleKindPoll, serve

-----------------------------------------------------------------------------
(* The client and handleKindConnect, which touch no worker and no peer     *)
(* connection.                                                             *)

(* The session is put in the channel at most once: after it has been, or   *)
(* has not found room, its handler never comes back to the place.          *)
LEMMA ConnectStep ==
    ASSUME IInv, NEW c \in Clients, ClientDial(c) \/ handleKindConnect(c)
    PROVE  IInv'
<1>0. TypeOK /\ QueueInv
  BY DEF IInv
<1>1. TypeOK'
  BY <1>0, ConnectType
<1>2. UNCHANGED <<workerVars, peerVars>>
  BY DEF ClientDial, handleKindConnect, Offer, ClientOpens, ClientCloses, Enqueue,
         TakeAnswer, WaitExpires, ConnectReturns
<1>3. SessionInv' /\ PeerInv'
  BY <1>2 DEF IInv, SessionInv, PeerInv, PeerAt, workerVars, peerVars
<1>4. /\ \A d \in Clients : d # c => client'[d] = client[d] /\ connect'[d] = connect[d]
      /\ claimed' = claimed
      /\ client'[c] = "new" => client[c] = "new" /\ connect'[c] = connect[c]
      /\ connect'[c] \in {"none", "enqueue"} => connect[c] \in {"none", "enqueue"}
  BY <1>0, <1>2 DEF ClientDial, handleKindConnect, Offer, ClientOpens, ClientCloses,
         Enqueue, TakeAnswer, WaitExpires, ConnectReturns, TypeOK, QueueInv, workerVars
<1>5. CASE offers' = offers
  <2>1. connect'[c] = "wait" => connect[c] = "wait"
    <3>1. CASE Enqueue(c)
      <4>1. Len(offers) >= Capacity
        <5>1. offers \in Seq(Clients) /\ Len(Append(offers, c)) = Len(offers) + 1
              /\ Len(offers) \in Nat
          BY <1>0 DEF TypeOK
        <5>2. Append(offers, c) # offers
          BY <5>1
        <5> QED BY <1>5, <3>1, <5>1, <5>2, CapacityAssumption DEF Enqueue
      <4>2. connect' = [connect EXCEPT ![c] = "return"]
        BY <1>0, <3>1, <4>1, CapacityAssumption DEF Enqueue, TypeOK
      <4> QED BY <1>0, <4>2 DEF TypeOK
    <3>2. CASE ~ Enqueue(c)
      BY <1>0, <3>2 DEF ClientDial, handleKindConnect, Offer, ClientOpens, ClientCloses,
             TakeAnswer, WaitExpires, ConnectReturns, TypeOK, clientVars
    <3> QED BY <3>1, <3>2
  <2>2. \A d \in Clients : Listed(d)' <=> Listed(d)
    BY <1>5 DEF Listed
  <2>3. QueueInv'
    BY <1>0, <1>4, <1>5, <2>1, <2>2 DEF QueueInv
  <2> QED BY <1>1, <1>3, <2>3 DEF IInv
<1>6. CASE offers' # offers
  <2>1. connect[c] = "enqueue" /\ offers' = Append(offers, c)
        /\ connect' = [connect EXCEPT ![c] = "wait"] /\ client' = client
    BY <1>6 DEF ClientDial, handleKindConnect, Offer, ClientOpens, ClientCloses, Enqueue,
           TakeAnswer, WaitExpires, ConnectReturns, brokerVars
  <2>2. /\ Len(offers) \in Nat /\ Len(offers') = Len(offers) + 1
        /\ \A i \in 1..Len(offers) : offers'[i] = offers[i]
        /\ offers'[Len(offers) + 1] = c
    BY <1>0, <2>1 DEF TypeOK
  <2>3. \A i \in 1..Len(offers') : \/ i \in 1..Len(offers) /\ offers'[i] = offers[i]
                                   \/ i = Len(offers) + 1 /\ offers'[i] = c
    BY <2>2
  <2>4. c \notin claimed /\ \A i \in 1..Len(offers) : offers[i] # c
    BY <1>0, <2>1 DEF QueueInv, Listed
  <2>5. Listed(c)' /\ \A d \in Clients : d # c => (Listed(d)' <=> Listed(d))
    <3>1. Len(offers) + 1 \in 1..Len(offers') /\ 1..Len(offers) \subseteq 1..Len(offers')
      BY <2>2
    <3> QED BY <2>2, <2>3, <3>1 DEF Listed
  <2>6. connect'[c] = "wait"
    BY <1>0, <2>1 DEF TypeOK
  <2>7. \A i, j \in 1..Len(offers') : offers'[i] = offers'[j] => i = j
    BY <1>0, <2>3, <2>4 DEF QueueInv
  <2>8. \A i \in 1..Len(offers') : offers'[i] \notin claimed'
    BY <1>0, <1>4, <2>3, <2>4 DEF QueueInv
  <2>9. QueueInv'
    BY <1>0, <1>4, <2>1, <2>5, <2>6, <2>7, <2>8 DEF QueueInv
  <2> QED BY <1>1, <1>3, <2>9 DEF IInv
<1> QED BY <1>5, <1>6

-----------------------------------------------------------------------------
(* handleKindAnswer and the callbacks of the volunteer's peer connection.  *)

(* They touch neither the channel nor a worker, and open nothing; a        *)
(* timeout that leaves the connection open has found it in resCh.          *)
LEMMA CallbackStep ==
    ASSUME IInv, NEW c \in Clients,
           handleKindAnswer(c) \/ OnOpen(c) \/ openTimeout(c)
    PROVE  IInv'
<1>0. TypeOK /\ PeerInv
  BY DEF IInv
<1>1. TypeOK'
  BY <1>0, CallbackType
<1>2. UNCHANGED <<clientVars, offers, workerVars>>
  BY SMTT(30) DEF handleKindAnswer, AnswerLookup, AnswerSend, OnOpen, openTimeout, TimerFires,
         TimerCloses, brokerVars
<1>3. QueueInv'
  BY SMTT(30), <1>2 DEF IInv, QueueInv, Listed, clientVars, workerVars
<1>4. /\ \A d \in Clients : d # c => /\ peer'[d] = peer[d] /\ timer'[d] = timer[d]
                                     /\ resCh'[d] = resCh[d]
      /\ peer'[c] = peer[c] \/ (peer[c] # "none" /\ peer'[c] = "closed")
  <2>1. CASE handleKindAnswer(c)
    BY <2>1 DEF handleKindAnswer, AnswerLookup, AnswerSend, peerVars
  <2>2. CASE OnOpen(c)
    BY <1>0, <2>2 DEF OnOpen, TypeOK
  <2>3. CASE TimerFires(c)
    BY <1>0, <2>3 DEF TimerFires, TypeOK
  <2>4. CASE TimerCloses(c)
    BY <1>0, <2>4 DEF TimerCloses, TypeOK, PeerInv, PeerAt
  <2> QED BY <2>1, <2>2, <2>3, <2>4 DEF openTimeout
<1>5. SessionInv'
  BY <1>0, <1>2, <1>4, NobodyAssumption DEF IInv, SessionInv, TypeOK, workerVars
<1>6. PeerInv'
  <2>1. CASE handleKindAnswer(c)
    BY SMTT(30), <1>0, <1>2, <2>1
       DEF PeerInv, PeerAt, handleKindAnswer, AnswerLookup, AnswerSend, peerVars, workerVars
  <2>2. CASE OnOpen(c)
    <3>1. /\ peer[c] = "open" /\ timer' = timer
          /\ \/ resCh'[c] = "conn" /\ peer'[c] = "open"
             \/ resCh'[c] = "err" /\ peer'[c] = "closed"
      BY <1>0, <2>2 DEF OnOpen, TypeOK
    <3> QED BY <1>0, <1>2, <1>4, <3>1 DEF PeerInv, PeerAt, workerVars
  <2>3. CASE TimerFires(c)
    <3>1. /\ timer[c] = "armed" /\ peer' = peer
          /\ \/ resCh'[c] = "err" /\ timer'[c] = "closing"
             \/ resCh'[c] = resCh[c] /\ resCh[c] # "empty" /\ timer'[c] = "done"
      BY <1>0, <2>3 DEF TimerFires, TypeOK
    <3>2. resCh[c] \in {"empty", "conn", "err"}
      BY SMTT(30), <1>0 DEF TypeOK
    <3> QED BY <1>0, <1>2, <1>4, <3>1, <3>2 DEF PeerInv, PeerAt, workerVars
  <2>4. CASE TimerCloses(c)
    <3>1. /\ timer[c] = "closing" /\ timer'[c] = "done" /\ peer'[c] = "closed"
          /\ resCh' = resCh
      BY <1>0, <2>4 DEF TimerCloses, TypeOK
    <3> QED BY <1>0, <1>2, <1>4, <3>1 DEF PeerInv, PeerAt, workerVars
  <2> QED BY SMTT(30), <2>1, <2>2, <2>3, <2>4 DEF openTimeout
<1> QED BY <1>1, <1>3, <1>5, <1>6 DEF IInv

-----------------------------------------------------------------------------
(* The worker, and the handlers that serve its requests.                   *)

(* Taking the first session out of the channel: it was there once and      *)
(* nobody has had it.                                                      *)
LEMMA PollTakesStep ==
    ASSUME IInv, NEW w \in Workers, PollTakes(w)
    PROVE  IInv'
<1>0. TypeOK /\ QueueInv /\ SessionInv /\ PeerInv
  BY DEF IInv
<1>1. TypeOK'
  BY WorkerType DEF handleKindPoll
<1>2. PICK c \in Clients : c = Head(offers) /\ c = offers[1] /\ 1 \in 1..Len(offers)
  BY <1>0 DEF PollTakes, TypeOK
<1>3. /\ UNCHANGED <<clientVars, pending, answered, answer, abandoned, peerVars>>
      /\ worker[w] = "poll" /\ worker' = [worker EXCEPT ![w] = "check"]
      /\ session' = [session EXCEPT ![w] = c] /\ claimed' = claimed \cup {c}
      /\ offers' = Tail(offers) /\ offers # <<>>
  BY <1>2 DEF PollTakes, Becomes
<1>4. c \notin claimed /\ \A i \in 1..Len(offers) : offers[i] = c => i = 1
  BY <1>0, <1>2 DEF QueueInv
<1>5. /\ Len(offers) \in Nat /\ Len(offers') = Len(offers) - 1
      /\ \A i \in 1..Len(offers') : i + 1 \in 1..Len(offers) /\ offers'[i] = offers[i + 1]
  BY <1>0, <1>3 DEF TypeOK
<1>6. \A i \in 1..Len(offers) : i # 1 => i - 1 \in 1..Len(offers') /\ offers'[i - 1] = offers[i]
  <2> SUFFICES ASSUME NEW i \in 1..Len(offers), i # 1
               PROVE  i - 1 \in 1..Len(offers') /\ offers'[i - 1] = offers[i]
    OBVIOUS
  <2>1. i - 1 \in 1..Len(offers') /\ (i - 1) + 1 = i
    BY <1>5
  <2> QED BY <1>5, <2>1
<1>7. QueueInv'
  <2>1. \A i, j \in 1..Len(offers') : offers'[i] = offers'[j] => i = j
    <3> SUFFICES ASSUME NEW i \in 1..Len(offers'), NEW j \in 1..Len(offers'),
                        offers'[i] = offers'[j]
                 PROVE  i = j
      OBVIOUS
    <3>1. i + 1 = j + 1
      BY <1>0, <1>5 DEF QueueInv
    <3> QED BY <1>5, <3>1
  <2>2. \A i \in 1..Len(offers') : offers'[i] \notin claimed' /\ offers'[i] # c
    <3> SUFFICES ASSUME NEW i \in 1..Len(offers')
                 PROVE  offers'[i] \notin claimed /\ offers'[i] # c
      BY <1>3
    <3>1. i + 1 \in 1..Len(offers) /\ i + 1 # 1 /\ offers'[i] = offers[i + 1]
      BY <1>5
    <3> QED BY <1>0, <1>4, <3>1 DEF QueueInv
  <2>3. \A d \in Clients : /\ Listed(d)' => Listed(d)
                           /\ Listed(d) /\ d # c => Listed(d)'
    BY SMTT(30), <1>2, <1>5, <1>6 DEF Listed
  <2>4. connect[c] \notin {"none", "enqueue"} /\ Listed(c)
    BY <1>0, <1>2 DEF QueueInv, Listed
  <2> QED BY <1>0, <1>3, <2>1, <2>2, <2>3, <2>4 DEF QueueInv, clientVars
<1>8. /\ session[w] = Nobody /\ session'[w] = c /\ worker'[w] = "check"
      /\ \A v \in Workers : v # w => session'[v] = session[v] /\ worker'[v] = worker[v]
      /\ c # Nobody /\ \A v \in Workers : session[v] # c
  BY <1>0, <1>3, <1>4, NobodyAssumption DEF TypeOK, SessionInv
<1>9. peer[c] = "none"
  BY <1>0, <1>4 DEF PeerInv, PeerAt
<1>10. SessionInv'
  BY <1>0, <1>3, <1>8, <1>9 DEF SessionInv, peerVars
<1>11. PeerInv'
  <2>1. \A d \in Clients : (\E v \in Workers : session[v] = d)
                              => \E v \in Workers : session'[v] = d
    BY <1>8, NobodyAssumption
  <2>2. \A d \in Clients : (\E v \in Workers : session[v] = d /\ worker[v] = "tunnel")
                              => \E v \in Workers : session'[v] = d /\ worker'[v] = "tunnel"
    BY SMTT(30), <1>8, NobodyAssumption
  <2> QED BY <1>0, <1>3, <2>1, <2>2 DEF PeerInv, PeerAt, peerVars
<1> QED BY <1>1, <1>7, <1>10, <1>11 DEF IInv

(* A worker that keeps the session it has, or still has none: it polls, is *)
(* given the session, has its answer accepted, or starts the tunnel.       *)
LEMMA WorkerKeeps ==
    ASSUME IInv, TypeOK', NEW w \in Workers,
           UNCHANGED <<clientVars, offers, claimed, session, abandoned, peer, timer>>,
           \A v \in Workers : v # w => worker'[v] = worker[v],
           worker'[w] \in {"idle", "poll"} <=> worker[w] \in {"idle", "poll"},
           worker'[w] \in {"check", "serve"} => worker[w] \in {"check", "serve"},
           worker[w] # "tunnel",
           \A d \in Clients : \/ resCh'[d] = resCh[d]
                              \/ /\ resCh'[d] = "empty"
                                 /\ session[w] = d /\ worker'[w] = "tunnel"
    PROVE  IInv'
<1>0. QueueInv /\ SessionInv /\ PeerInv
  BY SMTT(30) DEF IInv
<1>1. QueueInv'
  BY <1>0 DEF QueueInv, Listed, clientVars
<1>2. SessionInv'
  BY <1>0 DEF SessionInv
<1>3. PeerInv'
  BY SMTT(30), <1>0 DEF PeerInv, PeerAt
<1> QED BY <1>1, <1>2, <1>3 DEF IInv

(* A worker that lets go of its session: the peer connection is not there, *)
(* or closed, or about to be closed by the timeout, or the answer to it    *)
(* failed.                                                                 *)
LEMMA WorkerDrops ==
    ASSUME IInv, TypeOK', NEW w \in Workers, NEW c \in Clients, session[w] = c,
           UNCHANGED <<clientVars, offers, claimed, timer>>,
           worker' = [worker EXCEPT ![w] = "idle"],
           session' = [session EXCEPT ![w] = Nobody],
           \A d \in Clients : d # c => peer'[d] = peer[d] /\ resCh'[d] = resCh[d],
           abandoned \subseteq abandoned',
           resCh'[c] = "err" => resCh[c] = "err",
           peer'[c] \in {peer[c], "closed"},
           peer'[c] = "open" => \/ timer[c] = "closing"
                                \/ /\ c \in abandoned' /\ worker[w] # "tunnel"
                                   /\ resCh'[c] = resCh[c]
    PROVE  IInv'
<1>0. TypeOK /\ QueueInv /\ SessionInv /\ PeerInv
  BY DEF IInv
<1>1. QueueInv'
  BY <1>0 DEF QueueInv, Listed, clientVars
<1>2. /\ session'[w] = Nobody /\ worker'[w] = "idle" /\ c # Nobody
      /\ \A v \in Workers : v # w => session'[v] = session[v] /\ worker'[v] = worker[v]
      /\ \A v \in Workers : v # w => session[v] # c
  BY <1>0, NobodyAssumption DEF TypeOK, SessionInv
<1>3. SessionInv'
  BY SMTT(30), <1>0, <1>2 DEF SessionInv, TypeOK
<1>4. ASSUME NEW d \in Clients, d # c
      PROVE  /\ (\E v \in Workers : session[v] = d)
                    => \E v \in Workers : session'[v] = d
             /\ (\E v \in Workers : session[v] = d /\ worker[v] = "tunnel")
                    => \E v \in Workers : session'[v] = d /\ worker'[v] = "tunnel"
  BY <1>2, <1>4
<1>5. c \in claimed
  BY <1>0, <1>2 DEF SessionInv
<1>6. ASSUME NEW d \in Clients PROVE PeerAt(d)'
  <2>0. PeerAt(d)
    BY <1>0 DEF PeerInv
  <2>1. CASE d # c
    BY <1>4, <2>0, <2>1 DEF PeerAt
  <2>2. CASE d = c
    <3>1. /\ c \in claimed' /\ timer'[c] = timer[c]
          /\ peer'[c] = "open" => peer[c] = "open"
          /\ peer'[c] = "none" => peer[c] = "none"
          /\ peer[c] = "closed" => peer'[c] = "closed"
      BY <1>5
    <3>2. worker[w] # "tunnel" => ~ \E v \in Workers : session[v] = c /\ worker[v] = "tunnel"
      BY <1>2
    <3> QED BY SMTT(30), <2>0, <2>2, <3>1, <3>2 DEF PeerAt
  <2> QED BY <2>1, <2>2
<1>7. PeerInv'
  BY <1>6 DEF PeerInv
<1> QED BY <1>1, <1>3, <1>7 DEF IInv

(* The volunteer answers the offer: the peer connection gets its timeout   *)
(* with it.                                                                *)
LEMMA VolunteerAnswerStep ==
    ASSUME IInv, NEW w \in Workers, VolunteerAnswer(w)
    PROVE  IInv'
<1>0. TypeOK /\ QueueInv /\ SessionInv /\ PeerInv
  BY DEF IInv
<1>1. TypeOK'
  BY WorkerType DEF serve
<1>2. PICK c \in Clients : c = session[w] /\ c \in claimed /\ peer[c] = "none"
  BY <1>0 DEF VolunteerAnswer, TypeOK, SessionInv
<1>3. /\ UNCHANGED <<clientVars, pending, offers, answered, session, claimed,
                     abandoned, opened, resCh>>
      /\ worker[w] = "serve" /\ worker' = [worker EXCEPT ![w] = "submit"]
      /\ peer' = [peer EXCEPT ![c] = "open"] /\ timer' = [timer EXCEPT ![c] = "armed"]
  BY <1>2 DEF VolunteerAnswer, Becomes
<1>4. /\ peer'[c] = "open" /\ timer'[c] = "armed" /\ worker'[w] = "submit"
      /\ \A d \in Clients : d # c => peer'[d] = peer[d] /\ timer'[d] = timer[d]
      /\ \A v \in Workers : v # w => worker'[v] = worker[v]
      /\ \A v \in Workers : v # w => session[v] # c
      /\ timer[c] = "off" /\ resCh[c] # "err" /\ c # Nobody
  BY SMTT(30), <1>0, <1>2, <1>3, NobodyAssumption DEF TypeOK, SessionInv, PeerInv, PeerAt
<1>5. QueueInv'
  BY <1>0, <1>3 DEF QueueInv, Listed, clientVars
<1>6. SessionInv'
  BY SMTT(30), <1>0, <1>2, <1>3, <1>4 DEF SessionInv, TypeOK
<1>7. ASSUME NEW d \in Clients PROVE PeerAt(d)'
  <2>0. PeerAt(d)
    BY <1>0 DEF PeerInv
  <2>1. (\E v \in Workers : session[v] = d /\ worker[v] = "tunnel")
            => \E v \in Workers : session[v] = d /\ worker'[v] = "tunnel"
    BY <1>3, <1>4
  <2> QED BY <1>2, <1>3, <1>4, <2>0, <2>1 DEF PeerAt
<1>8. PeerInv'
  BY SMTT(30), <1>7 DEF PeerInv
<1> QED BY <1>1, <1>5, <1>6, <1>8 DEF IInv

(* The other steps of the worker keep the session or drop it.              *)
LEMMA WorkerStep ==
    ASSUME IInv, NEW w \in Workers, poll(w) \/ handleKindPoll(w) \/ serve(w)
    PROVE  IInv'
<1>0. TypeOK /\ TypeOK' /\ SessionInv /\ PeerInv
  BY WorkerType DEF IInv
<1>1. CASE PollTakes(w)
  BY <1>1, PollTakesStep
<1>2. CASE VolunteerAnswer(w)
  BY <1>2, VolunteerAnswerStep
<1>3. CASE poll(w) \/ PollExpires(w) \/ Submitted(w)
  <2>1. UNCHANGED <<clientVars, offers, claimed, session, abandoned, peer, timer, resCh>>
    BY SMTT(30), <1>3 DEF poll, PollExpires, Submitted, brokerVars, peerVars
  <2>2. /\ \A v \in Workers : v # w => worker'[v] = worker[v]
        /\ worker'[w] \in {"idle", "poll"} <=> worker[w] \in {"idle", "poll"}
        /\ worker'[w] \notin {"check", "serve"} /\ worker[w] # "tunnel"
    BY <1>0, <1>3 DEF poll, PollExpires, Submitted, Becomes, TypeOK
  <2> QED BY <1>0, <2>1, <2>2, WorkerKeeps
<1>4. ASSUME NEW c \in Clients, session[w] = c, PollCheck(w)
      PROVE  IInv'
  <2>1. /\ UNCHANGED <<clientVars, offers, claimed, abandoned, peer, timer, resCh>>
        /\ worker[w] = "check" /\ peer[c] = "none"
    BY <1>0, <1>4 DEF PollCheck, SessionInv, brokerVars, peerVars
  <2>2. CASE worker' = [worker EXCEPT ![w] = "serve"] /\ session' = session
    <3>1. /\ \A v \in Workers : v # w => worker'[v] = worker[v]
          /\ worker'[w] = "serve"
      BY SMTT(30), <1>0, <2>2 DEF TypeOK
    <3> QED BY <1>0, <2>1, <2>2, <3>1, WorkerKeeps
  <2>3. CASE /\ worker' = [worker EXCEPT ![w] = "idle"]
             /\ session' = [session EXCEPT ![w] = Nobody]
    BY <1>0, <1>4, <2>1, <2>3, WorkerDrops
  <2> QED BY SMTT(30), <1>4, <2>2, <2>3 DEF PollCheck, Becomes
<1>5. ASSUME NEW c \in Clients, session[w] = c, AnswerFails(w) \/ TunnelEnds(w)
      PROVE  IInv'
  <2>1. /\ UNCHANGED <<clientVars, offers, claimed, abandoned, timer, resCh>>
        /\ worker' = [worker EXCEPT ![w] = "idle"]
        /\ session' = [session EXCEPT ![w] = Nobody]
        /\ peer' = [peer EXCEPT ![c] = "closed"]
    BY <1>5 DEF AnswerFails, TunnelEnds, Becomes, brokerVars
  <2>2. peer'[c] = "closed" /\ \A d \in Clients : d # c => peer'[d] = peer[d]
    BY SMTT(30), <1>0, <2>1 DEF TypeOK
  <2> QED BY <1>0, <1>5, <2>1, <2>2, WorkerDrops
<1>6. ASSUME NEW c \in Clients, session[w] = c, SubmitFails(w)
      PROVE  IInv'
  <2>1. /\ UNCHANGED <<clientVars, offers, claimed, peer, timer, resCh>>
        /\ worker[w] = "submit" /\ worker' = [worker EXCEPT ![w] = "idle"]
        /\ session' = [session EXCEPT ![w] = Nobody]
        /\ abandoned' = abandoned \cup {c}
    BY <1>6 DEF SubmitFails, Becomes, brokerVars, peerVars
  <2> QED BY <1>0, <1>6, <2>1, WorkerDrops
<1>7. ASSUME NEW c \in Clients, session[w] = c, TakeResult(w)
      PROVE  IInv'
  <2>1. /\ UNCHANGED <<clientVars, offers, claimed, abandoned, peer, timer>>
        /\ worker[w] = "await" /\ resCh' = [resCh EXCEPT ![c] = "empty"]
        /\ \/ /\ worker' = [worker EXCEPT ![w] = "tunnel"] /\ session' = session
           \/ /\ worker' = [worker EXCEPT ![w] = "idle"]
              /\ session' = [session EXCEPT ![w] = Nobody]
              /\ resCh[c] \notin {"empty", "conn"}
    BY <1>7 DEF TakeResult, Becomes, brokerVars
  <2>2. resCh'[c] = "empty" /\ \A d \in Clients : d # c => resCh'[d] = resCh[d]
    BY <1>0, <2>1 DEF TypeOK
  <2>3. CASE worker' = [worker EXCEPT ![w] = "tunnel"] /\ session' = session
    <3>1. /\ \A v \in Workers : v # w => worker'[v] = worker[v]
          /\ worker'[w] = "tunnel"
      BY SMTT(30), <1>0, <2>3 DEF TypeOK
    <3> QED BY SMTT(30), <1>0, <1>7, <2>1, <2>2, <2>3, <3>1, WorkerKeeps
  <2>4. CASE /\ worker' = [worker EXCEPT ![w] = "idle"]
             /\ session' = [session EXCEPT ![w] = Nobody]
             /\ resCh[c] \notin {"empty", "conn"}
    <3>1. peer[c] = "closed" \/ timer[c] = "closing"
      BY <1>0, <2>4 DEF TypeOK, PeerInv, PeerAt
    <3> QED BY <1>0, <1>7, <2>1, <2>2, <2>4, <3>1, WorkerDrops
  <2> QED BY <2>1, <2>3, <2>4
<1>8. worker[w] \notin {"idle", "poll"} => \E c \in Clients : session[w] = c
  BY <1>0 DEF TypeOK, SessionInv
<1>9. /\ PollCheck(w) \/ AnswerFails(w) \/ SubmitFails(w) \/ TakeResult(w)
            \/ TunnelEnds(w) => worker[w] \notin {"idle", "poll"}
  BY DEF PollCheck, AnswerFails, SubmitFails, TakeResult, TunnelEnds
<1> QED BY <1>1, <1>2, <1>3, <1>4, <1>5, <1>6, <1>7, <1>8, <1>9 DEF handleKindPoll, serve

-----------------------------------------------------------------------------
(* Together.                                                               *)

(* Every step keeps the invariant.                                         *)
LEMMA NextInv == IInv /\ [Next]_vars => IInv'
<1> SUFFICES ASSUME IInv, [Next]_vars PROVE IInv'
  BY SMTT(30)
<1>1. CASE UNCHANGED vars
  BY <1>1 DEF IInv, TypeOK, QueueInv, Listed, SessionInv, PeerInv, PeerAt, vars, clientVars,
              brokerVars, workerVars, peerVars
<1> QED BY <1>1, ConnectStep, CallbackStep, WorkerStep DEF Next

(* So the invariant holds always.                                          *)
LEMMA Invariance == Spec => []IInv
BY InitInv, NextInv, PTL DEF Spec

(* A session listed once counts once, another not at all.                  *)
LEMMA TimesListed ==
    ASSUME QueueInv, NEW c
    PROVE  Times(c) = IF Listed(c) THEN 1 ELSE 0
<1>1. CASE Listed(c)
  <2>1. PICK k \in 1..Len(offers) : offers[k] = c
    BY <1>1 DEF Listed
  <2>2. {i \in 1..Len(offers) : offers[i] = c} = {k}
    BY <2>1 DEF QueueInv
  <2> QED BY <1>1, <2>2, FS_Singleton DEF Times
<1>2. CASE ~ Listed(c)
  <2>1. {i \in 1..Len(offers) : offers[i] = c} = {}
    BY <1>2 DEF Listed
  <2> QED BY <1>2, <2>1, FS_EmptySet DEF Times
<1> QED BY <1>1, <1>2

(* The variables of the rendezvous have their types; the offers channel    *)
(* never holds more than its capacity.                                     *)
THEOREM TypeCorrect == Spec => []TypeOK
<1>1. IInv => TypeOK
  BY DEF IInv
<1> QED BY <1>1, Invariance, PTL

(* No offer is lost or handed to two volunteers (handleKindConnect and     *)
(* handleKindPoll), whatever times out on either side.                     *)
THEOREM HandedOutOnce == Spec => []OfferHandedOutOnce
<1>1. IInv => OfferHandedOutOnce
  <2> SUFFICES ASSUME IInv PROVE OfferHandedOutOnce
    OBVIOUS
  <2>1. QueueInv /\ SessionInv
    BY DEF IInv
  <2>2. \A c \in Clients : Listed(c) => c \notin claimed
    BY <2>1 DEF QueueInv, Listed
  <2>3. ASSUME NEW c \in Clients
        PROVE  /\ Times(c) <= (IF c \in claimed THEN 0 ELSE 1)
               /\ connect[c] = "wait" => Times(c) = 1 \/ c \in claimed
    <3>1. Times(c) = IF Listed(c) THEN 1 ELSE 0
      BY <2>1, TimesListed
    <3>2. connect[c] = "wait" => c \in claimed \/ Listed(c)
      BY <2>1 DEF QueueInv
    <3> QED BY <2>2, <3>1, <3>2
  <2> QED BY <2>1, <2>3 DEF OfferHandedOutOnce, SessionInv
<1> QED BY <1>1, Invariance, PTL

(* The volunteer leaves no peer connection open that neither a worker nor  *)
(* its open timeout will close, but for sessions whose answer POST failed  *)
(* (VolunteerAnswer, serve).                                               *)
THEOREM PeersHaveOwners == Spec => []NoOrphanPeer
<1>1. IInv => NoOrphanPeer
  <2> SUFFICES ASSUME IInv, NEW c \in Clients, peer[c] = "open"
               PROVE  \/ \E w \in Workers : session[w] = c
                      \/ timer[c] \in {"armed", "closing"}
                      \/ c \in abandoned /\ resCh[c] = "conn"
    BY DEF NoOrphanPeer
  <2>1. PeerAt(c) /\ timer[c] \in {"off", "armed", "closing", "done"}
    BY DEF IInv, PeerInv, TypeOK
  <2> QED BY <2>1 DEF PeerAt
<1> QED BY <1>1, Invariance, PTL

=============================================================================
