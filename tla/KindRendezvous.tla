-------------------------- MODULE KindRendezvous --------------------------
(***************************************************************************)
(* Kind mode: clients reach an entry relay through volunteers that the     *)
(* broker matches them with.  The broker's three handlers (broker/kind.go),*)
(* the volunteer's workers (kind/main.go), and both ends of the WebRTC     *)
(* connection (webrtcx/conn.go).                                           *)
(*                                                                         *)
(* A client makes one ClientDial, so its session, offer, answer channel    *)
(* and the volunteer's peer connection for it all go by the client's name. *)
(* SDP blobs are opaque to everyone and are left out; STUN, ICE and DTLS   *)
(* are the choice of whether and when a data channel opens.                *)
(***************************************************************************)
EXTENDS Integers, Sequences, FiniteSets

CONSTANTS
    Clients,    \* calls of ClientDial
    Workers,    \* worker goroutines of the volunteers
    Capacity,   \* of the offers channel (64 in the code)
    Nobody

ASSUME CapacityAssumption == Capacity \in Nat \ {0}
ASSUME NobodyAssumption == Nobody \notin Clients

VARIABLES
    client,    \* ClientDial: "new", "post", "dial" (has the answer), "conn"
               \* (returned a connection), "closed" (its peer connection is)
    connect,   \* handleKindConnect: "none", "enqueue", "wait", "return", "done"
    reply,     \* its reply is an answer
    pending,   \* kindRendezvous.pending
    offers,    \* kindRendezvous.offers
    answered,  \* sessions whose answerCh holds an answer
    answer,    \* handleKindAnswer: "none", "lookup", "send", "done"
    worker,    \* "idle", "poll", "check", "serve", "submit", "await", "tunnel"
    session,   \* worker: the session it has taken from offers
    claimed,   \* history: sessions taken from offers
    abandoned, \* history: sessions whose answer could not be submitted
    peer,      \* the volunteer's peer connection: "none", "open", "closed"
    opened,    \* sessions whose data channel has opened at the volunteer
    resCh,     \* VolunteerAnswer's channel: "empty", "conn", "err"
    timer      \* its open timeout: "off", "armed", "closing", "done"

clientVars == <<client, connect, reply>>
brokerVars == <<pending, offers, answered, answer>>
workerVars == <<worker, session, claimed, abandoned>>
peerVars == <<peer, opened, resCh, timer>>
vars == <<clientVars, brokerVars, workerVars, peerVars>>

TypeOK ==
    /\ client \in [Clients -> {"new", "post", "dial", "conn", "closed"}]
    /\ connect \in [Clients -> {"none", "enqueue", "wait", "return", "done"}]
    /\ reply \in [Clients -> BOOLEAN]
    /\ pending \subseteq Clients
    /\ offers \in Seq(Clients) /\ Len(offers) <= Capacity
    /\ answered \subseteq Clients
    /\ answer \in [Clients -> {"none", "lookup", "send", "done"}]
    /\ worker \in [Workers -> {"idle", "poll", "check", "serve", "submit",
                               "await", "tunnel"}]
    /\ session \in [Workers -> Clients \cup {Nobody}]
    /\ claimed \subseteq Clients /\ abandoned \subseteq Clients
    /\ peer \in [Clients -> {"none", "open", "closed"}]
    /\ opened \subseteq Clients
    /\ resCh \in [Clients -> {"empty", "conn", "err"}]
    /\ timer \in [Clients -> {"off", "armed", "closing", "done"}]

Init ==
    /\ client = [c \in Clients |-> "new"]
    /\ connect = [c \in Clients |-> "none"]
    /\ reply = [c \in Clients |-> FALSE]
    /\ pending = {} /\ offers = <<>> /\ answered = {}
    /\ answer = [c \in Clients |-> "none"]
    /\ worker = [w \in Workers |-> "idle"]
    /\ session = [w \in Workers |-> Nobody]
    /\ claimed = {} /\ abandoned = {}
    /\ peer = [c \in Clients |-> "none"]
    /\ opened = {}
    /\ resCh = [c \in Clients |-> "empty"]
    /\ timer = [c \in Clients |-> "off"]

-----------------------------------------------------------------------------
(* The client, and handleKindConnect that serves its request.              *)

(* ClientDial posts its offer; the handler files the session.              *)
Offer(c) ==
    /\ client[c] = "new"
    /\ client' = [client EXCEPT ![c] = "post"]
    /\ connect' = [connect EXCEPT ![c] = "enqueue"]
    /\ pending' = pending \cup {c}
    /\ UNCHANGED <<reply, offers, answered, answer, workerVars, peerVars>>

(* Mutant of Enqueue: the channel's capacity is not respected.             *)
EnqueueAlways(c) ==
    /\ connect[c] = "enqueue"
    /\ offers' = Append(offers, c)
    /\ connect' = [connect EXCEPT ![c] = "wait"]
    /\ UNCHANGED <<client, reply, pending, answered, answer, workerVars, peerVars>>

(* The session is offered to the volunteers, or "rendezvous busy".         *)
Enqueue(c) ==
    /\ connect[c] = "enqueue"
    /\ IF Len(offers) < Capacity
       THEN /\ offers' = Append(offers, c)
            /\ connect' = [connect EXCEPT ![c] = "wait"]
       ELSE /\ connect' = [connect EXCEPT ![c] = "return"]
            /\ UNCHANGED offers
    /\ UNCHANGED <<client, reply, pending, answered, answer, workerVars, peerVars>>

TakeAnswer(c) ==
    /\ connect[c] = "wait"
    /\ c \in answered
    /\ answered' = answered \ {c}
    /\ reply' = [reply EXCEPT ![c] = TRUE]
    /\ connect' = [connect EXCEPT ![c] = "return"]
    /\ UNCHANGED <<client, pending, offers, answer, workerVars, peerVars>>

(* kindConnectWait passes, or the client's request is cancelled.           *)
WaitExpires(c) ==
    /\ connect[c] = "wait"
    /\ connect' = [connect EXCEPT ![c] = "return"]
    /\ UNCHANGED <<client, reply, brokerVars, workerVars, peerVars>>

(* The deferred delete; the reply reaches a client that still waits for it.*)
ConnectReturns(c) ==
    /\ connect[c] = "return"
    /\ connect' = [connect EXCEPT ![c] = "done"]
    /\ pending' = pending \ {c}
    /\ client' = IF client[c] = "post"
                 THEN [client EXCEPT ![c] = IF reply[c] THEN "dial" ELSE "closed"]
                 ELSE client
    /\ UNCHANGED <<reply, offers, answered, answer, workerVars, peerVars>>

(* The client's data channel opens while it waits for it.                  *)
ClientOpens(c) ==
    /\ client[c] = "dial"
    /\ peer[c] = "open"
    /\ client' = [client EXCEPT ![c] = "conn"]
    /\ UNCHANGED <<connect, reply, brokerVars, workerVars, peerVars>>

(* The request fails or times out, the answer cannot be used, the channel  *)
(* does not open in time, or the circuit over it is closed.                *)
ClientCloses(c) ==
    /\ client[c] \in {"post", "dial", "conn"}
    /\ client' = [client EXCEPT ![c] = "closed"]
    /\ UNCHANGED <<connect, reply, brokerVars, workerVars, peerVars>>

-----------------------------------------------------------------------------
(* The worker, and the handlers that serve its requests.                   *)

Becomes(w, step) == worker' = [worker EXCEPT ![w] = step]

poll(w) ==
    /\ worker[w] = "idle"
    /\ Becomes(w, "poll")
    /\ UNCHANGED <<clientVars, brokerVars, session, claimed, abandoned, peerVars>>

(* Mutant of PollTakes: the offer is not removed.                          *)
PollPeeks(w) ==
    /\ worker[w] = "poll"
    /\ offers # <<>>
    /\ session' = [session EXCEPT ![w] = Head(offers)]
    /\ claimed' = claimed \cup {Head(offers)}
    /\ Becomes(w, "check")
    /\ UNCHANGED <<clientVars, brokerVars, abandoned, peerVars>>

PollTakes(w) ==
    /\ worker[w] = "poll"
    /\ offers # <<>>
    /\ offers' = Tail(offers)
    /\ session' = [session EXCEPT ![w] = Head(offers)]
    /\ claimed' = claimed \cup {Head(offers)}
    /\ Becomes(w, "check")
    /\ UNCHANGED <<clientVars, pending, answered, answer, abandoned, peerVars>>

(* The session is handed out if its client still waits, unless the reply   *)
(* is lost on the way.                                                     *)
PollCheck(w) ==
    /\ worker[w] = "check"
    /\ \E delivered \in BOOLEAN :
          IF delivered /\ session[w] \in pending
          THEN Becomes(w, "serve") /\ UNCHANGED session
          ELSE Becomes(w, "idle") /\ session' = [session EXCEPT ![w] = Nobody]
    /\ UNCHANGED <<clientVars, brokerVars, claimed, abandoned, peerVars>>

(* kindPollWait passes, or the request fails.                              *)
PollExpires(w) ==
    /\ worker[w] = "poll"
    /\ Becomes(w, "idle")
    /\ UNCHANGED <<clientVars, brokerVars, session, claimed, abandoned, peerVars>>

(* VolunteerAnswer, and the start of the POST that carries its answer.     *)
VolunteerAnswer(w) ==
    LET c == session[w]
    IN /\ worker[w] = "serve"
       /\ peer' = [peer EXCEPT ![c] = "open"]
       /\ timer' = [timer EXCEPT ![c] = "armed"]
       /\ answer' = [answer EXCEPT ![c] = "lookup"]
       /\ Becomes(w, "submit")
       /\ UNCHANGED <<clientVars, pending, offers, answered, session, claimed,
                      abandoned, opened, resCh>>

(* The offer cannot be answered: the peer connection is closed at once.    *)
AnswerFails(w) ==
    /\ worker[w] = "serve"
    /\ peer' = [peer EXCEPT ![session[w]] = "closed"]
    /\ Becomes(w, "idle")
    /\ session' = [session EXCEPT ![w] = Nobody]
    /\ UNCHANGED <<clientVars, brokerVars, claimed, abandoned, opened, resCh, timer>>

(* handleKindAnswer finds the session under the lock ...                   *)
AnswerLookup(c) ==
    /\ answer[c] = "lookup"
    /\ answer' = [answer EXCEPT ![c] = IF c \in pending THEN "send" ELSE "done"]
    /\ UNCHANGED <<clientVars, pending, offers, answered, workerVars, peerVars>>

(* ... and fills its answer channel after the unlock.                      *)
AnswerSend(c) ==
    /\ answer[c] = "send"
    /\ answered' = answered \cup {c}
    /\ answer' = [answer EXCEPT ![c] = "done"]
    /\ UNCHANGED <<clientVars, pending, offers, workerVars, peerVars>>

(* The POST returns; its status is not looked at.                          *)
Submitted(w) ==
    /\ worker[w] = "submit"
    /\ answer[session[w]] = "done"
    /\ Becomes(w, "await")
    /\ UNCHANGED <<clientVars, brokerVars, session, claimed, abandoned, peerVars>>

(* The POST fails, though the broker may still act on it: serve returns.   *)
SubmitFails(w) ==
    /\ worker[w] = "submit"
    /\ Becomes(w, "idle")
    /\ abandoned' = abandoned \cup {session[w]}
    /\ session' = [session EXCEPT ![w] = Nobody]
    /\ UNCHANGED <<clientVars, brokerVars, claimed, peerVars>>

(* serve receives from resCh, which is empty again.                        *)
TakeResult(w) ==
    LET c == session[w]
    IN /\ worker[w] = "await"
       /\ resCh[c] # "empty"
       /\ resCh' = [resCh EXCEPT ![c] = "empty"]
       /\ IF resCh[c] = "conn"
          THEN Becomes(w, "tunnel") /\ UNCHANGED session
          ELSE Becomes(w, "idle") /\ session' = [session EXCEPT ![w] = Nobody]
       /\ UNCHANGED <<clientVars, brokerVars, claimed, abandoned, peer, opened, timer>>

(* Mutant of TunnelEnds: the connection is not closed on the way out.      *)
TunnelEndsOpen(w) ==
    /\ worker[w] = "tunnel"
    /\ Becomes(w, "idle")
    /\ session' = [session EXCEPT ![w] = Nobody]
    /\ UNCHANGED <<clientVars, brokerVars, claimed, abandoned, peerVars>>

(* No entry relay is known or reachable, or one side of pipe ends.         *)
TunnelEnds(w) ==
    /\ worker[w] = "tunnel"
    /\ peer' = [peer EXCEPT ![session[w]] = "closed"]
    /\ Becomes(w, "idle")
    /\ session' = [session EXCEPT ![w] = Nobody]
    /\ UNCHANGED <<clientVars, brokerVars, claimed, abandoned, opened, resCh, timer>>

-----------------------------------------------------------------------------
(* The callbacks of the volunteer's peer connection.                       *)

(* The data channel opens: the client has applied the answer.  A send to a *)
(* full resCh blocks.  A channel that cannot be detached is an error.      *)
OnOpen(c) ==
    /\ peer[c] = "open"
    /\ client[c] \in {"dial", "conn"}
    /\ c \notin opened
    /\ resCh[c] = "empty"
    /\ opened' = opened \cup {c}
    /\ \/ resCh' = [resCh EXCEPT ![c] = "conn"] /\ UNCHANGED peer
       \/ /\ resCh' = [resCh EXCEPT ![c] = "err"]
          /\ peer' = [peer EXCEPT ![c] = "closed"]
    /\ UNCHANGED <<clientVars, brokerVars, workerVars, timer>>

(* Mutant of TimerFires: it never does.                                    *)
TimerNever(c) == FALSE /\ UNCHANGED vars

(* openTimeout passes: an error if resCh has room for one.                 *)
TimerFires(c) ==
    /\ timer[c] = "armed"
    /\ IF resCh[c] = "empty"
       THEN /\ resCh' = [resCh EXCEPT ![c] = "err"]
            /\ timer' = [timer EXCEPT ![c] = "closing"]
       ELSE timer' = [timer EXCEPT ![c] = "done"] /\ UNCHANGED resCh
    /\ UNCHANGED <<clientVars, brokerVars, workerVars, peer, opened>>

TimerCloses(c) ==
    /\ timer[c] = "closing"
    /\ peer' = [peer EXCEPT ![c] = "closed"]
    /\ timer' = [timer EXCEPT ![c] = "done"]
    /\ UNCHANGED <<clientVars, brokerVars, workerVars, opened, resCh>>

-----------------------------------------------------------------------------
handleKindConnect(c) == Enqueue(c) \/ TakeAnswer(c) \/ WaitExpires(c) \/ ConnectReturns(c)

ClientDial(c) == Offer(c) \/ ClientOpens(c) \/ ClientCloses(c)

handleKindAnswer(c) == AnswerLookup(c) \/ AnswerSend(c)

openTimeout(c) == TimerFires(c) \/ TimerCloses(c)

serve(w) ==
    \/ VolunteerAnswer(w) \/ AnswerFails(w)
    \/ Submitted(w) \/ SubmitFails(w)
    \/ TakeResult(w) \/ TunnelEnds(w)

handleKindPoll(w) == PollTakes(w) \/ PollCheck(w) \/ PollExpires(w)

Next ==
    \/ \E c \in Clients :
          \/ ClientDial(c) \/ handleKindConnect(c) \/ handleKindAnswer(c)
          \/ OnOpen(c) \/ openTimeout(c)
    \/ \E w \in Workers : poll(w) \/ handleKindPoll(w) \/ serve(w)

Spec == Init /\ [][Next]_vars

(* The volunteer's goroutines are scheduled and its timeouts pass; nothing *)
(* is assumed of clients, of the broker or of the network.                 *)
FairSpec ==
    /\ Spec
    /\ \A c \in Clients : WF_vars(openTimeout(c))
    /\ \A w \in Workers : WF_vars(Submitted(w) \/ SubmitFails(w)) /\ WF_vars(TakeResult(w))

-----------------------------------------------------------------------------
(* Properties.                                                             *)

Times(c) == Cardinality({i \in 1..Len(offers) : offers[i] = c})

(* The rendezvous neither loses nor duplicates an offer: while its client  *)
(* is waiting, a session either stands in the channel exactly once or has  *)
(* been taken by a volunteer, never both, and no two volunteers ever serve *)
(* the same session (offers, pending and the two long-polls).              *)
OfferHandedOutOnce ==
    /\ \A c \in Clients :
          /\ Times(c) <= (IF c \in claimed THEN 0 ELSE 1)
          /\ connect[c] = "wait" => Times(c) = 1 \/ c \in claimed
    /\ \A v, w \in Workers : session[v] = session[w] /\ session[v] # Nobody => v = w

(* The volunteer keeps no peer connection that nobody will close: an open  *)
(* one is in the hands of a worker or of its open timeout, the two of      *)
(* which hand it over through resCh; the one exception is a session whose  *)
(* answer POST failed at the volunteer but whose client connected (serve   *)
(* returns before it reads resCh).                                         *)
NoOrphanPeer ==
    \A c \in Clients :
        peer[c] = "open" => \/ \E w \in Workers : session[w] = c
                            \/ timer[c] \in {"armed", "closing"}
                            \/ c \in abandoned /\ resCh[c] = "conn"

(* A worker never hangs on a client that does not connect: after answering *)
(* it always comes to a tunnel or back to polling, whether the client has  *)
(* gone, the broker dropped the answer or the channel never opens (serve's *)
(* receive from resCh has no timeout of its own).                          *)
WorkerComesBack ==
    \A w \in Workers :
        worker[w] \in {"submit", "await"} ~> worker[w] \in {"idle", "tunnel"}

(* VolunteerAnswer's channel "yields the net.Conn once the datachannel     *)
(* opens (or an error / timeout)": once it has yielded the connection, the *)
(* open timeout does not close it.                                         *)
TimeoutSparesTunnel ==
    \A w \in Workers : worker[w] = "tunnel" => timer[session[w]] # "closing"
====
