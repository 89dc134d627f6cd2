------------------------------ MODULE Stream ------------------------------
(***************************************************************************)
(* Requests and responses over one built circuit: the client's sendRequest *)
(* (client/main.go), run by several proxy goroutines that share the        *)
(* circuit's connection, the exit's handleExitRelay goroutines and the     *)
(* forwardCells goroutines of the entry and the middle (relay/main.go).    *)
(*                                                                         *)
(* Cells carry their body length; the onion layers themselves are the      *)
(* subject of Telescope.  Hop 1 is the entry, hop 3 the exit; back[h] is   *)
(* what relay h has written towards the client on its InConn.              *)
(***************************************************************************)
EXTENDS Integers, Sequences, FiniteSets

CONSTANTS
    Requests,      \* the requests proxied over this circuit
    RequestSizes,  \* lengths of hostLen | host | port | data
    ChunkSizes,    \* lengths of one read from the origin
    ErrorSizes,    \* lengths of a 502 body built by sendExitError
    MaxChunks,     \* bound: chunks and error replies in total
    MaxLost,       \* bound: connections that fail (EntryTimeout aside)
    Nobody

CellBodyMax == 505
gcmOverhead == 28
hops == 3

ASSUME RequestsAssumption == Nobody \notin Requests
ASSUME SizesAssumption ==
    /\ RequestSizes \subseteq Nat /\ ErrorSizes \subseteq Nat
    /\ ChunkSizes \subseteq 1..(CellBodyMax - hops * gcmOverhead)
ASSUME BoundAssumption == MaxChunks \in Nat /\ MaxLost \in Nat

Cells == [cmd : {"Relay", "RelayDone"}, req : Requests, seq : Nat, size : Nat,
          err : BOOLEAN]

VARIABLES
    state,      \* sendRequest of each request: "new", "read" (about to read a
                \* cell), "len" (its length prefix is read), "lost" (it read
                \* a length from the middle of a frame), "done"
    response,   \* the chunks appended so far, each as <<request, number>>
    ended,      \* how sendRequest returned: "done", "eof", "deadline" (a nil
                \* error all three), "error"
    doneOf,     \* the request whose RelayDone ended it
    armed,      \* the connection's read deadline is set
    frame,      \* the reader that has taken a length prefix off the stream
    desync,     \* the stream no longer stands at the start of a frame
    toExit,     \* requests on their way to the exit
    job,        \* handleExitRelay: "none", "run", "ending", "done"
    sent,       \* response cells the exit wrote for each request
    bigError,   \* some error reply left no room for all the layers
    back,       \* response cells in flight
    alive,      \* the forwardCells goroutines of the entry and the middle
    lost,       \* the connections (by listening relay) that are gone
    overlapped  \* history: requests that shared the circuit with another

clientVars == <<state, response, ended, doneOf, armed, frame, desync>>
exitVars == <<job, sent, bigError>>
vars == <<clientVars, toExit, exitVars, back, alive, lost, overlapped>>

Outcomes == {"none", "done", "eof", "deadline", "error"}

TypeOK ==
    /\ state \in [Requests -> {"new", "read", "len", "lost", "done"}]
    /\ response \in [Requests -> Seq(Requests \X Nat)]
    /\ ended \in [Requests -> Outcomes]
    /\ doneOf \in [Requests -> Requests \cup {Nobody}]
    /\ armed \in BOOLEAN
    /\ frame \in Requests \cup {Nobody}
    /\ desync \in BOOLEAN
    /\ toExit \in Seq(Requests)
    /\ job \in [Requests -> {"none", "run", "ending", "done"}]
    /\ sent \in [Requests -> Nat]
    /\ bigError \in BOOLEAN
    /\ back \in [1..hops -> Seq(Cells)]
    /\ alive \in [1..(hops - 1) -> BOOLEAN]
    /\ lost \in SUBSET (1..hops)
    /\ overlapped \in SUBSET Requests

Init ==
    /\ state = [r \in Requests |-> "new"]
    /\ response = [r \in Requests |-> <<>>]
    /\ ended = [r \in Requests |-> "none"]
    /\ doneOf = [r \in Requests |-> Nobody]
    /\ armed = FALSE
    /\ frame = Nobody
    /\ desync = FALSE
    /\ toExit = <<>>
    /\ job = [r \in Requests |-> "none"]
    /\ sent = [r \in Requests |-> 0]
    /\ bigError = FALSE
    /\ back = [h \in 1..hops |-> <<>>]
    /\ alive = [h \in 1..(hops - 1) |-> TRUE]
    /\ lost = {}
    /\ overlapped = {}

-----------------------------------------------------------------------------
(* The client.                                                             *)

Reading(r) == state[r] \in {"read", "len", "lost"}

InBack(r) == \E h \in 1..hops : \E i \in 1..Len(back[h]) : back[h][i].req = r

(* Request r still occupies the circuit.                                   *)
Busy(r) ==
    \/ Reading(r)
    \/ \E i \in 1..Len(toExit) : toExit[i] = r
    \/ job[r] \in {"run", "ending"}
    \/ InBack(r)

(* sendRequest up to its read loop: three layers are added, a payload that *)
(* no longer fits a cell is an error; otherwise the cell is written and    *)
(* the connection's read deadline is set.  A write to a connection that is *)
(* gone is lost.                                                           *)
SendRequest(r, size) ==
    LET others == {q \in Requests \ {r} : Busy(q)}
    IN /\ state[r] = "new"
       /\ IF size + hops * gcmOverhead > CellBodyMax
          THEN /\ state' = [state EXCEPT ![r] = "done"]
               /\ ended' = [ended EXCEPT ![r] = "error"]
               /\ UNCHANGED <<armed, toExit, overlapped>>
          ELSE /\ state' = [state EXCEPT ![r] = "read"]
               /\ armed' = TRUE
               /\ toExit' = IF lost = {} THEN Append(toExit, r) ELSE toExit
               /\ overlapped' = overlapped \cup others
                                \cup {q \in {r} : others # {}}
               /\ UNCHANGED ended
       /\ UNCHANGED <<response, doneOf, frame, desync, exitVars, back, alive, lost>>

(* sendRequest returns; its deferred SetReadDeadline clears the deadline   *)
(* of the connection, whoever else is reading from it.                     *)
Return(S, how) ==
    /\ state' = [r \in Requests |-> IF r \in S THEN "done" ELSE state[r]]
    /\ ended' = [r \in Requests |-> IF r \in S THEN how ELSE ended[r]]
    /\ armed' = FALSE

(* ReadCell, first half: two bytes of length.  A reader that comes while   *)
(* another is between the halves takes them from the middle of its frame.  *)
ReadLength(r) ==
    /\ state[r] = "read"
    /\ back[1] # <<>>
    /\ IF frame = Nobody /\ ~ desync
       THEN /\ frame' = r
            /\ state' = [state EXCEPT ![r] = "len"]
            /\ UNCHANGED desync
       ELSE /\ desync' = TRUE
            /\ state' = [state EXCEPT ![r] = "lost"]
            /\ UNCHANGED frame
    /\ UNCHANGED <<response, ended, doneOf, armed, toExit, exitVars, back, alive,
                   lost, overlapped>>

(* ReadCell, second half, and what sendRequest does with the cell.         *)
ReadBody(r) ==
    LET c == Head(back[1])
    IN /\ state[r] = "len"
       /\ ~ desync
       /\ back[1] # <<>>
       /\ back' = [back EXCEPT ![1] = Tail(@)]
       /\ frame' = Nobody
       /\ IF c.cmd = "RelayDone"
          THEN /\ Return({r}, "done")
               /\ doneOf' = [doneOf EXCEPT ![r] = c.req]
               /\ UNCHANGED response
          ELSE /\ state' = [state EXCEPT ![r] = "read"]
               /\ response' = [response EXCEPT ![r] = Append(@, <<c.req, c.seq>>)]
               /\ UNCHANGED <<ended, doneOf, armed>>
       /\ UNCHANGED <<desync, toExit, exitVars, alive, lost, overlapped>>

(* On a stream out of step a read finds an invalid length (sendRequest     *)
(* breaks off without an error) or a body that does not decrypt.           *)
ReadGarbage(r) ==
    /\ desync
    /\ state[r] \in {"len", "lost"}
    /\ \E how \in {"eof", "error"} : Return({r}, how)
    /\ UNCHANGED <<response, doneOf, frame, desync, toExit, exitVars, back, alive,
                   lost, overlapped>>

(* The connection is closed, by either side, and read to its end.          *)
ReadEOF(r) ==
    /\ Reading(r)
    /\ 1 \in lost
    /\ back[1] = <<>> \/ desync
    /\ Return({r}, "eof")
    /\ UNCHANGED <<response, doneOf, frame, desync, toExit, exitVars, back, alive,
                   lost, overlapped>>

(* The 60s deadline passes while the requests in S are reading.  A reader  *)
(* between the halves of ReadCell leaves the rest of its frame behind.     *)
Deadline(S) ==
    /\ armed
    /\ S # {} /\ \A r \in S : Reading(r)
    /\ Return(S, "deadline")
    /\ desync' = (desync \/ \E r \in S : state[r] = "len")
    /\ UNCHANGED <<response, doneOf, frame, toExit, exitVars, back, alive, lost,
                   overlapped>>

(* The caller's context is done, as seen between two cells.                *)
Cancelled(r) ==
    /\ state[r] = "read"
    /\ Return({r}, "error")
    /\ UNCHANGED <<response, doneOf, frame, desync, toExit, exitVars, back, alive,
                   lost, overlapped>>

-----------------------------------------------------------------------------
(* The exit: one goroutine per request cell.                               *)

(* Mutant of writeIn: the newest cell overtakes those not yet sent.        *)
writeInFront(h, c) ==
    IF h \in lost THEN back ELSE [back EXCEPT ![h] = <<c>> \o @]

(* Relay h writes to its InConn; a connection that is gone swallows it.    *)
writeIn(h, c) == IF h \in lost THEN back ELSE [back EXCEPT ![h] = Append(@, c)]

(* Mutant of ResponseCell: the body is cut by a layer instead of grown.    *)
ResponseCellShrunk(r, cmd, length, isError) ==
    [cmd |-> cmd, req |-> r, seq |-> sent[r] + 1, size |-> length - gcmOverhead,
     err |-> isError]

ResponseCell(r, cmd, length, isError) ==
    [cmd |-> cmd, req |-> r, seq |-> sent[r] + 1, size |-> length + gcmOverhead,
     err |-> isError]

StartExit ==
    /\ toExit # <<>>
    /\ toExit' = Tail(toExit)
    /\ job' = [job EXCEPT ![Head(toExit)] = "run"]
    /\ UNCHANGED <<clientVars, sent, bigError, back, alive, lost, overlapped>>

TotalSent == Cardinality(UNION {{q} \X (1..sent[q]) : q \in Requests})

(* Mutant of ExitChunk: room is left for two layers only.                  *)
ExitChunkTwoLayers(r, length) ==
    /\ job[r] = "run"
    /\ TotalSent < MaxChunks
    /\ back' = writeIn(hops, ResponseCell(r, "Relay", length + gcmOverhead, FALSE))
    /\ sent' = [sent EXCEPT ![r] = @ + 1]
    /\ UNCHANGED <<clientVars, toExit, job, bigError, alive, lost, overlapped>>

(* One read from the origin, encrypted and sent.                           *)
ExitChunk(r, length) ==
    /\ job[r] = "run"
    /\ TotalSent < MaxChunks
    /\ back' = writeIn(hops, ResponseCell(r, "Relay", length, FALSE))
    /\ sent' = [sent EXCEPT ![r] = @ + 1]
    /\ UNCHANGED <<clientVars, toExit, job, bigError, alive, lost, overlapped>>

(* The host does not resolve or does not answer: sendExitError, which      *)
(* sends nothing when its own layer already makes the cell too large.      *)
sendExitError(r, length) ==
    /\ job[r] = "run"
    /\ sent[r] = 0
    /\ TotalSent < MaxChunks
    /\ job' = [job EXCEPT ![r] = "ending"]
    /\ IF length + gcmOverhead > CellBodyMax
       THEN UNCHANGED <<back, sent, bigError>>
       ELSE /\ back' = writeIn(hops, ResponseCell(r, "Relay", length, TRUE))
            /\ sent' = [sent EXCEPT ![r] = @ + 1]
            /\ bigError' = (bigError \/ length + hops * gcmOverhead > CellBodyMax)
    /\ UNCHANGED <<clientVars, toExit, alive, lost, overlapped>>

(* Mutant of sendDone: it goes out after a read, which then continues.     *)
sendDoneEarly(r) ==
    /\ job[r] \in {"run", "ending"}
    /\ TotalSent < MaxChunks
    /\ back' = writeIn(hops, ResponseCell(r, "RelayDone", 1, FALSE))
    /\ UNCHANGED <<clientVars, toExit, exitVars, alive, lost, overlapped>>

sendDone(r) ==
    /\ job[r] \in {"run", "ending"}
    /\ job' = [job EXCEPT ![r] = "done"]
    /\ back' = writeIn(hops, ResponseCell(r, "RelayDone", 1, FALSE))
    /\ UNCHANGED <<clientVars, toExit, sent, bigError, alive, lost, overlapped>>

-----------------------------------------------------------------------------
(* The way back.                                                           *)

(* forwardCells of relay h: add a layer and pass the cell on; a cell that  *)
(* no longer fits ends the goroutine.                                      *)
forwardCells(h) ==
    LET c == Head(back[h + 1])
        wrapped == [c EXCEPT !.size = @ + gcmOverhead]
        taken == [back EXCEPT ![h + 1] = Tail(@)]
    IN /\ alive[h]
       /\ back[h + 1] # <<>>
       /\ IF wrapped.size > CellBodyMax
          THEN /\ alive' = [alive EXCEPT ![h] = FALSE]
               /\ back' = taken
          ELSE /\ back' = IF h \in lost THEN taken
                          ELSE [taken EXCEPT ![h] = Append(@, wrapped)]
               /\ UNCHANGED alive
       /\ UNCHANGED <<clientVars, toExit, exitVars, lost, overlapped>>

(* Its OutConn is gone and read to the end.                                *)
ForwarderEnds(h) ==
    /\ alive[h]
    /\ h + 1 \in lost
    /\ back[h + 1] = <<>>
    /\ alive' = [alive EXCEPT ![h] = FALSE]
    /\ UNCHANGED <<clientVars, toExit, exitVars, back, lost, overlapped>>

(* The connection to relay h fails or is closed by the process at either   *)
(* end (the pool closing the circuit included).  What was written towards  *)
(* the client may or may not still be read; of the requests on the way,    *)
(* those already past the connection go on.                                *)
Disconnect(h) ==
    /\ h \notin lost
    /\ Cardinality(lost) < MaxLost
    /\ lost' = lost \cup {h}
    /\ \E rest \in {back[h], <<>>} : back' = [back EXCEPT ![h] = rest]
    /\ \E k \in 0..Len(toExit) : toExit' = SubSeq(toExit, 1, k)
    /\ UNCHANGED <<clientVars, exitVars, alive, overlapped>>

(* Mutant of EntryTimeout: handleConn reads without a deadline.            *)
EntryTimeoutNever == FALSE /\ UNCHANGED vars

(* handleConn of the entry: no cell from the client for five minutes.      *)
EntryTimeout ==
    /\ 1 \notin lost
    /\ lost' = lost \cup {1}
    /\ UNCHANGED <<clientVars, toExit, exitVars, back, alive, overlapped>>

Client(r) ==
    \/ \E size \in RequestSizes : SendRequest(r, size)
    \/ ReadLength(r) \/ ReadBody(r) \/ ReadGarbage(r) \/ ReadEOF(r)
    \/ Cancelled(r)

Exit(r) ==
    \/ \E length \in ChunkSizes : ExitChunk(r, length)
    \/ \E length \in ErrorSizes : sendExitError(r, length)
    \/ sendDone(r)

(* Every request answered or given up, nothing left to move.               *)
Finished ==
    /\ \A r \in Requests : state[r] = "done" /\ ~ job[r] \in {"run", "ending"}
    /\ UNCHANGED vars

Next ==
    \/ \E r \in Requests : Client(r) \/ Exit(r)
    \/ \E S \in SUBSET Requests : Deadline(S)
    \/ StartExit
    \/ \E h \in 1..(hops - 1) : forwardCells(h) \/ ForwarderEnds(h)
    \/ \E h \in 1..hops : Disconnect(h)
    \/ EntryTimeout
    \/ Finished

Spec == Init /\ [][Next]_vars

(* A runnable goroutine runs, and five minutes without a cell do pass; the *)
(* 60s deadline is not assumed, another request may have cleared it.       *)
FairSpec ==
    /\ Spec
    /\ \A r \in Requests :
          /\ WF_vars(ReadLength(r)) /\ WF_vars(ReadBody(r)) /\ WF_vars(ReadEOF(r))
    /\ WF_vars(EntryTimeout)

-----------------------------------------------------------------------------
(* Properties.                                                             *)

(* sendRequest: a request that never shared the circuit with another       *)
(* returns a prefix of its own response, in order and without gaps,        *)
(* whatever deadline, lost connection or stopped forwarder ended it; and   *)
(* all of it when a RelayDone ended it.                                    *)
UnsharedResponse ==
    \A r \in Requests \ overlapped :
        /\ response[r] = [i \in 1..Len(response[r]) |-> <<r, i>>]
        /\ ended[r] = "done" => Len(response[r]) = sent[r] /\ doneOf[r] = r

(* Also when requests overlap, and readers tear each other's frames, no    *)
(* chunk reaches two readers or one reader twice, and the chunks of one    *)
(* response that a reader gets are in the order the exit read them.        *)
ChunksOnceInOrder ==
    /\ \A r, q \in Requests :
          \A i \in 1..Len(response[r]), j \in 1..Len(response[q]) :
             response[r][i] = response[q][j] => r = q /\ i = j
    /\ \A r \in Requests : \A i, j \in 1..Len(response[r]) :
          i < j /\ response[r][i][1] = response[r][j][1]
             => response[r][i][2] < response[r][j][2]

(* The response chunk size leaves room for the layers of all three relays: *)
(* unless a 502 reply was too large, a forwardCells goroutine ends only    *)
(* with its connection.                                                    *)
ForwarderStopsWithConn ==
    ~ bigError => \A h \in 1..(hops - 1) : alive[h] \/ h + 1 \in lost

(* Every sendRequest returns, even when another request has cleared the    *)
(* read deadline it relies on: the entry gives the connection up.  (Each   *)
(* request is sent once.)                                                  *)
EveryRequestReturns == <>[](\A r \in Requests : ~Reading(r))
====
