--------------------------- MODULE StreamProofs ---------------------------
(***************************************************************************)
(* Proofs about Stream, for any requests, chunk and error lengths and      *)
(* bounds: type correctness; that response cells leave room for the layers *)
(* still to come, so that no forwarder stops before its connection; that   *)
(* the chunks of a response are read once and in order, whoever reads      *)
(* them; and that a request which never shared the circuit reads exactly   *)
(* its own response.                                                       *)
(***************************************************************************)
EXTENDS Stream, TLAPS

BackType == [1..hops -> Seq(Cells)]

(* Every cell written by relay h leaves room for the h - 1 layers that the *)
(* relays before it will add, unless an error reply was too large.         *)
Room(h) == CellBodyMax - (h - 1) * gcmOverhead

Fit(b) == \A h \in 1..hops : \A i \in 1..Len(b[h]) : b[h][i].size <= Room(h)

IInv == TypeOK /\ (~ bigError => Fit(back)) /\ ForwarderStopsWithConn

-----------------------------------------------------------------------------
(* The helpers.                                                            *)

(* The cells of a response are cells.                                      *)
LEMMA ResponseCellType ==
    ASSUME TypeOK, NEW r \in Requests, NEW length \in Nat,
           NEW cmd \in {"Relay", "RelayDone"}, NEW e \in BOOLEAN
    PROVE  /\ ResponseCell(r, cmd, length, e) \in Cells
           /\ ResponseCell(r, cmd, length, e).size = length + gcmOverhead
<1>1. sent[r] + 1 \in Nat
  BY DEF TypeOK
<1>2. length + gcmOverhead \in Nat
  BY DEF gcmOverhead
<1> QED
  BY Zenon, <1>1, <1>2 DEF ResponseCell, Cells

(* Appending a cell to one connection keeps the type, and the fit if the   *)
(* cell fits there.                                                        *)
LEMMA AppendType ==
    ASSUME NEW b \in BackType, NEW h \in 1..hops, NEW c \in Cells
    PROVE  /\ [b EXCEPT ![h] = Append(@, c)] \in BackType
           /\ Fit(b) /\ c.size <= Room(h) => Fit([b EXCEPT ![h] = Append(@, c)])
<1> DEFINE new == [b EXCEPT ![h] = Append(@, c)]
<1>1. b[h] \in Seq(Cells)
  BY Zenon DEF BackType
<1>2. Append(b[h], c) \in Seq(Cells)
  BY <1>1
<1>3. new \in BackType
  BY Zenon, <1>2 DEF BackType
<1>4. ASSUME Fit(b), c.size <= Room(h), NEW k \in 1..hops, NEW i \in 1..Len(new[k])
      PROVE  new[k][i].size <= Room(k)
  <2>1. CASE k # h
    <3>1. new[k] = b[k]
      BY Zenon, <2>1 DEF BackType
    <3> QED
      BY Zenon, <1>4, <3>1 DEF Fit
  <2>2. CASE k = h
    <3>1. new[k] = Append(b[h], c)
      BY Zenon, <2>2 DEF BackType
    <3>2. CASE i \in 1..Len(b[h])
      <4>1. Append(b[h], c)[i] = b[h][i]
        BY <1>1, <3>2
      <4> QED
        BY Zenon, <1>4, <2>2, <3>1, <3>2, <4>1 DEF Fit
    <3>3. CASE i = Len(b[h]) + 1
      <4>1. Append(b[h], c)[i] = c
        BY <1>1, <3>3
      <4> QED
        BY Zenon, <1>4, <2>2, <3>1, <4>1
    <3>4. i \in 1..(Len(b[h]) + 1)
      BY <1>1, <1>4, <3>1
    <3>5. Len(b[h]) \in Nat
      BY <1>1
    <3> QED
      BY <3>2, <3>3, <3>4, <3>5
  <2> QED
    BY Zenon, <2>1, <2>2
<1> QED
  BY Zenon, <1>3, <1>4 DEF Fit

(* So does taking a cell off a connection; the cell taken was in order.    *)
LEMMA TakeType ==
    ASSUME NEW b \in BackType, NEW h \in 1..hops, b[h] # <<>>
    PROVE  /\ Head(b[h]) \in Cells
           /\ [b EXCEPT ![h] = Tail(@)] \in BackType
           /\ Fit(b) => Head(b[h]).size <= Room(h) /\ Fit([b EXCEPT ![h] = Tail(@)])
<1> DEFINE new == [b EXCEPT ![h] = Tail(@)]
<1>1. b[h] \in Seq(Cells)
  BY Zenon DEF BackType
<1>2. /\ Head(b[h]) \in Cells /\ Tail(b[h]) \in Seq(Cells)
      /\ Head(b[h]) = b[h][1] /\ Len(b[h]) \in Nat /\ Len(b[h]) >= 1
      /\ Len(Tail(b[h])) = Len(b[h]) - 1
      /\ \A i \in 1..Len(Tail(b[h])) : Tail(b[h])[i] = b[h][i + 1]
  BY <1>1
<1>3. new \in BackType
  BY Zenon, <1>2 DEF BackType
<1>4. ASSUME Fit(b) PROVE Head(b[h]).size <= Room(h)
  <2>1. 1 \in 1..Len(b[h])
    BY <1>2
  <2> QED
    BY Zenon, <1>2, <1>4, <2>1 DEF Fit
<1>5. ASSUME Fit(b), NEW k \in 1..hops, NEW i \in 1..Len(new[k])
      PROVE  new[k][i].size <= Room(k)
  <2>1. CASE k # h
    <3>1. new[k] = b[k]
      BY Zenon, <2>1 DEF BackType
    <3> QED
      BY Zenon, <1>5, <3>1 DEF Fit
  <2>2. CASE k = h
    <3>1. new[k] = Tail(b[h])
      BY Zenon, <2>2 DEF BackType
    <3>2. i \in 1..Len(Tail(b[h]))
      BY Zenon, <1>5, <3>1
    <3> HIDE DEF new
    <3>3. Tail(b[h])[i] = b[h][i + 1]
      BY Zenon, <1>2, <3>2
    <3>4. i + 1 \in 1..Len(b[h])
      BY <1>2, <3>2
    <3> QED
      BY Zenon, <1>5, <2>2, <3>1, <3>3, <3>4 DEF Fit
  <2> QED
    BY Zenon, <2>1, <2>2
<1> QED
  BY Zenon, <1>2, <1>3, <1>4, <1>5 DEF Fit

(* A relay's write, whether its connection is gone or not.                 *)
LEMMA WriteInType ==
    ASSUME TypeOK, NEW c \in Cells
    PROVE  /\ writeIn(hops, c) \in BackType
           /\ Fit(back) /\ c.size <= Room(hops) => Fit(writeIn(hops, c))
<1>1. back \in BackType /\ hops \in 1..hops
  BY DEF TypeOK, BackType, hops
<1> QED
  BY Zenon, <1>1, AppendType DEF writeIn

-----------------------------------------------------------------------------
(* Type correctness.                                                       *)

(* What Return assigns.                                                    *)
LEMMA ReturnType ==
    ASSUME TypeOK, NEW S \in SUBSET Requests, NEW how \in Outcomes, Return(S, how)
    PROVE  /\ state' \in [Requests -> {"new", "read", "len", "lost", "done"}]
           /\ ended' \in [Requests -> Outcomes]
           /\ armed' \in BOOLEAN
BY Zenon DEF TypeOK, Return

(* A fresh circuit with nothing in flight is well typed.                   *)
LEMMA TypeInit == Init => TypeOK
<1> SUFFICES ASSUME Init PROVE TypeOK
  BY Zenon
<1>1. \A T : <<>> \in Seq(T)
  OBVIOUS
<1> QED
  BY Zenon, <1>1 DEF Init, TypeOK, Outcomes

(* sendRequest, from its first write to each way it returns, keeps the     *)
(* types.                                                                  *)
LEMMA TypeClient ==
    ASSUME TypeOK, NEW r \in Requests, Client(r)
    PROVE  TypeOK'
<1>1. ASSUME NEW size \in RequestSizes, SendRequest(r, size)
      PROVE TypeOK'
  <2>1. Append(toExit, r) \in Seq(Requests)
    BY DEF TypeOK
  <2>2. overlapped' \in SUBSET Requests
    BY Zenon, <1>1 DEF TypeOK, SendRequest
  <2> QED
    BY Zenon, <1>1, <2>1, <2>2 DEF TypeOK, SendRequest, Outcomes, exitVars
<1>2. CASE ReadLength(r)
  BY Zenon, <1>2 DEF TypeOK, ReadLength, exitVars
<1>3. CASE ReadBody(r)
  <2>1. back \in BackType /\ 1 \in 1..hops /\ back[1] # <<>>
    BY <1>3 DEF TypeOK, ReadBody, BackType, hops
  <2>2. Head(back[1]) \in Cells /\ [back EXCEPT ![1] = Tail(@)] \in BackType
    BY Zenon, <2>1, TakeType
  <2>3. Head(back[1]).req \in Requests /\ Head(back[1]).seq \in Nat
    BY Zenon, <2>2 DEF Cells
  <2>4. back' \in BackType
    BY Zenon, <1>3, <2>2 DEF ReadBody
  <2>5. CASE Head(back[1]).cmd = "RelayDone"
    <3>1. /\ Return({r}, "done")
          /\ doneOf' = [doneOf EXCEPT ![r] = Head(back[1]).req]
          /\ UNCHANGED response
      BY Zenon, <1>3, <2>5 DEF ReadBody
    <3>2. /\ state' \in [Requests -> {"new", "read", "len", "lost", "done"}]
          /\ ended' \in [Requests -> Outcomes]
          /\ armed' \in BOOLEAN
      BY Zenon, <3>1, ReturnType DEF Outcomes
    <3> QED
      BY Zenon, <1>3, <2>3, <2>4, <3>1, <3>2 DEF TypeOK, ReadBody, BackType, exitVars
  <2>6. CASE Head(back[1]).cmd # "RelayDone"
    <3>1. Append(response[r], <<Head(back[1]).req, Head(back[1]).seq>>)
             \in Seq(Requests \X Nat)
      BY SMTT(30), <2>3 DEF TypeOK
    <3>2. response' \in [Requests -> Seq(Requests \X Nat)]
      BY Zenon, <1>3, <2>6, <3>1 DEF TypeOK, ReadBody
    <3> QED
      BY Zenon, <1>3, <2>4, <2>6, <3>2 DEF TypeOK, ReadBody, BackType, exitVars
  <2> QED
    BY Zenon, <2>5, <2>6
<1>4. ASSUME NEW how \in Outcomes, Return({r}, how),
             ReadGarbage(r) \/ ReadEOF(r) \/ Cancelled(r)
      PROVE TypeOK'
  <2>1. /\ state' \in [Requests -> {"new", "read", "len", "lost", "done"}]
        /\ ended' \in [Requests -> Outcomes]
        /\ armed' \in BOOLEAN
    BY Zenon, <1>4, ReturnType
  <2> QED
    BY Zenon, <1>4, <2>1 DEF TypeOK, ReadGarbage, ReadEOF, Cancelled, exitVars
<1>5. CASE ReadGarbage(r)
  BY Zenon, <1>4, <1>5 DEF ReadGarbage, Outcomes
<1>6. CASE ReadEOF(r)
  BY Zenon, <1>4, <1>6 DEF ReadEOF, Outcomes
<1>7. CASE Cancelled(r)
  BY Zenon, <1>4, <1>7 DEF Cancelled, Outcomes
<1> QED
  BY Zenon, <1>1, <1>2, <1>3, <1>5, <1>6, <1>7 DEF Client

(* handleExitRelay, sendExitError and sendDone keep the types.             *)
LEMMA TypeExit ==
    ASSUME TypeOK, NEW r \in Requests, Exit(r)
    PROVE  TypeOK'
<1>1. ASSUME NEW length \in ChunkSizes, ExitChunk(r, length)
      PROVE TypeOK'
  <2>0. length \in Nat
    BY SizesAssumption DEF CellBodyMax, hops, gcmOverhead
  <2>1. ResponseCell(r, "Relay", length, FALSE) \in Cells
    BY Zenon, <2>0, ResponseCellType
  <2>2. back' \in BackType
    BY Zenon, <1>1, <2>1, WriteInType DEF ExitChunk
  <2>3. sent' \in [Requests -> Nat]
    BY <1>1 DEF TypeOK, ExitChunk
  <2> QED
    BY Zenon, <1>1, <2>2, <2>3 DEF TypeOK, ExitChunk, BackType, clientVars
<1>2. ASSUME NEW length \in ErrorSizes, sendExitError(r, length)
      PROVE TypeOK'
  <2>1. ResponseCell(r, "Relay", length, TRUE) \in Cells
    BY Zenon, ResponseCellType, SizesAssumption
  <2>2. back' \in BackType
    BY Zenon, <1>2, <2>1, WriteInType DEF sendExitError, TypeOK, BackType
  <2>3. sent' \in [Requests -> Nat]
    <3>1. sent \in [Requests -> Nat] /\ sent[r] + 1 \in Nat
      BY DEF TypeOK
    <3>2. sent' = sent \/ sent' = [sent EXCEPT ![r] = @ + 1]
      BY Zenon, <1>2 DEF sendExitError
    <3> QED
      BY Zenon, <3>1, <3>2
  <2>4. bigError' \in BOOLEAN /\ job' \in [Requests -> {"none", "run", "ending", "done"}]
    BY Zenon, <1>2 DEF TypeOK, sendExitError
  <2> QED
    BY Zenon, <1>2, <2>2, <2>3, <2>4 DEF TypeOK, sendExitError, BackType, clientVars
<1>3. CASE sendDone(r)
  <2>1. ResponseCell(r, "RelayDone", 1, FALSE) \in Cells
    BY Zenon, ResponseCellType
  <2>2. back' \in BackType
    BY Zenon, <1>3, <2>1, WriteInType DEF sendDone
  <2> QED
    BY Zenon, <1>3, <2>2 DEF TypeOK, sendDone, BackType, clientVars
<1> QED
  BY Zenon, <1>1, <1>2, <1>3 DEF Exit

(* Deadlines, the start of an exit goroutine, the forwarders and lost      *)
(* connections keep the types.                                             *)
LEMMA TypeOthers ==
    ASSUME TypeOK,
           \/ \E S \in SUBSET Requests : Deadline(S)
           \/ StartExit
           \/ \E h \in 1..(hops - 1) : forwardCells(h) \/ ForwarderEnds(h)
           \/ \E h \in 1..hops : Disconnect(h)
           \/ EntryTimeout
    PROVE  TypeOK'
<1>1. ASSUME NEW S \in SUBSET Requests, Deadline(S)
      PROVE TypeOK'
  <2>1. /\ state' \in [Requests -> {"new", "read", "len", "lost", "done"}]
        /\ ended' \in [Requests -> Outcomes]
        /\ armed' \in BOOLEAN
    BY Zenon, <1>1, ReturnType DEF Deadline, Outcomes
  <2>2. desync' \in BOOLEAN
    BY Zenon, <1>1 DEF Deadline
  <2> QED
    BY Zenon, <1>1, <2>1, <2>2 DEF TypeOK, Deadline, exitVars
<1>2. CASE StartExit
  <2>1. Head(toExit) \in Requests /\ Tail(toExit) \in Seq(Requests)
    BY <1>2 DEF TypeOK, StartExit
  <2> QED
    BY Zenon, <1>2, <2>1 DEF TypeOK, StartExit, clientVars
<1>3. ASSUME NEW h \in 1..(hops - 1), forwardCells(h)
      PROVE TypeOK'
  <2>1. h \in 1..hops /\ h + 1 \in 1..hops
    BY DEF hops
  <2>2. back \in BackType /\ back[h + 1] # <<>>
    BY Zenon, <1>3 DEF TypeOK, BackType, forwardCells
  <2> DEFINE c == Head(back[h + 1])
             wrapped == [c EXCEPT !.size = @ + gcmOverhead]
             taken == [back EXCEPT ![h + 1] = Tail(@)]
  <2>3. c \in Cells /\ taken \in BackType
    BY Zenon, <2>1, <2>2, TakeType
  <2>4. wrapped \in Cells
    <3>1. c.size + gcmOverhead \in Nat
      BY <2>3 DEF Cells, gcmOverhead
    <3> QED
      BY Zenon, <2>3, <3>1 DEF Cells
  <2>5. [taken EXCEPT ![h] = Append(@, wrapped)] \in BackType
    BY Zenon, <2>1, <2>3, <2>4, AppendType
  <2>6. \/ back' = taken
        \/ back' = [taken EXCEPT ![h] = Append(@, wrapped)]
    BY Zenon, <1>3 DEF forwardCells
  <2>7. back' \in BackType
    BY Zenon, <2>3, <2>5, <2>6
  <2>8. alive' \in [1..(hops - 1) -> BOOLEAN]
    BY Zenon, <1>3 DEF forwardCells, TypeOK
  <2> QED
    BY Zenon, <1>3, <2>7, <2>8 DEF TypeOK, forwardCells, BackType, clientVars, exitVars
<1>4. ASSUME NEW h \in 1..(hops - 1), ForwarderEnds(h)
      PROVE TypeOK'
  BY Zenon, <1>4 DEF TypeOK, ForwarderEnds, clientVars, exitVars
<1>5. ASSUME NEW h \in 1..hops, Disconnect(h)
      PROVE TypeOK'
  <2>1. PICK rest \in {back[h], <<>>} : back' = [back EXCEPT ![h] = rest]
    BY Zenon, <1>5 DEF Disconnect
  <2>2. rest \in Seq(Cells)
    <3>1. back[h] \in Seq(Cells)
      BY Zenon DEF TypeOK
    <3>2. \A T : <<>> \in Seq(T)
      OBVIOUS
    <3> QED
      BY Zenon, <3>1, <3>2
  <2>3. back' \in [1..hops -> Seq(Cells)]
    BY Zenon, <2>1, <2>2 DEF TypeOK
  <2>4. PICK k \in 0..Len(toExit) : toExit' = SubSeq(toExit, 1, k)
    BY Zenon, <1>5 DEF Disconnect
  <2>5. toExit' \in Seq(Requests)
    BY <2>4 DEF TypeOK
  <2> QED
    BY Zenon, <1>5, <2>3, <2>5 DEF TypeOK, Disconnect, clientVars, exitVars
<1>6. CASE EntryTimeout
  <2>1. 1 \in 1..hops
    BY DEF hops
  <2> QED
    BY Zenon, <1>6, <2>1 DEF TypeOK, EntryTimeout, clientVars, exitVars
<1> QED
  BY Zenon, <1>1, <1>2, <1>3, <1>4, <1>5, <1>6

(* Every step keeps the types.                                             *)
LEMMA TypeStep == TypeOK /\ [Next]_vars => TypeOK'
<1> SUFFICES ASSUME TypeOK, [Next]_vars PROVE TypeOK'
  BY Zenon
<1>1. CASE UNCHANGED vars
  BY Zenon, <1>1 DEF TypeOK, vars, clientVars, exitVars
<1>2. CASE Next /\ ~ UNCHANGED vars
  BY Zenon, <1>2, TypeClient, TypeExit, TypeOthers DEF Next, Finished
<1> QED
  BY Zenon, <1>1, <1>2

-----------------------------------------------------------------------------
(* Room for the layers.                                                    *)

(* Steps that leave the way back alone keep its invariant.                 *)
LEMMA FitFrame ==
    ASSUME IInv, UNCHANGED <<back, alive, bigError>>, lost \subseteq lost'
    PROVE  (~ bigError' => Fit(back')) /\ ForwarderStopsWithConn'
BY Zenon DEF IInv, ForwarderStopsWithConn

(* Every step keeps each cell on the way back within the room its          *)
(* remaining layers need, and so no forwarder stops for size.              *)
LEMMA FitStep == IInv /\ [Next]_vars => (~ bigError' => Fit(back')) /\ ForwarderStopsWithConn'
<1> SUFFICES ASSUME IInv, [Next]_vars
             PROVE  (~ bigError' => Fit(back')) /\ ForwarderStopsWithConn'
  BY Zenon
<1>0. /\ TypeOK /\ back \in BackType /\ bigError \in BOOLEAN
      /\ ~ bigError => Fit(back)
      /\ Room(hops) = CellBodyMax - 2 * gcmOverhead
  BY DEF IInv, TypeOK, BackType, Room, hops, CellBodyMax, gcmOverhead
<1>1. ASSUME NEW r \in Requests, Client(r), ~ ReadBody(r)
      PROVE (~ bigError' => Fit(back')) /\ ForwarderStopsWithConn'
  BY Zenon, <1>1, FitFrame DEF Client, SendRequest, ReadLength, ReadGarbage, ReadEOF,
                        Cancelled, exitVars
<1>2. ASSUME NEW r \in Requests, ReadBody(r)
      PROVE (~ bigError' => Fit(back')) /\ ForwarderStopsWithConn'
  <2>1. back[1] # <<>> /\ 1 \in 1..hops /\ back' = [back EXCEPT ![1] = Tail(@)]
    BY <1>2 DEF ReadBody, hops
  <2>2. Fit(back) => Fit(back')
    BY Zenon, <1>0, <2>1, TakeType
  <2> QED
    BY Zenon, <1>0, <1>2, <2>2 DEF ReadBody, IInv, ForwarderStopsWithConn, exitVars
<1>3. ASSUME NEW r \in Requests, NEW length \in ChunkSizes, ExitChunk(r, length)
      PROVE (~ bigError' => Fit(back')) /\ ForwarderStopsWithConn'
  <2>1. length \in Nat /\ length + gcmOverhead <= CellBodyMax - 2 * gcmOverhead
    BY SizesAssumption DEF CellBodyMax, gcmOverhead, hops
  <2>2. /\ ResponseCell(r, "Relay", length, FALSE) \in Cells
        /\ ResponseCell(r, "Relay", length, FALSE).size <= Room(hops)
    BY Zenon, <1>0, <2>1, ResponseCellType
  <2>3. Fit(back) => Fit(back')
    BY Zenon, <1>0, <1>3, <2>2, WriteInType DEF ExitChunk
  <2> QED
    BY Zenon, <1>0, <1>3, <2>3 DEF ExitChunk, IInv, ForwarderStopsWithConn
<1>4. ASSUME NEW r \in Requests, NEW length \in ErrorSizes, sendExitError(r, length)
      PROVE (~ bigError' => Fit(back')) /\ ForwarderStopsWithConn'
  <2>1. CASE length + gcmOverhead > CellBodyMax
    BY Zenon, <1>4, <2>1, FitFrame DEF sendExitError
  <2>2. CASE ~ (length + gcmOverhead > CellBodyMax)
    <3>1. /\ back' = writeIn(hops, ResponseCell(r, "Relay", length, TRUE))
          /\ bigError' = (bigError \/ length + hops * gcmOverhead > CellBodyMax)
          /\ alive' = alive /\ lost' = lost
      BY Zenon, <1>4, <2>2 DEF sendExitError
    <3>2. length \in Nat
      BY Zenon, SizesAssumption
    <3>3. ASSUME ~ bigError'
          PROVE  Fit(back')
      <4>0. ~ bigError /\ ~ (length + hops * gcmOverhead > CellBodyMax)
        BY Zenon, <3>1, <3>3
      <4>1. ~ bigError /\ length + gcmOverhead <= CellBodyMax - 2 * gcmOverhead
        BY <3>2, <4>0 DEF CellBodyMax, gcmOverhead, hops
      <4>2. /\ ResponseCell(r, "Relay", length, TRUE) \in Cells
            /\ ResponseCell(r, "Relay", length, TRUE).size <= Room(hops)
        BY Zenon, <1>0, <3>2, <4>1, ResponseCellType
      <4> QED
        BY Zenon, <1>0, <3>1, <4>1, <4>2, WriteInType
    <3>4. ForwarderStopsWithConn'
      BY Zenon, <3>1 DEF IInv, ForwarderStopsWithConn
    <3> QED
      BY Zenon, <3>3, <3>4
  <2> QED
    BY Zenon, <2>1, <2>2
<1>5. ASSUME NEW r \in Requests, sendDone(r)
      PROVE (~ bigError' => Fit(back')) /\ ForwarderStopsWithConn'
  <2>0. 1 + gcmOverhead <= Room(hops)
    BY DEF CellBodyMax, gcmOverhead, Room, hops
  <2>1. /\ ResponseCell(r, "RelayDone", 1, FALSE) \in Cells
        /\ ResponseCell(r, "RelayDone", 1, FALSE).size <= Room(hops)
    BY Zenon, <1>0, <2>0, ResponseCellType
  <2>2. Fit(back) => Fit(back')
    BY Zenon, <1>0, <1>5, <2>1, WriteInType DEF sendDone
  <2> QED
    BY Zenon, <1>0, <1>5, <2>2 DEF sendDone, IInv, ForwarderStopsWithConn
<1>6. ASSUME NEW h \in 1..(hops - 1), forwardCells(h)
      PROVE (~ bigError' => Fit(back')) /\ ForwarderStopsWithConn'
  <2>0. bigError' = bigError /\ lost' = lost
    BY Zenon, <1>6 DEF forwardCells, exitVars
  <2>1. CASE bigError
    BY Zenon, <2>0, <2>1 DEF ForwarderStopsWithConn
  <2>2. CASE ~ bigError
    <3>1. h \in 1..hops /\ h + 1 \in 1..hops /\ back[h + 1] # <<>> /\ Fit(back)
      BY <1>0, <1>6, <2>2 DEF hops, forwardCells
    <3> DEFINE c == Head(back[h + 1])
               wrapped == [c EXCEPT !.size = @ + gcmOverhead]
               taken == [back EXCEPT ![h + 1] = Tail(@)]
    <3>2. c \in Cells /\ taken \in BackType /\ Fit(taken) /\ c.size <= Room(h + 1)
      BY Zenon, <1>0, <3>1, TakeType
    <3>3. c.size \in Nat
      BY Zenon, <3>2 DEF Cells
    <3>4. c.size + gcmOverhead <= Room(h) /\ Room(h) <= CellBodyMax
      BY <3>1, <3>2, <3>3 DEF Room, gcmOverhead, CellBodyMax, hops
    <3>5. wrapped \in Cells /\ wrapped.size = c.size + gcmOverhead
      <4>1. c.size + gcmOverhead \in Nat
        BY <3>3 DEF gcmOverhead
      <4> QED
        BY Zenon, <3>2, <4>1 DEF Cells
    <3>6. wrapped.size <= CellBodyMax
      BY <3>3, <3>4, <3>5 DEF Room, gcmOverhead, CellBodyMax
    <3>7. ~ (wrapped.size > CellBodyMax)
      BY <3>3, <3>5, <3>6 DEF gcmOverhead, CellBodyMax
    <3>8. /\ alive' = alive
          /\ back' = taken \/ back' = [taken EXCEPT ![h] = Append(@, wrapped)]
      BY Zenon, <1>6, <3>7 DEF forwardCells
    <3>9. Fit([taken EXCEPT ![h] = Append(@, wrapped)])
      BY Zenon, <3>1, <3>2, <3>4, <3>5, AppendType
    <3> QED
      BY Zenon, <2>0, <3>2, <3>8, <3>9 DEF IInv, ForwarderStopsWithConn
  <2> QED
    BY Zenon, <2>1, <2>2
<1>7. ASSUME NEW h \in 1..(hops - 1), ForwarderEnds(h)
      PROVE (~ bigError' => Fit(back')) /\ ForwarderStopsWithConn'
  BY Zenon, <1>0, <1>7 DEF ForwarderEnds, IInv, ForwarderStopsWithConn, TypeOK, exitVars
<1>8. ASSUME NEW h \in 1..hops, Disconnect(h)
      PROVE (~ bigError' => Fit(back')) /\ ForwarderStopsWithConn'
  <2>1. PICK rest \in {back[h], <<>>} : back' = [back EXCEPT ![h] = rest]
    BY Zenon, <1>8 DEF Disconnect
  <2>2. \A k \in 1..hops : back'[k] = back[k] \/ back'[k] = <<>>
    BY Zenon, <1>0, <2>1 DEF BackType
  <2>3. Fit(back) => Fit(back')
    BY <2>2 DEF Fit
  <2> QED
    BY Zenon, <1>0, <1>8, <2>3 DEF Disconnect, IInv, ForwarderStopsWithConn, exitVars
<1>9. CASE EntryTimeout \/ StartExit \/ (\E S \in SUBSET Requests : Deadline(S))
           \/ UNCHANGED vars
  BY Zenon, <1>9, FitFrame DEF EntryTimeout, StartExit, Deadline, vars, exitVars
<1> QED
  BY Zenon, <1>1, <1>2, <1>3, <1>4, <1>5, <1>6, <1>7, <1>8, <1>9 DEF Next, Exit, Finished

(* Every variable keeps its type in every behaviour of client, exit and    *)
(* forwarders.                                                             *)
THEOREM TypeCorrect == Spec => []TypeOK
BY TypeInit, TypeStep, PTL DEF Spec

(* Unless a 502 reply was too large, forwardCells ends only with its       *)
(* connection: for every chunk up to CellBodyMax - hops * gcmOverhead that *)
(* handleExitRelay reads, no relay on the way back finds a cell too large. *)
THEOREM ForwardersLast == Spec => []ForwarderStopsWithConn
<1>1. Init => IInv
  <2>1. ASSUME Init PROVE Fit(back) /\ ForwarderStopsWithConn
    BY <2>1 DEF Init, Fit, ForwarderStopsWithConn
  <2> QED
    BY Zenon, <2>1, TypeInit DEF IInv
<1>2. IInv /\ [Next]_vars => IInv'
  <2>1. IInv /\ [Next]_vars => TypeOK'
    BY Zenon, TypeStep DEF IInv
  <2> QED
    BY Zenon, <2>1, FitStep DEF IInv, Fit, Room
<1>3. IInv => ForwarderStopsWithConn
  BY Zenon DEF IInv
<1> QED
  BY <1>1, <1>2, <1>3, PTL DEF Spec

-----------------------------------------------------------------------------
(* What is on its way and what has been read.                              *)

(* Position (h, i) of the way back is nearer to the client than (k, j).    *)
Before(h, i, k, j) == h < k \/ (h = k /\ i < j)

(* The cells of one response are on their way in the order of their        *)
(* numbers, those nearer to the client first.                              *)
Sorted(b) ==
    \A h, k \in 1..hops : \A i \in 1..Len(b[h]), j \in 1..Len(b[k]) :
        Before(h, i, k, j) /\ b[h][i].req = b[k][j].req
            => b[h][i].seq < b[k][j].seq

(* Apart from the layers, every cell of b2 is one of b.                    *)
Same(c, d) == c.cmd = d.cmd /\ c.req = d.req /\ c.seq = d.seq

Derived(b2, b) ==
    \A h \in 1..hops : \A i \in 1..Len(b2[h]) :
        \E k \in 1..hops : \E j \in 1..Len(b[k]) : Same(b2[h][i], b[k][j])

(* A cell was written by a job, its RelayDone last.                        *)
Written(c) ==
    /\ job[c.req] # "none"
    /\ c.cmd = "RelayDone" => job[c.req] = "done" /\ c.seq = sent[c.req] + 1
    /\ c.cmd = "Relay" => c.seq <= sent[c.req]

(* What has been read was sent before what is still on its way.            *)
Past(x) ==
    /\ x[2] <= sent[x[1]]
    /\ \A h \in 1..hops : \A i \in 1..Len(back[h]) :
          back[h][i].req = x[1] => x[2] < back[h][i].seq

OrderInv ==
    /\ Sorted(back)
    /\ \A h \in 1..hops : \A i \in 1..Len(back[h]) : Written(back[h][i])
    /\ \A r \in Requests : \A i \in 1..Len(response[r]) : Past(response[r][i])

(* A request goes to the exit once.                                        *)
OnceInv ==
    /\ \A i, j \in 1..Len(toExit) : toExit[i] = toExit[j] => i = j
    /\ \A i \in 1..Len(toExit) : job[toExit[i]] = "none" /\ state[toExit[i]] # "new"
    /\ \A r \in Requests :
          /\ job[r] = "none" => sent[r] = 0
          /\ state[r] = "new" => /\ job[r] = "none" /\ response[r] = <<>>
                                 /\ ended[r] = "none"

(* A request that has shared the circuit with none is alone on it.         *)
AloneInv ==
    \A r \in Requests \ overlapped, q \in Requests : Busy(r) /\ Busy(q) => q = r

(* The cells of one connection are numbered on from n.                     *)
Follow(s, n) == \A i \in 1..Len(s) : s[i].seq = n + i

(* Relay h passes on what it gets.                                         *)
Open(h) == alive[h] /\ h \notin lost

(* The cells that can still come continue what r has read; as long as      *)
(* nothing is lost they are all that was sent.                             *)
Continues(r) ==
    LET n == Len(response[r])
        n2 == n + Len(back[1])
        n3 == n2 + Len(back[2])
    IN /\ Follow(back[1], n)
       /\ Open(1) => Follow(back[2], n2)
       /\ Open(1) /\ Open(2) => Follow(back[3], n3)
       /\ Open(1) /\ Open(2) /\ 3 \notin lost =>
             sent[r] + (IF job[r] = "done" THEN 1 ELSE 0) = n3 + Len(back[3])

OwnAt(r) ==
    /\ response[r] = [i \in 1..Len(response[r]) |-> <<r, i>>]
    /\ ended[r] = "done" => /\ Len(response[r]) = sent[r] /\ doneOf[r] = r
                            /\ job[r] = "done"
    /\ Reading(r) => ended[r] = "none" /\ Continues(r)

OwnInv == \A r \in Requests \ overlapped : OwnAt(r)

RInv == TypeOK /\ OrderInv /\ ChunksOnceInOrder /\ OnceInv

SInv == RInv /\ AloneInv /\ OwnInv

-----------------------------------------------------------------------------
(* The way back: where the cells come from.                                *)

(* b2 is b without the first cell of connection g.                         *)
Taken(b2, b, g) ==
    /\ \A k \in 1..hops : Len(b[k]) \in Nat
    /\ 1 \in 1..Len(b[g]) /\ Head(b[g]) = b[g][1]
    /\ \A k \in 1..hops : k # g => b2[k] = b[k]
    /\ Len(b2[g]) = Len(b[g]) - 1
    /\ \A i \in 1..Len(b2[g]) : i + 1 \in 1..Len(b[g]) /\ b2[g][i] = b[g][i + 1]

(* b2 is b with c at the end of connection g.                              *)
Added(b2, b, g, c) ==
    /\ \A k \in 1..hops : Len(b[k]) \in Nat
    /\ \A k \in 1..hops : k # g => b2[k] = b[k]
    /\ Len(b2[g]) = Len(b[g]) + 1
    /\ \A i \in 1..Len(b2[g]) : \/ i \in 1..Len(b[g]) /\ b2[g][i] = b[g][i]
                                \/ i = Len(b[g]) + 1 /\ b2[g][i] = c

(* b2 is b with the first cell of connection g + 1, as w, passed on to g.  *)
Moved(b2, b, g, w) ==
    /\ \A k \in 1..hops : Len(b[k]) \in Nat
    /\ 1 \in 1..Len(b[g + 1]) /\ Same(w, b[g + 1][1])
    /\ \A k \in 1..hops : k # g /\ k # g + 1 => b2[k] = b[k]
    /\ Len(b2[g]) = Len(b[g]) + 1
    /\ \A i \in 1..Len(b2[g]) : \/ i \in 1..Len(b[g]) /\ b2[g][i] = b[g][i]
                                \/ i = Len(b[g]) + 1 /\ b2[g][i] = w
    /\ Len(b2[g + 1]) = Len(b[g + 1]) - 1
    /\ \A i \in 1..Len(b2[g + 1]) : /\ i + 1 \in 1..Len(b[g + 1])
                                    /\ b2[g + 1][i] = b[g + 1][i + 1]

(* ReadCell takes the first cell off a connection.                         *)
LEMMA TakeWhere ==
    ASSUME NEW b \in BackType, NEW g \in 1..hops, b[g] # <<>>
    PROVE  Taken([b EXCEPT ![g] = Tail(@)], b, g)
<1> DEFINE b2 == [b EXCEPT ![g] = Tail(@)]
<1>1. b[g] \in Seq(Cells) /\ \A k \in 1..hops : b[k] \in Seq(Cells)
  BY Zenon DEF BackType
<1>2. Len(b[g]) \in Nat /\ Len(b[g]) >= 1 /\ \A k \in 1..hops : Len(b[k]) \in Nat
  BY <1>1
<1>3. \A k \in 1..hops : k # g => b2[k] = b[k]
  BY Zenon DEF BackType
<1>4. b2[g] = Tail(b[g])
  BY Zenon DEF BackType
<1>5. /\ Len(Tail(b[g])) = Len(b[g]) - 1
      /\ \A i \in 1..Len(Tail(b[g])) : Tail(b[g])[i] = b[g][i + 1]
      /\ Head(b[g]) = b[g][1]
  BY <1>1
<1>6. 1 \in 1..Len(b[g]) /\ \A i \in 1..(Len(b[g]) - 1) : i + 1 \in 1..Len(b[g])
  BY <1>2
<1> HIDE DEF b2
<1>7. /\ Len(b2[g]) = Len(b[g]) - 1
      /\ \A i \in 1..Len(b2[g]) : i + 1 \in 1..Len(b[g]) /\ b2[g][i] = b[g][i + 1]
  BY Zenon, <1>4, <1>5, <1>6
<1>8. Taken(b2, b, g)
  BY Zenon, <1>2, <1>3, <1>5, <1>6, <1>7 DEF Taken
<1> QED
  BY Zenon, <1>8 DEF b2

(* A cell written to a connection comes last on it.                        *)
LEMMA AppendWhere ==
    ASSUME NEW b \in BackType, NEW g \in 1..hops, NEW c \in Cells
    PROVE  Added([b EXCEPT ![g] = Append(@, c)], b, g, c)
<1> DEFINE b2 == [b EXCEPT ![g] = Append(@, c)]
<1>1. b[g] \in Seq(Cells) /\ \A k \in 1..hops : b[k] \in Seq(Cells)
  BY Zenon DEF BackType
<1>2. Len(b[g]) \in Nat /\ \A k \in 1..hops : Len(b[k]) \in Nat
  BY <1>1
<1>3. \A k \in 1..hops : k # g => b2[k] = b[k]
  BY Zenon DEF BackType
<1>4. b2[g] = Append(b[g], c)
  BY Zenon DEF BackType
<1>5. /\ Len(Append(b[g], c)) = Len(b[g]) + 1
      /\ \A i \in 1..Len(b[g]) : Append(b[g], c)[i] = b[g][i]
      /\ Append(b[g], c)[Len(b[g]) + 1] = c
  BY <1>1
<1>6. \A i \in 1..(Len(b[g]) + 1) : i \in 1..Len(b[g]) \/ i = Len(b[g]) + 1
  BY <1>2
<1> HIDE DEF b2
<1>7. /\ Len(b2[g]) = Len(b[g]) + 1
      /\ \A i \in 1..Len(b2[g]) : \/ i \in 1..Len(b[g]) /\ b2[g][i] = b[g][i]
                                  \/ i = Len(b[g]) + 1 /\ b2[g][i] = c
  BY Zenon, <1>4, <1>5, <1>6
<1>8. Added(b2, b, g, c)
  BY Zenon, <1>2, <1>3, <1>7 DEF Added
<1> QED
  BY Zenon, <1>8 DEF b2

(* forwardCells does both with one cell.                                   *)
LEMMA MoveWhere ==
    ASSUME NEW b, NEW taken, NEW b2, NEW g \in 1..(hops - 1), NEW w,
           Taken(taken, b, g + 1), Added(b2, taken, g, w), Same(w, Head(b[g + 1]))
    PROVE  Moved(b2, b, g, w)
<1>0. g \in 1..hops /\ g + 1 \in 1..hops /\ g # g + 1
  BY DEF hops
<1>1. taken[g] = b[g] /\ b2[g + 1] = taken[g + 1]
  BY Zenon, <1>0 DEF Taken, Added
<1>2. \A k \in 1..hops : k # g /\ k # g + 1 => b2[k] = b[k]
  BY Zenon, <1>0 DEF Taken, Added
<1>3. Same(w, b[g + 1][1]) /\ 1 \in 1..Len(b[g + 1])
  BY Zenon DEF Taken
<1>4. /\ Len(b2[g]) = Len(b[g]) + 1
      /\ \A i \in 1..Len(b2[g]) : \/ i \in 1..Len(b[g]) /\ b2[g][i] = b[g][i]
                                  \/ i = Len(b[g]) + 1 /\ b2[g][i] = w
  BY Zenon, <1>1 DEF Added
<1>5. /\ Len(b2[g + 1]) = Len(b[g + 1]) - 1
      /\ \A i \in 1..Len(b2[g + 1]) : /\ i + 1 \in 1..Len(b[g + 1])
                                      /\ b2[g + 1][i] = b[g + 1][i + 1]
  BY Zenon, <1>1 DEF Taken
<1>6. \A k \in 1..hops : Len(b[k]) \in Nat
  BY Zenon DEF Taken
<1> QED
  BY Zenon, <1>2, <1>3, <1>4, <1>5, <1>6 DEF Moved

-----------------------------------------------------------------------------
(* The way back: its order.                                                *)

(* Two cells that stand for cells of b in order are in order.              *)
LEMMA InOrder ==
    ASSUME NEW b, Sorted(b), NEW h \in 1..hops, NEW k \in 1..hops,
           NEW p \in 1..Len(b[h]), NEW q \in 1..Len(b[k]), Before(h, p, k, q),
           NEW c, NEW d, Same(c, b[h][p]), Same(d, b[k][q]), c.req = d.req
    PROVE  c.seq < d.seq
<1>1. b[h][p].req = b[k][q].req => b[h][p].seq < b[k][q].seq
  BY Zenon DEF Sorted
<1> QED
  BY Zenon, <1>1 DEF Same

(* Taking a cell keeps the others in order.                                *)
LEMMA TakeOrder ==
    ASSUME NEW b, NEW b2, NEW g \in 1..hops, Taken(b2, b, g)
    PROVE  /\ Derived(b2, b)
           /\ Sorted(b) => Sorted(b2)
<1>0. ASSUME NEW k \in 1..hops, NEW i \in 1..Len(b2[k])
      PROVE  /\ (IF k = g THEN i + 1 ELSE i) \in 1..Len(b[k])
             /\ Same(b2[k][i], b[k][IF k = g THEN i + 1 ELSE i])
  <2>1. CASE k = g
    BY Zenon, <2>1 DEF Taken, Same
  <2>2. CASE k # g
    BY Zenon, <2>2 DEF Taken, Same
  <2> QED
    BY Zenon, <2>1, <2>2
<1>1. Derived(b2, b)
  BY Zenon, <1>0 DEF Derived
<1>2. ASSUME Sorted(b), NEW h \in 1..hops, NEW k \in 1..hops,
             NEW i \in 1..Len(b2[h]), NEW j \in 1..Len(b2[k]),
             Before(h, i, k, j), b2[h][i].req = b2[k][j].req
      PROVE  b2[h][i].seq < b2[k][j].seq
  <2> DEFINE p == IF h = g THEN i + 1 ELSE i
             q == IF k = g THEN j + 1 ELSE j
  <2>1. p \in 1..Len(b[h]) /\ Same(b2[h][i], b[h][p])
    BY Zenon, <1>0
  <2>2. q \in 1..Len(b[k]) /\ Same(b2[k][j], b[k][q])
    BY Zenon, <1>0
  <2>3. Before(h, p, k, q)
    BY <1>2 DEF Before
  <2> HIDE DEF p, q
  <2> QED
    BY ONLY Zenon, <1>2, <2>1, <2>2, <2>3, InOrder
<1> QED
  BY Zenon, <1>1, <1>2 DEF Sorted

(* A cell with a higher number than those of its response on the way is    *)
(* written in order by the exit.                                           *)
LEMMA WriteOrder ==
    ASSUME NEW b, NEW b2, NEW c, Added(b2, b, hops, c), Sorted(b),
           \A h \in 1..hops : \A i \in 1..Len(b[h]) :
              b[h][i].req = c.req => b[h][i].seq < c.seq
    PROVE  Sorted(b2)
<1>0. hops \in 1..hops /\ hops \in Nat
  BY DEF hops
<1>1. \A k \in 1..hops : \A i \in 1..Len(b2[k]) :
          \/ i \in 1..Len(b[k]) /\ b2[k][i] = b[k][i]
          \/ k = hops /\ i = Len(b[hops]) + 1 /\ b2[k][i] = c
  BY Zenon, <1>0 DEF Added
<1>2. \A k \in 1..hops : Len(b[k]) \in Nat
  BY Zenon DEF Added
<1>3. ASSUME NEW h \in 1..hops, NEW k \in 1..hops,
             NEW i \in 1..Len(b2[h]), NEW j \in 1..Len(b2[k]),
             Before(h, i, k, j), b2[h][i].req = b2[k][j].req
      PROVE  b2[h][i].seq < b2[k][j].seq
  <2>1. CASE h = hops /\ i = Len(b[hops]) + 1 /\ b2[h][i] = c
    <3>1. k \in 1..hops /\ ~ (hops < k)
      BY <1>0
    <3>2. k = hops /\ j > Len(b[hops]) + 1
      BY Zenon, <1>2, <1>3, <2>1, <3>1 DEF Before
    <3>3. j \in 1..Len(b[hops]) \/ j = Len(b[hops]) + 1
      BY Zenon, <1>1, <3>2
    <3> QED
      BY <1>0, <1>2, <3>2, <3>3
  <2>2. CASE i \in 1..Len(b[h]) /\ b2[h][i] = b[h][i]
    <3>1. CASE j \in 1..Len(b[k]) /\ b2[k][j] = b[k][j]
      <4>1. Same(b2[h][i], b[h][i]) /\ Same(b2[k][j], b[k][j])
        BY Zenon, <2>2, <3>1 DEF Same
      <4> QED
        BY Zenon, <1>3, <2>2, <3>1, <4>1, InOrder
    <3>2. CASE b2[k][j] = c
      BY Zenon, <1>3, <2>2, <3>2
    <3> QED
      BY Zenon, <1>1, <3>1, <3>2
  <2> QED
    BY Zenon, <1>1, <2>1, <2>2
<1> QED
  BY Zenon, <1>3 DEF Sorted

(* A relay that passes a cell on puts it behind those it passed before,    *)
(* and before all that are still to come.                                  *)
LEMMA MoveOrder ==
    ASSUME NEW b, NEW b2, NEW w, NEW g \in 1..(hops - 1), Moved(b2, b, g, w)
    PROVE  /\ Derived(b2, b)
           /\ Sorted(b) => Sorted(b2)
<1>0. g \in 1..hops /\ g + 1 \in 1..hops /\ g # g + 1 /\ g \in Nat /\ hops \in Nat
  BY DEF hops
<1> DEFINE Last(k, i) == k = g /\ i = Len(b[g]) + 1
           oh(k, i) == IF Last(k, i) THEN g + 1 ELSE k
           oi(k, i) == IF Last(k, i) THEN 1 ELSE IF k = g + 1 THEN i + 1 ELSE i
<1>1. ASSUME NEW k \in 1..hops, NEW i \in 1..Len(b2[k])
      PROVE  /\ oh(k, i) \in 1..hops /\ oi(k, i) \in 1..Len(b[oh(k, i)])
             /\ Same(b2[k][i], b[oh(k, i)][oi(k, i)])
  <2>1. CASE Last(k, i)
    <3>1. b2[k][i] = w
      BY <1>0, <1>1, <2>1 DEF Moved
    <3> QED
      BY Zenon, <1>0, <2>1, <3>1 DEF Moved
  <2>2. CASE ~ Last(k, i) /\ k = g + 1
    BY Zenon, <1>0, <1>1, <2>2 DEF Moved, Same
  <2>3. CASE ~ Last(k, i) /\ k = g
    BY Zenon, <1>0, <1>1, <2>3 DEF Moved, Same
  <2>4. CASE k # g /\ k # g + 1
    BY Zenon, <1>0, <1>1, <2>4 DEF Moved, Same
  <2> QED
    BY Zenon, <2>1, <2>2, <2>3, <2>4
<1>2. ASSUME NEW h \in 1..hops, NEW k \in 1..hops,
             NEW i \in 1..Len(b2[h]), NEW j \in 1..Len(b2[k]), Before(h, i, k, j)
      PROVE  Before(oh(h, i), oi(h, i), oh(k, j), oi(k, j))
  <2>1. /\ h \in Nat /\ k \in Nat /\ i \in Nat /\ j \in Nat /\ i >= 1 /\ j >= 1
        /\ Len(b[g]) \in Nat
    BY <1>0 DEF Moved
  <2>2. (k = g => j <= Len(b[g]) + 1) /\ (h = g => i <= Len(b[g]) + 1)
    BY SMTT(30), <2>1 DEF Moved
  <2> QED
    BY <1>0, <1>2, <2>1, <2>2 DEF Before
<1> HIDE DEF oh, oi
<1>3. Derived(b2, b)
  BY Zenon, <1>1 DEF Derived
<1>4. ASSUME Sorted(b), NEW h \in 1..hops, NEW k \in 1..hops,
             NEW i \in 1..Len(b2[h]), NEW j \in 1..Len(b2[k]),
             Before(h, i, k, j), b2[h][i].req = b2[k][j].req
      PROVE  b2[h][i].seq < b2[k][j].seq
  <2>1. /\ oh(h, i) \in 1..hops /\ oi(h, i) \in 1..Len(b[oh(h, i)])
        /\ Same(b2[h][i], b[oh(h, i)][oi(h, i)])
    BY Zenon, <1>1
  <2>2. /\ oh(k, j) \in 1..hops /\ oi(k, j) \in 1..Len(b[oh(k, j)])
        /\ Same(b2[k][j], b[oh(k, j)][oi(k, j)])
    BY Zenon, <1>1
  <2>3. Before(oh(h, i), oi(h, i), oh(k, j), oi(k, j))
    BY Zenon, <1>2, <1>4
  <2> QED
    BY ONLY Zenon, <1>4, <2>1, <2>2, <2>3, InOrder
<1> QED
  BY Zenon, <1>3, <1>4 DEF Sorted

-----------------------------------------------------------------------------
(* The steps, by what they do to requests and cells.                       *)

(* sendRequest of r, up to its read loop.                                  *)
Sends(r) ==
    /\ state[r] = "new" /\ state'[r] # "new"
    /\ \A q \in Requests \ {r} : state'[q] = state[q] /\ ended'[q] = ended[q]
    /\ \/ ~ Reading(r)' /\ ended'[r] = "error" /\ UNCHANGED <<toExit, overlapped>>
       \/ /\ ended'[r] = ended[r]
          /\ toExit' = toExit \/ toExit' = Append(toExit, r)
          /\ overlapped \subseteq overlapped'
          /\ \A q \in Requests \ {r} : Busy(q) => q \in overlapped' /\ r \in overlapped'
    /\ UNCHANGED <<response, doneOf, job, sent, back, alive, lost>>

(* sendRequest of r reads the body of cell c.                              *)
Reads(r, c) ==
    /\ state[r] = "len" /\ Taken(back', back, 1) /\ c = back[1][1]
    /\ Derived(back', back) /\ (Sorted(back) => Sorted(back'))
    /\ \A q \in Requests \ {r} : /\ state'[q] = state[q] /\ ended'[q] = ended[q]
                                 /\ response'[q] = response[q] /\ doneOf'[q] = doneOf[q]
    /\ \/ /\ c.cmd = "Relay" /\ state'[r] = "read" /\ ended'[r] = ended[r]
          /\ response'[r] = Append(response[r], <<c.req, c.seq>>)
       \/ /\ c.cmd = "RelayDone" /\ state'[r] = "done"
          /\ response'[r] = response[r] /\ doneOf'[r] = c.req
    /\ UNCHANGED <<toExit, job, sent, alive, lost, overlapped>>

(* The exit's goroutine for r writes c, which a lost connection swallows.  *)
Writes(r, c) ==
    /\ c.req = r /\ c.seq = sent[r] + 1
    /\ \/ hops \in lost /\ back' = back
       \/ hops \notin lost /\ Added(back', back, hops, c)
    /\ \/ c.cmd = "Relay" /\ sent'[r] = sent[r] + 1 /\ job'[r] \in {"run", "ending"}
       \/ c.cmd = "RelayDone" /\ sent'[r] = sent[r] /\ job'[r] = "done"

(* handleExitRelay's goroutine for r writes a cell, or drops a reply that  *)
(* does not fit one.                                                       *)
Exits(r) ==
    /\ job[r] \in {"run", "ending"}
    /\ \A q \in Requests \ {r} : job'[q] = job[q] /\ sent'[q] = sent[q]
    /\ \/ \E c \in Cells : Writes(r, c)
       \/ job[r] = "run" /\ job'[r] = "ending" /\ UNCHANGED <<back, sent>>
    /\ UNCHANGED <<state, ended, response, doneOf, toExit, alive, lost, overlapped>>

(* The exit starts its goroutine for r.                                    *)
Starts(r) ==
    /\ 1 \in 1..Len(toExit) /\ toExit[1] = r
    /\ \A i \in 1..Len(toExit') : /\ i + 1 \in 1..Len(toExit) /\ i + 1 # 1
                                  /\ toExit'[i] = toExit[i + 1]
    /\ job'[r] = "run" /\ \A q \in Requests \ {r} : job'[q] = job[q]
    /\ UNCHANGED <<state, ended, response, doneOf, sent, back, alive, lost, overlapped>>

(* A relay passes a cell on or drops it and all after it; a connection is  *)
(* lost with or without what it holds.                                     *)
Moves ==
    \/ back' = back
    \/ \E g \in 1..(hops - 1) : Taken(back', back, g + 1) /\ ~ Open(g)'
    \/ \E g \in 1..(hops - 1), w \in Cells : Moved(back', back, g, w) /\ Open(g)
    \/ \E g \in 1..hops : /\ g \in lost'
                          /\ \A k \in 1..hops : \/ back'[k] = back[k]
                                                \/ k = g /\ back'[k] = <<>>

(* Nothing is read, sent or started; requests may fail to end or go on.    *)
Passes ==
    /\ Moves /\ Derived(back', back) /\ (Sorted(back) => Sorted(back'))
    /\ \A i \in 1..Len(toExit') : i \in 1..Len(toExit) /\ toExit'[i] = toExit[i]
    /\ \A r \in Requests :
          /\ Reading(r)' => Reading(r) /\ ended'[r] = ended[r]
          /\ ended'[r] = "done" => ended[r] = "done"
          /\ state'[r] = "new" => state[r] = "new" /\ ended'[r] = ended[r]
    /\ lost \subseteq lost' /\ \A k \in 1..(hops - 1) : alive'[k] => alive[k]
    /\ UNCHANGED <<response, doneOf, job, sent, overlapped>>

(* A job's cell is written at the exit's end of the way back.              *)
LEMMA ExitKind ==
    ASSUME TypeOK, NEW r \in Requests, Exit(r)
    PROVE  Exits(r)
<1>0. job[r] \in {"run", "ending"}
  BY Zenon DEF Exit, ExitChunk, sendExitError, sendDone
<1>1. /\ job[r] \in {"run", "ending"} /\ sent[r] \in Nat
      /\ job \in [Requests -> {"none", "run", "ending", "done"}]
      /\ sent \in [Requests -> Nat] /\ back \in BackType /\ hops \in 1..hops
  BY <1>0 DEF TypeOK, BackType, hops
<1>2. /\ \A q \in Requests \ {r} : job'[q] = job[q] /\ sent'[q] = sent[q]
      /\ UNCHANGED <<state, ended, response, doneOf, toExit, alive, lost, overlapped>>
  BY Zenon, <1>1 DEF Exit, ExitChunk, sendExitError, sendDone, clientVars
<1>3. ASSUME NEW cmd \in {"Relay", "RelayDone"}, NEW length \in Nat, NEW e \in BOOLEAN,
             back' = writeIn(hops, ResponseCell(r, cmd, length, e)),
             \/ /\ cmd = "Relay" /\ sent' = [sent EXCEPT ![r] = @ + 1]
                /\ job' = job \/ job' = [job EXCEPT ![r] = "ending"]
             \/ cmd = "RelayDone" /\ sent' = sent /\ job' = [job EXCEPT ![r] = "done"]
      PROVE  \E c \in Cells : Writes(r, c)
  <2> DEFINE c == ResponseCell(r, cmd, length, e)
  <2>1. c \in Cells /\ c.req = r /\ c.seq = sent[r] + 1 /\ c.cmd = cmd
    BY Zenon, ResponseCellType DEF ResponseCell
  <2>2. back' = IF hops \in lost THEN back ELSE [back EXCEPT ![hops] = Append(@, c)]
    BY Zenon, <1>3 DEF writeIn
  <2> HIDE DEF c
  <2>3. (hops \in lost /\ back' = back) \/ (hops \notin lost /\ Added(back', back, hops, c))
    BY Zenon, <1>1, <2>1, <2>2, AppendWhere
  <2>4. \/ cmd = "Relay" /\ sent'[r] = sent[r] + 1 /\ job'[r] \in {"run", "ending"}
        \/ cmd = "RelayDone" /\ sent'[r] = sent[r] /\ job'[r] = "done"
    BY Zenon, <1>1, <1>3
  <2> QED
    BY Zenon, <2>1, <2>3, <2>4 DEF Writes
<1>4. (\A length \in ChunkSizes : length \in Nat) /\ (\A length \in ErrorSizes : length \in Nat)
  BY SizesAssumption DEF CellBodyMax, hops, gcmOverhead
<1>5. ASSUME NEW length \in ChunkSizes, ExitChunk(r, length)
      PROVE  \E c \in Cells : Writes(r, c)
  BY Zenon, <1>3, <1>4, <1>5 DEF ExitChunk
<1>6. ASSUME sendDone(r) PROVE \E c \in Cells : Writes(r, c)
  BY Zenon, <1>3, <1>6 DEF sendDone
<1>7. ASSUME NEW length \in ErrorSizes, sendExitError(r, length)
      PROVE  \/ \E c \in Cells : Writes(r, c)
             \/ job[r] = "run" /\ job'[r] = "ending" /\ UNCHANGED <<back, sent>>
  <2>1. job[r] = "run" /\ job' = [job EXCEPT ![r] = "ending"] /\ job'[r] = "ending"
    BY Zenon, <1>1, <1>7 DEF sendExitError
  <2> QED
    BY Zenon, <1>3, <1>4, <1>7, <2>1 DEF sendExitError
<1> QED
  BY Zenon, <1>1, <1>2, <1>5, <1>6, <1>7 DEF Exit, Exits

(* What a relay or a lost connection does to the way back.                 *)
LEMMA MoveKind ==
    ASSUME TypeOK,
           \/ \E g \in 1..(hops - 1) : forwardCells(g)
           \/ \E g \in 1..hops : Disconnect(g)
    PROVE  /\ Moves /\ Derived(back', back) /\ (Sorted(back) => Sorted(back'))
           /\ lost \subseteq lost' /\ \A k \in 1..(hops - 1) : alive'[k] => alive[k]
<1>0. back \in BackType
  BY Zenon DEF TypeOK, BackType
<1>1. ASSUME NEW g \in 1..(hops - 1), forwardCells(g)
      PROVE  /\ Moves /\ Derived(back', back) /\ (Sorted(back) => Sorted(back'))
             /\ lost \subseteq lost' /\ \A k \in 1..(hops - 1) : alive'[k] => alive[k]
  <2>0. g \in 1..hops /\ g + 1 \in 1..hops /\ back[g + 1] # <<>>
    BY <1>1 DEF forwardCells, hops
  <2> DEFINE c == Head(back[g + 1])
             wrapped == [c EXCEPT !.size = @ + gcmOverhead]
             taken == [back EXCEPT ![g + 1] = Tail(@)]
             moved == [taken EXCEPT ![g] = Append(@, wrapped)]
  <2>1. c \in Cells /\ taken \in BackType
    BY Zenon, <1>0, <2>0, TakeType
  <2>2. wrapped \in Cells /\ Same(wrapped, c)
    <3>1. c.size + gcmOverhead \in Nat
      BY <2>1 DEF Cells, gcmOverhead
    <3> QED
      BY Zenon, <2>1, <3>1 DEF Cells, Same
  <2>3. Taken(taken, back, g + 1)
    BY Zenon, <1>0, <2>0, TakeWhere
  <2>4. Added(moved, taken, g, wrapped)
    BY Zenon, <2>0, <2>1, <2>2, AppendWhere
  <2>5. \/ back' = taken /\ (~ alive'[g] \/ g \in lost')
        \/ back' = moved /\ alive[g] /\ g \notin lost
    BY Zenon, <1>1 DEF forwardCells, TypeOK
  <2>6. lost \subseteq lost' /\ \A k \in 1..(hops - 1) : alive'[k] => alive[k]
    BY Zenon, <1>1 DEF forwardCells, TypeOK
  <2>7. Same(wrapped, Head(back[g + 1]))
    BY Zenon, <2>2
  <2> HIDE DEF c, wrapped, taken, moved
  <2>8. Moved(moved, back, g, wrapped)
    BY Zenon, <2>3, <2>4, <2>7, MoveWhere
  <2>9. Moves
    BY Zenon, <2>2, <2>3, <2>5, <2>8 DEF Moves, Open
  <2>10. /\ Derived(taken, back) /\ Derived(moved, back)
         /\ Sorted(back) => Sorted(taken) /\ Sorted(moved)
    BY Zenon, <2>0, <2>3, <2>8, TakeOrder, MoveOrder
  <2> QED
    BY Zenon, <2>5, <2>6, <2>9, <2>10
<1>2. ASSUME NEW g \in 1..hops, Disconnect(g)
      PROVE  /\ Moves /\ Derived(back', back) /\ (Sorted(back) => Sorted(back'))
             /\ lost \subseteq lost' /\ \A k \in 1..(hops - 1) : alive'[k] => alive[k]
  <2>1. /\ \E rest \in {back[g], <<>>} : back' = [back EXCEPT ![g] = rest]
        /\ lost' = lost \cup {g} /\ alive' = alive
    BY Zenon, <1>2 DEF Disconnect
  <2>2. \A k \in 1..hops : back'[k] = back[k] \/ (k = g /\ back'[k] = <<>>)
    BY Zenon, <1>0, <2>1 DEF BackType
  <2>3. \A k \in 1..hops : \A i \in 1..Len(back'[k]) :
           i \in 1..Len(back[k]) /\ back'[k][i] = back[k][i]
    BY <2>2
  <2>4. Derived(back', back)
    BY Zenon, <2>3 DEF Derived, Same
  <2>5. ASSUME Sorted(back), NEW h \in 1..hops, NEW k \in 1..hops,
               NEW i \in 1..Len(back'[h]), NEW j \in 1..Len(back'[k]),
               Before(h, i, k, j), back'[h][i].req = back'[k][j].req
        PROVE  back'[h][i].seq < back'[k][j].seq
    BY Zenon, <2>3, <2>5 DEF Sorted
  <2>6. Moves
    BY Zenon, <2>1, <2>2 DEF Moves
  <2> QED
    BY Zenon, <2>1, <2>4, <2>5, <2>6 DEF Sorted
<1> QED
  BY Zenon, <1>1, <1>2

(* Every step is of one of these kinds.                                    *)
LEMMA StepKinds ==
    ASSUME TypeOK, [Next]_vars
    PROVE  \/ Passes
           \/ \E r \in Requests : Sends(r) \/ Exits(r) \/ Starts(r)
           \/ \E r \in Requests, c \in Cells : Reads(r, c)
<1>0. /\ back \in BackType /\ toExit \in Seq(Requests) /\ Derived(back, back)
      /\ state \in [Requests -> {"new", "read", "len", "lost", "done"}]
      /\ ended \in [Requests -> Outcomes]
  BY Zenon DEF TypeOK, BackType, Derived, Same
<1>1. ASSUME NEW r \in Requests, NEW size \in RequestSizes, SendRequest(r, size)
      PROVE  Sends(r)
  <2>1. /\ state[r] = "new" /\ state'[r] # "new"
        /\ \A q \in Requests \ {r} : state'[q] = state[q] /\ ended'[q] = ended[q]
        /\ UNCHANGED <<response, doneOf, job, sent, back, alive, lost>>
    BY Zenon, <1>0, <1>1 DEF SendRequest, exitVars
  <2>2. \/ ~ Reading(r)' /\ ended'[r] = "error" /\ UNCHANGED <<toExit, overlapped>>
        \/ /\ ended'[r] = ended[r]
           /\ toExit' = toExit \/ toExit' = Append(toExit, r)
           /\ overlapped \subseteq overlapped'
           /\ \A q \in Requests \ {r} : Busy(q) => q \in overlapped' /\ r \in overlapped'
    BY Zenon, <1>0, <1>1 DEF SendRequest, Reading
  <2> QED
    BY Zenon, <2>1, <2>2 DEF Sends
<1>2. ASSUME NEW r \in Requests, ReadBody(r)
      PROVE  \E c \in Cells : Reads(r, c)
  <2>1. /\ 1 \in 1..hops /\ back[1] # <<>> /\ back' = [back EXCEPT ![1] = Tail(@)]
    BY <1>2 DEF ReadBody, hops
  <2>2. Taken(back', back, 1) /\ Head(back[1]) = back[1][1] /\ back[1][1] \in Cells
    <3>1. Taken(back', back, 1)
      BY Zenon, <1>0, <2>1, TakeWhere
    <3>2. Head(back[1]) \in Cells
      BY Zenon, <1>0, <2>1, TakeType
    <3> QED
      BY Zenon, <3>1, <3>2 DEF Taken
  <2>3. Derived(back', back) /\ (Sorted(back) => Sorted(back'))
    BY Zenon, <2>1, <2>2, TakeOrder
  <2> DEFINE c == back[1][1]
  <2>4. /\ \A q \in Requests \ {r} : /\ state'[q] = state[q] /\ ended'[q] = ended[q]
                                     /\ response'[q] = response[q] /\ doneOf'[q] = doneOf[q]
        /\ \/ /\ c.cmd = "Relay" /\ state'[r] = "read" /\ ended'[r] = ended[r]
              /\ response'[r] = Append(response[r], <<c.req, c.seq>>)
           \/ /\ c.cmd = "RelayDone" /\ state'[r] = "done"
              /\ response'[r] = response[r] /\ doneOf'[r] = c.req
    <3>1. CASE c.cmd = "RelayDone"
      BY <1>2, <2>2, <3>1 DEF ReadBody, Return, TypeOK
    <3>2. CASE c.cmd = "Relay"
      BY ZenonT(30), <1>2, <2>2, <3>2 DEF ReadBody, TypeOK
    <3> QED
      BY Zenon, <2>2, <3>1, <3>2 DEF Cells
  <2>5. state[r] = "len" /\ UNCHANGED <<toExit, job, sent, alive, lost, overlapped>>
    BY Zenon, <1>2 DEF ReadBody, exitVars
  <2> QED
    BY Zenon, <2>2, <2>3, <2>4, <2>5 DEF Reads
<1>3. ASSUME StartExit PROVE \E r \in Requests : Starts(r)
  <2>1. /\ toExit # <<>> /\ toExit' = Tail(toExit)
        /\ job' = [job EXCEPT ![Head(toExit)] = "run"]
        /\ UNCHANGED <<state, ended, response, doneOf, sent, back, alive, lost, overlapped>>
    BY Zenon, <1>3 DEF StartExit, clientVars
  <2>2. /\ 1 \in 1..Len(toExit) /\ Head(toExit) = toExit[1] /\ toExit[1] \in Requests
        /\ \A i \in 1..Len(toExit') : /\ i + 1 \in 1..Len(toExit) /\ i + 1 # 1
                                      /\ toExit'[i] = toExit[i + 1]
    BY <1>0, <2>1
  <2>3. job'[toExit[1]] = "run" /\ \A q \in Requests \ {toExit[1]} : job'[q] = job[q]
    BY Zenon, <2>1, <2>2 DEF TypeOK
  <2> QED
    BY Zenon, <2>1, <2>2, <2>3 DEF Starts
<1>4. ASSUME UNCHANGED <<back, toExit, response, doneOf, job, sent, overlapped>>,
             \A r \in Requests :
                /\ Reading(r)' => Reading(r) /\ ended'[r] = ended[r]
                /\ ended'[r] = "done" => ended[r] = "done"
                /\ state'[r] = "new" => state[r] = "new" /\ ended'[r] = ended[r],
             lost \subseteq lost', \A k \in 1..(hops - 1) : alive'[k] => alive[k]
      PROVE  Passes
  BY Zenon, <1>0, <1>4 DEF Passes, Moves
<1>5. ASSUME NEW S \in SUBSET Requests, NEW how, how # "done", Return(S, how),
             UNCHANGED <<response, doneOf, toExit, exitVars, back, alive, lost, overlapped>>
      PROVE  Passes
  <2>1. \A r \in Requests :
           /\ Reading(r)' => Reading(r) /\ ended'[r] = ended[r]
           /\ ended'[r] = "done" => ended[r] = "done"
           /\ state'[r] = "new" => state[r] = "new" /\ ended'[r] = ended[r]
    BY Zenon, <1>5 DEF Return, Reading
  <2> QED
    BY Zenon, <1>4, <1>5, <2>1 DEF exitVars
<1>6. ASSUME NEW r \in Requests, ReadGarbage(r) \/ ReadEOF(r) \/ Cancelled(r)
      PROVE  Passes
  <2>1. UNCHANGED <<response, doneOf, toExit, exitVars, back, alive, lost, overlapped>>
    BY Zenon, <1>6 DEF ReadGarbage, ReadEOF, Cancelled
  <2>2. \E how \in {"eof", "error"} : Return({r}, how)
    BY Zenon, <1>6 DEF ReadGarbage, ReadEOF, Cancelled
  <2> QED
    BY Zenon, <1>5, <2>1, <2>2
<1>7. ASSUME NEW S \in SUBSET Requests, Deadline(S) PROVE Passes
  BY Zenon, <1>5, <1>7 DEF Deadline
<1>8. ASSUME NEW r \in Requests, ReadLength(r) PROVE Passes
  <2>1. UNCHANGED <<back, toExit, response, doneOf, job, sent, overlapped, ended, alive, lost>>
    BY Zenon, <1>8 DEF ReadLength, exitVars
  <2>2. \A q \in Requests : state'[q] = state[q] \/ (Reading(q) /\ state'[q] # "new")
    BY Zenon, <1>0, <1>8 DEF ReadLength, Reading
  <2>3. \A q \in Requests : Reading(q)' => Reading(q)
    BY Zenon, <2>2 DEF Reading
  <2> QED
    BY Zenon, <1>4, <2>1, <2>2, <2>3
<1>9. ASSUME UNCHANGED <<state, ended>>
      PROVE  \A r \in Requests :
                /\ Reading(r)' => Reading(r) /\ ended'[r] = ended[r]
                /\ ended'[r] = "done" => ended[r] = "done"
                /\ state'[r] = "new" => state[r] = "new" /\ ended'[r] = ended[r]
  BY Zenon, <1>9 DEF Reading
<1>10. ASSUME \/ \E g \in 1..(hops - 1) : forwardCells(g)
              \/ \E g \in 1..hops : Disconnect(g)
       PROVE  Passes
  <2>1. UNCHANGED <<response, doneOf, job, sent, overlapped, state, ended>>
    BY Zenon, <1>10 DEF forwardCells, Disconnect, clientVars, exitVars
  <2>2. toExit' = toExit \/ \E k \in 0..Len(toExit) : toExit' = SubSeq(toExit, 1, k)
    BY Zenon, <1>10 DEF forwardCells, Disconnect
  <2>3. \A i \in 1..Len(toExit') : i \in 1..Len(toExit) /\ toExit'[i] = toExit[i]
    BY <1>0, <2>2
  <2> QED
    BY Zenon, <1>9, <1>10, <2>1, <2>3, MoveKind DEF Passes
<1>11. ASSUME EntryTimeout \/ UNCHANGED vars \/ \E g \in 1..(hops - 1) : ForwarderEnds(g)
       PROVE  Passes
  <2>1. UNCHANGED <<back, toExit, response, doneOf, job, sent, overlapped, state, ended>>
    BY Zenon, <1>11 DEF EntryTimeout, ForwarderEnds, vars, clientVars, exitVars
  <2>2. lost \subseteq lost' /\ \A k \in 1..(hops - 1) : alive'[k] => alive[k]
    BY Zenon, <1>11 DEF EntryTimeout, ForwarderEnds, vars, TypeOK
  <2> QED
    BY Zenon, <1>4, <1>9, <2>1, <2>2
<1> QED
  <2>1. CASE Next
    BY Zenon, <2>1, <1>1, <1>2, <1>3, <1>6, <1>7, <1>8, <1>10, <1>11, ExitKind
       DEF Next, Client, Finished
  <2> QED
    BY Zenon, <1>11, <2>1
-----------------------------------------------------------------------------
(* Chunks once and in order.                                               *)

(* The types behind the order.                                             *)
LEMMA CellTypes ==
    ASSUME TypeOK
    PROVE  /\ \A h \in 1..hops : \A i \in 1..Len(back[h]) : back[h][i] \in Cells
           /\ \A r \in Requests : \A i \in 1..Len(response[r]) :
                 response[r][i] \in Requests \X Nat
           /\ \A r \in Requests : sent[r] \in Nat
<1>1. \A h \in 1..hops : back[h] \in Seq(Cells)
  BY Zenon DEF TypeOK
<1>2. \A h \in 1..hops : \A i \in 1..Len(back[h]) : back[h][i] \in Cells
  BY <1>1
<1>3. \A r \in Requests : response[r] \in Seq(Requests \X Nat)
  BY Zenon DEF TypeOK
<1>4. \A r \in Requests : \A i \in 1..Len(response[r]) :
         response[r][i] \in Requests \X Nat
  BY <1>3
<1> QED
  BY Zenon, <1>2, <1>4 DEF TypeOK

(* Steps that read and write nothing keep the order, whatever they move or *)
(* lose; an exit goroutine may start.                                      *)
LEMMA OrderFrame ==
    ASSUME TypeOK, OrderInv, UNCHANGED <<response, sent>>,
           Derived(back', back), Sorted(back'),
           \A q \in Requests : job[q] # "none" => job'[q] = job[q]
    PROVE  OrderInv'
<1>1. ASSUME NEW h \in 1..hops, NEW i \in 1..Len(back'[h])
      PROVE  Written(back[h][i])'
  <2>1. PICK k \in 1..hops : \E j \in 1..Len(back[k]) : Same(back'[h][i], back[k][j])
    BY Zenon DEF Derived
  <2>2. PICK j \in 1..Len(back[k]) : Same(back'[h][i], back[k][j])
    BY Zenon, <2>1
  <2>3. Written(back[k][j]) /\ back[k][j].req \in Requests
    BY Zenon, CellTypes DEF OrderInv, Cells
  <2> QED
    BY Zenon, <2>2, <2>3 DEF Written, Same
<1>2. ASSUME NEW r \in Requests, NEW n \in 1..Len(response[r])
      PROVE  Past(response[r][n])'
  <2>1. Past(response[r][n])
    BY Zenon DEF OrderInv
  <2>2. ASSUME NEW h \in 1..hops, NEW i \in 1..Len(back'[h]),
               back'[h][i].req = response[r][n][1]
        PROVE  response[r][n][2] < back'[h][i].seq
    <3>1. PICK k \in 1..hops : \E j \in 1..Len(back[k]) : Same(back'[h][i], back[k][j])
      BY Zenon DEF Derived
    <3>2. PICK j \in 1..Len(back[k]) : Same(back'[h][i], back[k][j])
      BY Zenon, <3>1
    <3> QED
      BY Zenon, <2>1, <2>2, <3>2 DEF Past, Same
  <2> QED
    BY Zenon, <2>1, <2>2 DEF Past
<1> QED
  BY Zenon, <1>1, <1>2 DEF OrderInv

(* The exit numbers the cells of a response as it writes them.             *)
LEMMA OrderWrite ==
    ASSUME TypeOK, OrderInv, NEW r \in Requests, Exits(r)
    PROVE  OrderInv'
<1>0. /\ \A h \in 1..hops : \A i \in 1..Len(back[h]) : back[h][i] \in Cells
      /\ \A q \in Requests : \A i \in 1..Len(response[q]) :
            response[q][i] \in Requests \X Nat
      /\ \A q \in Requests : sent[q] \in Nat
  BY Zenon, CellTypes
<1>1. /\ job[r] \in {"run", "ending"} /\ response' = response
      /\ \A q \in Requests \ {r} : job'[q] = job[q] /\ sent'[q] = sent[q]
      /\ \/ \E c \in Cells : Writes(r, c)
         \/ job'[r] = "ending" /\ UNCHANGED <<back, sent>>
  BY Zenon DEF Exits
<1>2. job'[r] # "none" /\ sent'[r] \in {sent[r], sent[r] + 1}
  BY Zenon, <1>1 DEF Writes
<1> DEFINE Kept(d) ==
             /\ job'[d.req] # "none"
             /\ d.cmd = "RelayDone" => job'[d.req] = "done" /\ d.seq = sent'[d.req] + 1
             /\ d.cmd = "Relay" => d.seq <= sent'[d.req]
<1>3. ASSUME NEW h \in 1..hops, NEW i \in 1..Len(back[h])
      PROVE  /\ back[h][i].req = r => back[h][i].seq < sent[r] + 1
             /\ Kept(back[h][i])
  <2>1. Written(back[h][i])
    BY Zenon DEF OrderInv
  <2>2. /\ back[h][i].cmd \in {"Relay", "RelayDone"} /\ back[h][i].req \in Requests
        /\ back[h][i].seq \in Nat
    BY Zenon, <1>0 DEF Cells
  <2>3. CASE back[h][i].req = r
    <3>1. back[h][i].cmd = "Relay" /\ back[h][i].seq <= sent[r]
      BY Zenon, <1>1, <2>1, <2>2, <2>3 DEF Written
    <3>2. back[h][i].seq < sent[r] + 1 /\ back[h][i].seq <= sent'[r]
      BY <1>0, <1>2, <2>2, <3>1
    <3> QED
      BY Zenon, <1>2, <2>3, <3>1, <3>2
  <2>4. CASE back[h][i].req # r
    BY Zenon, <1>1, <2>1, <2>2, <2>4 DEF Written
  <2> QED
    BY Zenon, <2>3, <2>4
<1>4. ASSUME NEW q \in Requests, NEW n \in 1..Len(response[q])
      PROVE  /\ response[q][n][2] <= sent'[response[q][n][1]]
             /\ response[q][n][1] = r => response[q][n][2] < sent[r] + 1
             /\ \A h \in 1..hops : \A i \in 1..Len(back[h]) :
                   back[h][i].req = response[q][n][1] => response[q][n][2] < back[h][i].seq
  <2> DEFINE x == response[q][n]
  <2>1. x[1] \in Requests /\ x[2] \in Nat /\ Past(x)
    BY Zenon, <1>0 DEF OrderInv
  <2> HIDE DEF x
  <2>2. /\ x[2] <= sent[x[1]]
        /\ \A h \in 1..hops : \A i \in 1..Len(back[h]) :
              back[h][i].req = x[1] => x[2] < back[h][i].seq
    BY Zenon, <2>1 DEF Past
  <2>3. CASE x[1] = r
    <3>1. x[2] <= sent'[r] /\ x[2] < sent[r] + 1
      BY <1>0, <1>2, <2>1, <2>2, <2>3
    <3> QED
      BY Zenon, <2>2, <2>3, <3>1 DEF x
  <2>4. CASE x[1] # r
    <3>1. sent'[x[1]] = sent[x[1]]
      BY Zenon, <1>1, <2>1, <2>4
    <3> QED
      BY Zenon, <2>2, <2>4, <3>1 DEF x
  <2> QED
    BY Zenon, <2>3, <2>4
<1>5. CASE back' = back
  <2>1. \A h \in 1..hops : \A i \in 1..Len(back'[h]) : Written(back[h][i])'
    BY Zenon, <1>3, <1>5 DEF Written
  <2>2. \A q \in Requests : \A n \in 1..Len(response'[q]) : Past(response[q][n])'
    BY <1>1, <1>4, <1>5 DEF Past
  <2> QED
    BY Zenon, <1>5, <2>1, <2>2 DEF OrderInv
<1>6. ASSUME NEW c \in Cells, Writes(r, c), Added(back', back, hops, c)
      PROVE  OrderInv'
  <2>1. c.req = r /\ c.seq = sent[r] + 1 /\ Written(c)'
    <3>1. c.req = r /\ c.seq = sent[r] + 1 /\ sent[r] \in Nat
      BY Zenon, <1>0, <1>6 DEF Writes
    <3>2. /\ c.cmd = "Relay" => sent'[r] = sent[r] + 1
          /\ c.cmd = "RelayDone" => sent'[r] = sent[r] /\ job'[r] = "done"
      BY Zenon, <1>6 DEF Writes
    <3> QED
      BY <1>2, <3>1, <3>2 DEF Written
  <2>2. Sorted(back')
    BY <1>3, <1>6, <2>1, WriteOrder DEF OrderInv
  <2>3. \A h \in 1..hops : \A i \in 1..Len(back'[h]) :
            \/ i \in 1..Len(back[h]) /\ back'[h][i] = back[h][i]
            \/ back'[h][i] = c
    <3>1. hops \in 1..hops
      BY DEF hops
    <3> QED
      BY Zenon, <1>6, <3>1 DEF Added
  <2>4. \A h \in 1..hops : \A i \in 1..Len(back'[h]) : Written(back[h][i])'
    <3> SUFFICES ASSUME NEW h \in 1..hops, NEW i \in 1..Len(back'[h])
                 PROVE  Written(back[h][i])'
      BY Zenon
    <3>1. CASE back'[h][i] = c
      BY Zenon, <2>1, <3>1 DEF Written
    <3>2. CASE i \in 1..Len(back[h]) /\ back'[h][i] = back[h][i]
      BY Zenon, <1>3, <3>2 DEF Written
    <3> QED
      BY Zenon, <2>3, <3>1, <3>2
  <2>5. ASSUME NEW q \in Requests, NEW n \in 1..Len(response[q])
        PROVE  Past(response[q][n])'
    <3> DEFINE x == response[q][n]
    <3>1. /\ x[2] <= sent'[x[1]] /\ (x[1] = r => x[2] < c.seq)
          /\ \A h \in 1..hops : \A i \in 1..Len(back[h]) :
                back[h][i].req = x[1] => x[2] < back[h][i].seq
      BY Zenon, <1>4, <2>1
    <3>2. response'[q][n] = x
      BY Zenon, <1>1
    <3> HIDE DEF x
    <3>3. \A h \in 1..hops : \A i \in 1..Len(back'[h]) :
             back'[h][i].req = x[1] => x[2] < back'[h][i].seq
      BY Zenon, <2>1, <2>3, <3>1
    <3> QED
      BY Zenon, <3>1, <3>2, <3>3 DEF Past
  <2> QED
    BY Zenon, <1>1, <2>2, <2>4, <2>5 DEF OrderInv
<1> QED
  BY Zenon, <1>1, <1>5, <1>6 DEF Writes

(* A chunk that is read comes after all read of its response, and before   *)
(* all still on their way.                                                 *)
LEMMA OrderRead ==
    ASSUME RInv, NEW r \in Requests, NEW c \in Cells, Reads(r, c), TypeOK'
    PROVE  OrderInv' /\ ChunksOnceInOrder'
<1> DEFINE x == <<c.req, c.seq>>
<1>0. /\ TypeOK /\ OrderInv /\ ChunksOnceInOrder
      /\ sent' = sent /\ job' = job /\ 1 \in 1..hops
  BY DEF RInv, Reads, hops
<1>1. /\ Taken(back', back, 1) /\ c = back[1][1]
      /\ Derived(back', back) /\ (Sorted(back) => Sorted(back'))
      /\ \A q \in Requests \ {r} : response'[q] = response[q]
      /\ \/ c.cmd = "Relay" /\ response'[r] = Append(response[r], x)
         \/ c.cmd = "RelayDone" /\ response'[r] = response[r]
  BY Zenon DEF Reads
<1>2. /\ \A q \in Requests : \A i \in 1..Len(response[q]) :
            response[q][i] \in Requests \X Nat
      /\ \A q \in Requests : sent[q] \in Nat
  BY Zenon, <1>0, CellTypes
<1>3. Sorted(back) /\ Sorted(back') /\ 1 \in 1..Len(back[1]) /\ Written(c)
  BY Zenon, <1>0, <1>1 DEF OrderInv, Taken
<1>4. ASSUME NEW h \in 1..hops, NEW i \in 1..Len(back'[h])
       PROVE  \E p \in 1..Len(back[h]) : back'[h][i] = back[h][p] /\ (h = 1 => p = i + 1)
  <2>1. CASE h = 1
    BY Zenon, <1>1, <2>1 DEF Taken
  <2>2. CASE h # 1
    BY Zenon, <1>1, <2>2 DEF Taken
  <2> QED
    BY Zenon, <2>1, <2>2
<1>5. CASE c.cmd = "RelayDone"
  <2>1. response' = response
    <3>1. \A q \in Requests : response'[q] = response[q]
      BY Zenon, <1>1, <1>5
    <3> QED
      BY <1>0, <3>1 DEF TypeOK
  <2>2. OrderInv'
    BY Zenon, <1>0, <1>1, <1>3, <2>1, OrderFrame
  <2> QED
    BY <1>0, <2>1, <2>2 DEF ChunksOnceInOrder
<1>6. CASE c.cmd = "Relay"
  <2>1. c.req \in Requests /\ c.seq \in Nat /\ c.seq <= sent[c.req]
    BY Zenon, <1>1, <1>3, <1>6 DEF Cells, Written
  <2>2. /\ \A q \in Requests : q # r => response'[q] = response[q]
        /\ response'[r] = Append(response[r], x)
    BY Zenon, <1>0, <1>1, <1>6 DEF TypeOK
  <2>3. response[r] \in Seq(Requests \X Nat) /\ x \in Requests \X Nat
    BY Zenon, <1>0, <2>1 DEF TypeOK
  <2>4. /\ Len(response[r]) \in Nat /\ Len(response'[r]) = Len(response[r]) + 1
        /\ \A n \in 1..Len(response'[r]) :
              \/ n \in 1..Len(response[r]) /\ response'[r][n] = response[r][n]
              \/ n = Len(response[r]) + 1 /\ response'[r][n] = x
    <3>1. /\ Len(Append(response[r], x)) = Len(response[r]) + 1
          /\ Len(response[r]) \in Nat
          /\ \A n \in 1..Len(response[r]) : Append(response[r], x)[n] = response[r][n]
          /\ Append(response[r], x)[Len(response[r]) + 1] = x
      BY <2>3
    <3>2. \A n \in 1..(Len(response[r]) + 1) :
             n \in 1..Len(response[r]) \/ n = Len(response[r]) + 1
      BY <3>1
    <3> QED
      BY Zenon, <2>2, <3>1, <3>2
  <2>5. \A q \in Requests : \A n \in 1..Len(response'[q]) :
           \/ n \in 1..Len(response[q]) /\ response'[q][n] = response[q][n]
           \/ q = r /\ n = Len(response[r]) + 1 /\ response'[q][n] = x
    BY Zenon, <2>2, <2>4
  <2> HIDE DEF x
  <2>6. \A q \in Requests : \A n \in 1..Len(response[q]) :
           response[q][n][1] = c.req => response[q][n][2] < c.seq
    BY Zenon, <1>0, <1>1, <1>3 DEF OrderInv, Past
  <2>7. x[1] = c.req /\ x[2] = c.seq
    BY Zenon DEF x
  <2>8. \A h \in 1..hops : \A i \in 1..Len(back'[h]) :
           back'[h][i].req = c.req => c.seq < back'[h][i].seq
    <3> SUFFICES ASSUME NEW h \in 1..hops, NEW i \in 1..Len(back'[h]),
                        back'[h][i].req = c.req
                 PROVE  c.seq < back'[h][i].seq
      BY Zenon
    <3>1. PICK p \in 1..Len(back[h]) : back'[h][i] = back[h][p] /\ (h = 1 => p = i + 1)
      BY Zenon, <1>4
    <3>2. Before(1, 1, h, p)
      <4>1. CASE h = 1
        BY <3>1, <4>1 DEF Before
      <4>2. CASE h # 1
        BY <4>2 DEF Before, hops
      <4> QED
        BY Zenon, <4>1, <4>2
    <3>3. Same(c, back[1][1]) /\ Same(back'[h][i], back[h][p])
      BY Zenon, <1>1, <3>1 DEF Same
    <3>4. Sorted(back) /\ 1 \in 1..hops /\ 1 \in 1..Len(back[1])
      BY Zenon, <1>0, <1>3
    <3> QED
      BY Zenon, <3>2, <3>3, <3>4, InOrder
  <2>9. ASSUME NEW q \in Requests, NEW n \in 1..Len(response'[q])
        PROVE  Past(response[q][n])'
    <3>1. CASE n \in 1..Len(response[q]) /\ response'[q][n] = response[q][n]
      <4>1. Past(response[q][n])
        BY Zenon, <1>0, <3>1 DEF OrderInv
      <4>2. \A h \in 1..hops : \A i \in 1..Len(back'[h]) :
               back'[h][i].req = response[q][n][1] => response[q][n][2] < back'[h][i].seq
        <5>1. \A h \in 1..hops : \A j \in 1..Len(back[h]) :
                 back[h][j].req = response[q][n][1] => response[q][n][2] < back[h][j].seq
          BY Zenon, <4>1 DEF Past
        <5> SUFFICES ASSUME NEW h \in 1..hops, NEW i \in 1..Len(back'[h])
                     PROVE  back'[h][i].req = response[q][n][1]
                               => response[q][n][2] < back'[h][i].seq
          BY Zenon
        <5>2. PICK j \in 1..Len(back[h]) : back'[h][i] = back[h][j]
          BY Zenon, <1>4
        <5> QED
          BY Zenon, <5>1, <5>2
      <4> QED
        BY Zenon, <1>0, <3>1, <4>1, <4>2 DEF Past
    <3>2. CASE response'[q][n] = x
      BY Zenon, <1>0, <2>1, <2>7, <2>8, <3>2 DEF Past
    <3> QED
      BY Zenon, <2>5, <3>1, <3>2
  <2>10. OrderInv'
    <3>1. \A h \in 1..hops : \A i \in 1..Len(back'[h]) : Written(back[h][i])'
      <4> SUFFICES ASSUME NEW h \in 1..hops, NEW i \in 1..Len(back'[h])
                   PROVE  Written(back[h][i])'
        BY Zenon
      <4>1. PICK j \in 1..Len(back[h]) : back'[h][i] = back[h][j]
        BY Zenon, <1>4
      <4>2. Written(back[h][j])
        BY Zenon, <1>0 DEF OrderInv
      <4> QED
        BY Zenon, <1>0, <4>1, <4>2 DEF Written
    <3> QED
      BY Zenon, <1>3, <2>9, <3>1 DEF OrderInv
  <2>11. ASSUME NEW q \in Requests, NEW p \in Requests,
                NEW i \in 1..Len(response'[q]), NEW j \in 1..Len(response'[p]),
                response'[q][i] = response'[p][j]
         PROVE  q = p /\ i = j
    <3>1. ASSUME NEW s \in Requests, NEW n \in 1..Len(response[s])
          PROVE  response[s][n] # x
      <4>1. response[s][n][2] \in Nat
        BY Zenon, <1>2, <3>1
      <4>2. response[s][n][1] = c.req => response[s][n][2] < c.seq
        BY Zenon, <2>6, <3>1
      <4> QED
        BY ONLY <2>1, <2>7, <4>1, <4>2
    <3>2. i \in 1..Len(response[q]) /\ j \in 1..Len(response[p])
             /\ response[q][i] = response[p][j] => q = p /\ i = j
      BY <1>0 DEF ChunksOnceInOrder
    <3>3. CASE response'[q][i] = x
      <4>1. response'[p][j] = x
        BY Zenon, <2>11, <3>3
      <4>2. ASSUME NEW s \in Requests, NEW n \in 1..Len(response'[s]), response'[s][n] = x
            PROVE  s = r /\ n = Len(response[r]) + 1
        BY Zenon, <2>5, <3>1, <4>2
      <4> QED
        BY Zenon, <3>3, <4>1, <4>2
    <3>4. CASE response'[q][i] # x
      <4>1. response'[p][j] # x
        BY Zenon, <2>11, <3>4
      <4>2. i \in 1..Len(response[q]) /\ response'[q][i] = response[q][i]
        BY Zenon, <2>5, <3>4
      <4>3. j \in 1..Len(response[p]) /\ response'[p][j] = response[p][j]
        BY Zenon, <2>5, <4>1
      <4> QED
        BY Zenon, <2>11, <3>2, <4>2, <4>3
    <3> QED
      BY Zenon, <3>3, <3>4
  <2>12. ASSUME NEW q \in Requests, NEW i \in 1..Len(response'[q]),
                NEW j \in 1..Len(response'[q]), i < j,
                response'[q][i][1] = response'[q][j][1]
         PROVE  response'[q][i][2] < response'[q][j][2]
    <3>1. CASE j \in 1..Len(response[q]) /\ response'[q][j] = response[q][j]
      <4>1. i \in 1..Len(response[q]) /\ response'[q][i] = response[q][i]
        BY <2>4, <2>5, <2>12, <3>1
      <4> QED
        BY Zenon, <1>0, <2>12, <3>1, <4>1 DEF ChunksOnceInOrder
    <3>2. CASE q = r /\ j = Len(response[r]) + 1 /\ response'[q][j] = x
      <4>1. i \in 1..Len(response[q]) /\ response'[q][i] = response[q][i]
        BY <2>4, <2>5, <2>12, <3>2
      <4> QED
        BY Zenon, <2>6, <2>7, <2>12, <3>2, <4>1
    <3> QED
      BY Zenon, <2>5, <3>1, <3>2
  <2> QED
    BY Zenon, <2>10, <2>11, <2>12 DEF ChunksOnceInOrder
<1> QED
  BY Zenon, <1>1, <1>5, <1>6


(* Steps that send nothing to the exit, nor start or end its goroutines,   *)
(* whatever is lost on the way there.                                      *)
LEMMA OnceFrame ==
    ASSUME TypeOK, OnceInv, UNCHANGED <<job, sent>>,
           \A i \in 1..Len(toExit') : i \in 1..Len(toExit) /\ toExit'[i] = toExit[i],
           \A r \in Requests :
              state'[r] = "new" => /\ state[r] = "new" /\ response'[r] = response[r]
                                   /\ ended'[r] = ended[r]
    PROVE  OnceInv'
<1>1. \A i \in 1..Len(toExit) : toExit[i] \in Requests
  BY DEF TypeOK
<1>2. \A i \in 1..Len(toExit') : job[toExit'[i]] = "none" /\ state'[toExit'[i]] # "new"
  BY <1>1 DEF OnceInv
<1>3. \A i, j \in 1..Len(toExit') : toExit'[i] = toExit'[j] => i = j
  BY DEF OnceInv
<1> QED
  BY Zenon, <1>2, <1>3 DEF OnceInv

(* A request is sent once, and starts one goroutine of the exit.           *)
LEMMA OnceStep ==
    ASSUME TypeOK, OnceInv, [Next]_vars
    PROVE  OnceInv'
<1>0. /\ toExit \in Seq(Requests) /\ Len(toExit) \in Nat
      /\ \A i \in 1..Len(toExit) : toExit[i] \in Requests
  BY DEF TypeOK
<1>1. ASSUME NEW r \in Requests, Sends(r)
      PROVE  OnceInv'
  <2>1. /\ state[r] = "new" /\ job[r] = "none" /\ UNCHANGED <<job, sent, response>>
        /\ state'[r] # "new"
        /\ \A q \in Requests \ {r} : state'[q] = state[q] /\ ended'[q] = ended[q]
    BY Zenon, <1>1 DEF Sends, OnceInv
  <2>2. CASE toExit' = toExit
    BY Zenon, <2>1, <2>2, OnceFrame
  <2>3. CASE toExit' = Append(toExit, r)
    <3>1. /\ Len(toExit') = Len(toExit) + 1 /\ toExit'[Len(toExit) + 1] = r
          /\ \A i \in 1..Len(toExit) : toExit'[i] = toExit[i]
      BY <1>0, <2>3
    <3>2. \A i \in 1..Len(toExit') :
             \/ i \in 1..Len(toExit) /\ toExit'[i] = toExit[i] /\ toExit[i] # r
             \/ i = Len(toExit) + 1 /\ toExit'[i] = r
      BY <1>0, <2>1, <3>1 DEF OnceInv
    <3>3. \A i, j \in 1..Len(toExit') : toExit'[i] = toExit'[j] => i = j
      BY Zenon, <3>2 DEF OnceInv
    <3>4. \A i \in 1..Len(toExit') :
             job'[toExit'[i]] = "none" /\ state'[toExit'[i]] # "new"
      BY <1>0, <2>1, <3>2 DEF OnceInv
    <3> QED
      BY Zenon, <2>1, <3>3, <3>4 DEF OnceInv
  <2> QED
    BY Zenon, <1>1, <2>2, <2>3 DEF Sends
<1>2. ASSUME NEW r \in Requests, NEW c \in Cells, Reads(r, c)
      PROVE  OnceInv'
  <2>1. /\ UNCHANGED <<toExit, job, sent>> /\ state'[r] # "new"
        /\ \A q \in Requests \ {r} : /\ state'[q] = state[q] /\ ended'[q] = ended[q]
                                     /\ response'[q] = response[q]
    BY Zenon, <1>2 DEF Reads
  <2> QED
    BY Zenon, <2>1, OnceFrame
<1>3. ASSUME NEW r \in Requests, Exits(r)
      PROVE  OnceInv'
  <2>1. /\ job[r] \in {"run", "ending"} /\ job'[r] # "none"
        /\ \A q \in Requests \ {r} : job'[q] = job[q] /\ sent'[q] = sent[q]
        /\ UNCHANGED <<toExit, state, response, ended>>
    BY Zenon, <1>3 DEF Exits, Writes
  <2>2. \A i \in 1..Len(toExit) : job'[toExit[i]] = "none"
    BY Zenon, <1>0, <2>1 DEF OnceInv
  <2>3. \A q \in Requests : /\ job'[q] = "none" => sent'[q] = 0
                            /\ state[q] = "new" => job'[q] = "none"
    BY Zenon, <2>1 DEF OnceInv
  <2> QED
    BY Zenon, <2>1, <2>2, <2>3 DEF OnceInv
<1>4. ASSUME NEW r \in Requests, Starts(r)
      PROVE  OnceInv'
  <2>1. /\ job'[r] = "run" /\ \A q \in Requests \ {r} : job'[q] = job[q]
        /\ 1 \in 1..Len(toExit) /\ toExit[1] = r
        /\ UNCHANGED <<state, response, ended, sent>>
    BY Zenon, <1>4 DEF Starts
  <2>2. \A i \in 1..Len(toExit') : /\ i + 1 \in 1..Len(toExit) /\ i + 1 # 1
                                   /\ toExit'[i] = toExit[i + 1]
    BY Zenon, <1>4 DEF Starts
  <2>3. ASSUME NEW i \in 1..Len(toExit'), NEW j \in 1..Len(toExit'), toExit'[i] = toExit'[j]
        PROVE  i = j
    <3>1. /\ i + 1 \in 1..Len(toExit) /\ j + 1 \in 1..Len(toExit)
          /\ toExit[i + 1] = toExit[j + 1]
      BY Zenon, <2>3, <2>2
    <3>2. i + 1 = j + 1
      BY Zenon, <3>1 DEF OnceInv
    <3> QED
      BY <3>2
  <2>4. \A i \in 1..Len(toExit') : toExit'[i] # r
    BY <2>1, <2>2 DEF OnceInv
  <2>5. \A i \in 1..Len(toExit') :
           job'[toExit'[i]] = "none" /\ state'[toExit'[i]] # "new"
    BY <1>0, <2>1, <2>4, <2>2 DEF OnceInv
  <2>6. state[r] # "new"
    BY Zenon, <2>1 DEF OnceInv
  <2> QED
    BY <2>1, <2>3, <2>5, <2>6 DEF OnceInv
<1>5. CASE Passes
  BY Zenon, <1>5, OnceFrame DEF Passes
<1> QED
  BY Zenon, <1>1, <1>2, <1>3, <1>4, <1>5, StepKinds

(* Every step keeps the order of what is on its way and of what is read.   *)
LEMMA OrderStep == RInv /\ [Next]_vars => RInv'
<1> SUFFICES ASSUME RInv, [Next]_vars PROVE RInv'
  BY Zenon
<1>0. TypeOK /\ OrderInv /\ ChunksOnceInOrder /\ OnceInv /\ Sorted(back) /\ TypeOK' /\ OnceInv'
  BY Zenon, TypeStep, OnceStep DEF RInv, OrderInv
<1>1. Derived(back, back)
  BY Zenon DEF Derived, Same
<1>2. ASSUME NEW r \in Requests, Sends(r) PROVE OrderInv' /\ response' = response
  BY Zenon, <1>0, <1>1, <1>2, OrderFrame DEF Sends
<1>3. ASSUME NEW r \in Requests, Starts(r) PROVE OrderInv' /\ response' = response
  <2>1. job[r] = "none"
    BY Zenon, <1>0, <1>3 DEF Starts, OnceInv
  <2>2. \A q \in Requests : job[q] # "none" => job'[q] = job[q]
    BY Zenon, <1>3, <2>1 DEF Starts
  <2> QED
    BY Zenon, <1>0, <1>1, <1>3, <2>2, OrderFrame DEF Starts
<1>4. ASSUME Passes PROVE OrderInv' /\ response' = response
  BY Zenon, <1>0, <1>4, OrderFrame DEF Passes
<1>5. ASSUME NEW r \in Requests, Exits(r) PROVE OrderInv' /\ response' = response
  BY Zenon, <1>0, <1>5, OrderWrite DEF Exits
<1>6. ASSUME NEW r \in Requests, NEW c \in Cells, Reads(r, c)
      PROVE  OrderInv' /\ ChunksOnceInOrder'
  BY Zenon, <1>0, <1>6, OrderRead
<1>7. response' = response => ChunksOnceInOrder'
  BY <1>0 DEF ChunksOnceInOrder
<1>8. OrderInv' /\ ChunksOnceInOrder'
  BY Zenon, <1>0, <1>2, <1>3, <1>4, <1>5, <1>6, <1>7, StepKinds
<1> QED
  BY Zenon, <1>0, <1>8 DEF RInv

(* A fresh circuit has nothing on its way and nothing read.                *)
LEMMA OrderInit == Init => RInv
<1> SUFFICES ASSUME Init PROVE RInv
  BY Zenon
<1>1. OrderInv
  BY DEF Init, OrderInv, Sorted
<1>2. ChunksOnceInOrder
  BY DEF Init, ChunksOnceInOrder
<1>3. OnceInv
  BY DEF Init, OnceInv
<1> QED
  BY Zenon, <1>1, <1>2, <1>3, TypeInit DEF RInv

(* No chunk reaches two readers of the shared connection, or one twice,    *)
(* and each reader gets the chunks of one response in the exit's order,    *)
(* for any number of requests, however they overlap and whatever frames    *)
(* sendRequest's readers tear.                                             *)
THEOREM ChunksInOrder == Spec => []ChunksOnceInOrder
<1>1. RInv => ChunksOnceInOrder
  BY Zenon DEF RInv
<1> QED
  BY <1>1, OrderInit, OrderStep, PTL DEF Spec

-----------------------------------------------------------------------------
(* A response to a request that is alone.                                  *)

(* A request that no longer occupies the circuit does so never again.      *)
LEMMA BusyStep ==
    ASSUME TypeOK, NEW q \in Requests, Busy(q)',
           \/ Passes
           \/ \E r \in Requests : Exits(r) \/ Starts(r)
           \/ \E r \in Requests, c \in Cells : Reads(r, c)
    PROVE  Busy(q)
<1> DEFINE OnItsWay == \E i \in 1..Len(toExit) : toExit[i] = q
<1>1. ASSUME Reading(q)' => Reading(q), OnItsWay' => OnItsWay,
             job'[q] \in {"run", "ending"} => Busy(q), InBack(q)' => Busy(q)
      PROVE  Busy(q)
  BY Zenon, <1>1 DEF Busy
<1> HIDE DEF OnItsWay
<1>2. ASSUME Derived(back', back) PROVE InBack(q)' => Busy(q)
  <2>1. InBack(q)' => InBack(q)
    BY ZenonT(30), <1>2 DEF InBack, Derived, Same
  <2> QED
    BY Zenon, <2>1 DEF Busy
<1>3. CASE Passes
  <2>1. /\ (Reading(q)' => Reading(q)) /\ job' = job /\ Derived(back', back)
        /\ \A i \in 1..Len(toExit') : i \in 1..Len(toExit) /\ toExit'[i] = toExit[i]
    BY Zenon, <1>3 DEF Passes
  <2>2. OnItsWay' => OnItsWay
    BY Zenon, <2>1 DEF OnItsWay
  <2>3. job'[q] \in {"run", "ending"} => Busy(q)
    BY Zenon, <2>1 DEF Busy
  <2> QED
    BY Zenon, <1>1, <1>2, <2>1, <2>2, <2>3
<1>4. ASSUME NEW r \in Requests, NEW c \in Cells, Reads(r, c) PROVE Busy(q)
  <2>1. UNCHANGED <<toExit, job>> /\ Derived(back', back)
    BY Zenon, <1>4 DEF Reads
  <2>2. Reading(q)' => Reading(q)
    BY Zenon, <1>4 DEF Reads, Reading
  <2>3. job'[q] \in {"run", "ending"} => Busy(q)
    BY Zenon, <2>1 DEF Busy
  <2>4. OnItsWay' => OnItsWay
    BY Zenon, <2>1 DEF OnItsWay
  <2> QED
    BY Zenon, <1>1, <1>2, <2>1, <2>2, <2>3, <2>4
<1>5. ASSUME NEW r \in Requests, Starts(r) PROVE Busy(q)
  <2>1. /\ UNCHANGED <<state, back>> /\ 1 \in 1..Len(toExit) /\ toExit[1] = r
        /\ \A p \in Requests \ {r} : job'[p] = job[p]
        /\ \A i \in 1..Len(toExit') : i + 1 \in 1..Len(toExit) /\ toExit'[i] = toExit[i + 1]
    BY Zenon, <1>5 DEF Starts
  <2>2. OnItsWay' => OnItsWay
    BY Zenon, <2>1 DEF OnItsWay
  <2>3. Busy(r)
    BY Zenon, <2>1 DEF Busy
  <2>4. job'[q] \in {"run", "ending"} => Busy(q)
    BY Zenon, <2>1, <2>3 DEF Busy
  <2>5. (Reading(q)' => Reading(q)) /\ (InBack(q)' => Busy(q))
    BY Zenon, <2>1 DEF Reading, InBack, Busy
  <2> QED
    BY Zenon, <1>1, <2>2, <2>4, <2>5
<1>6. ASSUME NEW r \in Requests, Exits(r) PROVE Busy(q)
  <2>1. /\ UNCHANGED <<toExit, state>> /\ job[r] \in {"run", "ending"}
        /\ \A p \in Requests \ {r} : job'[p] = job[p]
        /\ back' = back \/ \E c \in Cells : c.req = r /\ Added(back', back, hops, c)
    BY Zenon, <1>6 DEF Exits, Writes
  <2>2. Busy(r)
    BY Zenon, <2>1 DEF Busy
  <2>3. job'[q] \in {"run", "ending"} => Busy(q)
    BY Zenon, <2>1, <2>2 DEF Busy
  <2>4. (Reading(q)' => Reading(q)) /\ (OnItsWay' => OnItsWay)
    BY Zenon, <2>1 DEF Reading, OnItsWay
  <2>5. \A h \in 1..hops : \A i \in 1..Len(back'[h]) :
           \/ i \in 1..Len(back[h]) /\ back'[h][i] = back[h][i]
           \/ back'[h][i].req = r
    <3>1. hops \in 1..hops
      BY DEF hops
    <3>2. ASSUME NEW c \in Cells, c.req = r, Added(back', back, hops, c)
          PROVE  \A h \in 1..hops : \A i \in 1..Len(back'[h]) :
                    \/ i \in 1..Len(back[h]) /\ back'[h][i] = back[h][i]
                    \/ back'[h][i] = c
      BY Zenon, <3>1, <3>2 DEF Added
    <3>3. CASE back' = back
      BY Zenon, <3>3
    <3> QED
      BY Zenon, <2>1, <3>2, <3>3
  <2>6. InBack(q)' => InBack(q) \/ q = r
    BY Zenon, <2>5 DEF InBack
  <2>7. InBack(q)' => Busy(q)
    BY Zenon, <2>2, <2>6 DEF Busy
  <2> QED
    BY Zenon, <1>1, <2>3, <2>4, <2>7
<1> QED
  BY Zenon, <1>3, <1>4, <1>5, <1>6

(* sendRequest marks those that share the circuit.                         *)
LEMMA AloneStep ==
    ASSUME TypeOK, AloneInv, [Next]_vars
    PROVE  AloneInv' /\ overlapped \subseteq overlapped'
<1>1. CASE \/ Passes
           \/ \E r \in Requests : Exits(r) \/ Starts(r)
           \/ \E r \in Requests, c \in Cells : Reads(r, c)
  <2>1. overlapped' = overlapped
    BY Zenon, <1>1 DEF Passes, Exits, Starts, Reads
  <2>2. \A q \in Requests : Busy(q)' => Busy(q)
    BY Zenon, <1>1, BusyStep
  <2> QED
    BY Zenon, <2>1, <2>2 DEF AloneInv
<1>2. ASSUME NEW r \in Requests, Sends(r)
      PROVE  AloneInv' /\ overlapped \subseteq overlapped'
  <2>1. /\ toExit \in Seq(Requests) /\ UNCHANGED <<job, back>>
        /\ \A q \in Requests \ {r} : state'[q] = state[q]
        /\ toExit' = toExit \/ toExit' = Append(toExit, r)
        /\ overlapped \subseteq overlapped'
    BY Zenon, <1>2 DEF Sends, TypeOK
  <2>2. \A q \in Requests \ {r} :
           (\E i \in 1..Len(toExit') : toExit'[i] = q)
              => \E i \in 1..Len(toExit) : toExit[i] = q
    BY <2>1
  <2>3. \A q \in Requests \ {r} : Busy(q)' => Busy(q)
    BY <2>1, <2>2 DEF Busy, Reading, InBack
  <2>4. CASE ~ Reading(r)' /\ UNCHANGED <<toExit, overlapped>>
    <3>1. \A q \in Requests : Busy(q)' => Busy(q)
      BY Zenon, <2>1, <2>3, <2>4 DEF Busy, InBack
    <3> QED
      BY Zenon, <2>4, <3>1 DEF AloneInv
  <2>5. CASE \A q \in Requests \ {r} : Busy(q) => q \in overlapped' /\ r \in overlapped'
    BY Zenon, <2>1, <2>3, <2>5 DEF AloneInv
  <2> QED
    BY Zenon, <1>2, <2>1, <2>4, <2>5 DEF Sends
<1> QED
  BY Zenon, <1>1, <1>2, StepKinds

(* Sums of lengths.                                                        *)
LEMMA Sums ==
    \A a, b, c \in Nat : a + b \in Nat /\ a + b + c \in Nat
OBVIOUS

(* Numbers on a connection that a cell is taken from, or written to.       *)
LEMMA FollowTake ==
    ASSUME NEW s, NEW s2, NEW n \in Nat, Follow(s, n), Len(s) \in Nat,
           \A i \in 1..Len(s2) : i + 1 \in 1..Len(s) /\ s2[i] = s[i + 1]
    PROVE  Follow(s2, n + 1)
<1> SUFFICES ASSUME NEW i \in 1..Len(s2) PROVE s2[i].seq = (n + 1) + i
  BY Zenon DEF Follow
<1>1. i + 1 \in 1..Len(s) /\ s2[i] = s[i + 1] /\ i + 1 \in Nat /\ i \in Int
  OBVIOUS
<1>2. s[i + 1].seq = n + (i + 1)
  BY Zenon, <1>1 DEF Follow
<1> QED
  BY <1>1, <1>2

LEMMA FollowAdd ==
    ASSUME NEW s, NEW s2, NEW n, NEW c, Follow(s, n), c.seq = n + (Len(s) + 1),
           \A i \in 1..Len(s2) : \/ i \in 1..Len(s) /\ s2[i] = s[i]
                                 \/ i = Len(s) + 1 /\ s2[i] = c
    PROVE  Follow(s2, n)
BY Zenon DEF Follow

(* The relays of the circuit.                                              *)
LEMMA ThreeHops ==
    /\ 1 \in 1..hops /\ 2 \in 1..hops /\ 3 \in 1..hops /\ hops = 3
    /\ \A g \in 1..hops : g = 1 \/ g = 2 \/ g = 3
    /\ \A g \in 1..(hops - 1) : g = 1 \/ g = 2
    /\ 1 \in 1..(hops - 1) /\ 2 \in 1..(hops - 1)
BY DEF hops

(* The lengths are numbers.                                                *)
LEMMA Lengths ==
    ASSUME TypeOK
    PROVE  /\ Len(back[1]) \in Nat /\ Len(back[2]) \in Nat /\ Len(back[3]) \in Nat
           /\ \A r \in Requests : Len(response[r]) \in Nat /\ sent[r] \in Nat
<1>1. /\ back[1] \in Seq(Cells) /\ back[2] \in Seq(Cells) /\ back[3] \in Seq(Cells)
      /\ \A r \in Requests : response[r] \in Seq(Requests \X Nat)
  BY Zenon, ThreeHops DEF TypeOK
<1> QED
  BY SMTT(30), <1>1 DEF TypeOK

(* Steps that leave the cells and the numbers alone, even when a           *)
(* connection or a forwarder is lost.                                      *)
LEMMA ContinuesFrame ==
    ASSUME NEW r \in Requests, Continues(r), back' = back,
           response'[r] = response[r], sent'[r] = sent[r],
           (job'[r] = "done") <=> (job[r] = "done"),
           \A k \in {1, 2} : Open(k)' => Open(k), lost \subseteq lost'
    PROVE  Continues(r)'
BY Zenon DEF Continues

(* ReadBody by r itself.                                                   *)
LEMMA ContinuesRead ==
    ASSUME TypeOK, NEW r \in Requests, Continues(r), Taken(back', back, 1),
           UNCHANGED <<sent, job, alive, lost>>, Len(response'[r]) = Len(response[r]) + 1
    PROVE  Continues(r)'
<1>0. /\ Len(back[1]) \in Nat /\ Len(back[2]) \in Nat /\ Len(back[3]) \in Nat
      /\ Len(response[r]) \in Nat /\ sent[r] \in Nat
  BY Zenon, Lengths
<1>1. /\ back'[2] = back[2] /\ back'[3] = back[3] /\ Len(back'[1]) = Len(back[1]) - 1
      /\ \A i \in 1..Len(back'[1]) : /\ i + 1 \in 1..Len(back[1])
                                     /\ back'[1][i] = back[1][i + 1]
  BY ThreeHops DEF Taken
<1>2. Follow(back'[1], Len(response[r]) + 1)
  BY Zenon, <1>0, <1>1, FollowTake DEF Continues
<1>3. Len(response'[r]) + Len(back'[1]) = Len(response[r]) + Len(back[1])
  <2> DEFINE a == Len(response[r])
             a2 == Len(response'[r])
             b == Len(back[1])
             b2 == Len(back'[1])
  <2>1. a \in Nat /\ b \in Nat /\ a2 = a + 1 /\ b2 = b - 1
    BY Zenon, <1>0, <1>1
  <2> HIDE DEF a, a2, b, b2
  <2>2. a2 + b2 = a + b
    BY ONLY <2>1
  <2> QED
    BY Zenon, <2>2 DEF a, a2, b, b2
<1>4. (Open(1)' <=> Open(1)) /\ (Open(2)' <=> Open(2))
  BY Zenon DEF Open
<1> QED
  BY Zenon, <1>1, <1>2, <1>3, <1>4 DEF Continues

(* The exit writes the next cell for r.                                    *)
LEMMA ContinuesWrite ==
    ASSUME TypeOK, NEW r \in Requests, Continues(r), job[r] # "done",
           NEW c \in Cells, Writes(r, c), UNCHANGED <<alive, lost, response>>
    PROVE  Continues(r)'
<1>0. /\ Len(back[1]) \in Nat /\ Len(back[2]) \in Nat /\ Len(back[3]) \in Nat
      /\ Len(response[r]) \in Nat /\ sent[r] \in Nat
  BY Zenon, Lengths
<1>1. (Open(1)' <=> Open(1)) /\ (Open(2)' <=> Open(2))
  BY Zenon DEF Open
<1>2. CASE hops \in lost /\ back' = back
  BY Zenon, <1>1, <1>2, ThreeHops DEF Continues
<1>3. CASE hops \notin lost /\ Added(back', back, hops, c)
  <2>1. /\ back'[1] = back[1] /\ back'[2] = back[2] /\ Len(back'[3]) = Len(back[3]) + 1
        /\ \A i \in 1..Len(back'[3]) : \/ i \in 1..Len(back[3]) /\ back'[3][i] = back[3][i]
                                       \/ i = Len(back[3]) + 1 /\ back'[3][i] = c
    BY ThreeHops, <1>3 DEF Added
  <2> DEFINE n3 == Len(response[r]) + Len(back[1]) + Len(back[2])
  <2>2. n3 \in Nat
    BY Zenon, <1>0, Sums
  <2>3. ASSUME Open(1), Open(2)
        PROVE  /\ Follow(back'[3], n3)
               /\ sent[r] + 1 = n3 + Len(back'[3])
    <3>1. Follow(back[3], n3) /\ sent[r] + 0 = n3 + Len(back[3])
      BY Zenon, <1>0, <1>3, <2>3, ThreeHops DEF Continues
    <3> HIDE DEF n3
    <3>2. c.seq = n3 + (Len(back[3]) + 1)
      <4>1. c.seq = sent[r] + 1
        BY Zenon DEF Writes
      <4> QED
        BY <1>0, <2>2, <3>1, <4>1
    <3>3. Follow(back'[3], n3)
      BY SMTT(30), <2>1, <3>1, <3>2, FollowAdd
    <3> DEFINE a == Len(back[3])
               a2 == Len(back'[3])
               s == sent[r]
    <3>4. n3 \in Nat /\ a \in Nat /\ s \in Nat /\ s + 0 = n3 + a /\ a2 = a + 1
      BY Zenon, <1>0, <2>1, <2>2, <3>1
    <3> HIDE DEF a, a2, s
    <3>5. s + 1 = n3 + a2
      BY ONLY <3>4
    <3> QED
      BY Zenon, <3>3, <3>5 DEF a2, s
  <2>4. sent'[r] + (IF job'[r] = "done" THEN 1 ELSE 0) = sent[r] + 1
    BY <1>0 DEF Writes
  <2> QED
    BY Zenon, <1>1, <2>1, <2>3, <2>4 DEF Continues
<1> QED
  BY Zenon, <1>2, <1>3 DEF Writes

(* A relay passes a cell on or stops passing any; a lost connection cuts   *)
(* off all beyond it.                                                      *)
LEMMA ContinuesMoves ==
    ASSUME TypeOK, NEW r \in Requests, Continues(r), Moves, lost \subseteq lost',
           UNCHANGED <<sent, job, response>>, \A k \in {1, 2} : Open(k)' => Open(k)
    PROVE  Continues(r)'
<1>0. /\ Len(back[1]) \in Nat /\ Len(back[2]) \in Nat /\ Len(back[3]) \in Nat
      /\ Len(response[r]) \in Nat /\ sent[r] \in Nat
  BY Zenon, Lengths
<1>1. lost \subseteq lost' /\ UNCHANGED <<sent, job, response>> /\ (Open(1)' => Open(1))
      /\ (Open(2)' => Open(2))
  BY Zenon
<1> DEFINE n == Len(response[r])
<1>2. ASSUME NEW g \in 1..(hops - 1), Taken(back', back, g + 1), ~ Open(g)'
      PROVE  Continues(r)'
  <2>0. \A k \in 1..hops : k # g + 1 => back'[k] = back[k]
    BY Zenon, <1>2 DEF Taken
  <2>1. CASE g = 1
    <3>1. back'[1] = back[1]
      BY ThreeHops, <2>0, <2>1
    <3> QED
      BY Zenon, <1>1, <1>2, <2>1, <3>1 DEF Continues
  <2>2. CASE g = 2
    <3>1. back'[1] = back[1] /\ back'[2] = back[2]
      BY ThreeHops, <2>0, <2>2
    <3> QED
      BY Zenon, <1>1, <1>2, <2>2, <3>1 DEF Continues
  <2> QED
    BY Zenon, ThreeHops, <2>1, <2>2
<1>3. ASSUME NEW g \in 1..(hops - 1), NEW w \in Cells, Moved(back', back, g, w), Open(g)
      PROVE  Continues(r)'
  <2>1. CASE g = 1
    <3>1. /\ back'[3] = back[3] /\ Len(back'[1]) = Len(back[1]) + 1
          /\ Len(back'[2]) = Len(back[2]) - 1
          /\ \A i \in 1..Len(back'[1]) : \/ i \in 1..Len(back[1]) /\ back'[1][i] = back[1][i]
                                         \/ i = Len(back[1]) + 1 /\ back'[1][i] = w
          /\ \A i \in 1..Len(back'[2]) : /\ i + 1 \in 1..Len(back[2])
                                         /\ back'[2][i] = back[2][i + 1]
          /\ 1 \in 1..Len(back[2]) /\ w.seq = back[2][1].seq
      BY SMTT(30), ThreeHops, <1>3, <2>1 DEF Moved, Same
    <3>2. Follow(back[1], n) /\ Follow(back[2], n + Len(back[1]))
      BY Zenon, <1>3, <2>1 DEF Continues
    <3>3. w.seq = n + (Len(back[1]) + 1)
      <4>1. w.seq = (n + Len(back[1])) + 1
        BY Zenon, <3>1, <3>2 DEF Follow
      <4> DEFINE b == Len(back[1])
      <4>2. n \in Nat /\ b \in Nat /\ w.seq = (n + b) + 1
        BY Zenon, <1>0, <4>1
      <4> HIDE DEF n, b
      <4>3. w.seq = n + (b + 1)
        BY ONLY <4>2
      <4> QED
        BY Zenon, <4>3 DEF n, b
    <3>4. Follow(back'[1], n)
      BY Zenon, <3>1, <3>2, <3>3, FollowAdd
    <3>5. Follow(back'[2], (n + Len(back[1])) + 1)
      <4>1. n + Len(back[1]) \in Nat
        BY Zenon, <1>0, Sums
      <4> QED
        BY Zenon, <1>0, <3>1, <3>2, <4>1, FollowTake
    <3>6. /\ n + Len(back'[1]) = (n + Len(back[1])) + 1
          /\ (n + Len(back'[1])) + Len(back'[2]) = (n + Len(back[1])) + Len(back[2])
      <4> DEFINE b == Len(back[1])
                 b2 == Len(back'[1])
                 c == Len(back[2])
                 c2 == Len(back'[2])
      <4>1. n \in Nat /\ b \in Nat /\ c \in Nat /\ b2 = b + 1 /\ c2 = c - 1
        BY Zenon, <1>0, <3>1
      <4> HIDE DEF b, b2, c, c2, n
      <4>2. n + b2 = (n + b) + 1 /\ (n + b2) + c2 = (n + b) + c
        BY ONLY <4>1
      <4> QED
        BY Zenon, <4>2 DEF b, b2, c, c2, n
    <3> QED
      BY Zenon, <1>1, <3>1, <3>4, <3>5, <3>6 DEF Continues
  <2>2. CASE g = 2
    <3>1. /\ back'[1] = back[1] /\ Len(back'[2]) = Len(back[2]) + 1
          /\ Len(back'[3]) = Len(back[3]) - 1
          /\ \A i \in 1..Len(back'[2]) : \/ i \in 1..Len(back[2]) /\ back'[2][i] = back[2][i]
                                         \/ i = Len(back[2]) + 1 /\ back'[2][i] = w
          /\ \A i \in 1..Len(back'[3]) : /\ i + 1 \in 1..Len(back[3])
                                         /\ back'[3][i] = back[3][i + 1]
          /\ 1 \in 1..Len(back[3]) /\ w.seq = back[3][1].seq
      BY SMTT(30), ThreeHops, <1>3, <2>2 DEF Moved, Same
    <3> DEFINE n2 == n + Len(back[1])
    <3>2. n2 \in Nat /\ n2 + Len(back[2]) \in Nat
      BY Zenon, <1>0, Sums
    <3>3. /\ Follow(back[1], n)
          /\ Open(1) => Follow(back[2], n2) /\ Follow(back[3], n2 + Len(back[2]))
          /\ Open(1) /\ 3 \notin lost =>
                sent[r] + (IF job[r] = "done" THEN 1 ELSE 0)
                   = (n2 + Len(back[2])) + Len(back[3])
      BY Zenon, <1>3, <2>2 DEF Continues
    <3> HIDE DEF n2
    <3>4. ASSUME Open(1) PROVE w.seq = n2 + (Len(back[2]) + 1)
      <4>1. w.seq = (n2 + Len(back[2])) + 1
        BY Zenon, <3>1, <3>3, <3>4 DEF Follow
      <4> QED
        BY <1>0, <3>2, <4>1
    <3>5. ASSUME Open(1) PROVE Follow(back'[2], n2)
      BY Zenon, <3>1, <3>3, <3>4, <3>5, FollowAdd
    <3>6. ASSUME Open(1) PROVE Follow(back'[3], (n2 + Len(back[2])) + 1)
      BY Zenon, <1>0, <3>2, <3>1, <3>3, <3>6, FollowTake
    <3>7. /\ n2 + Len(back'[2]) = (n2 + Len(back[2])) + 1
          /\ (n2 + Len(back'[2])) + Len(back'[3]) = (n2 + Len(back[2])) + Len(back[3])
      <4> DEFINE b == Len(back[2])
                 b2 == Len(back'[2])
                 c == Len(back[3])
                 c2 == Len(back'[3])
      <4>1. n2 \in Nat /\ b \in Nat /\ c \in Nat /\ b2 = b + 1 /\ c2 = c - 1
        BY Zenon, <1>0, <3>2, <3>1
      <4> HIDE DEF b, b2, c, c2
      <4>2. n2 + b2 = (n2 + b) + 1 /\ (n2 + b2) + c2 = (n2 + b) + c
        BY ONLY <4>1
      <4> QED
        BY Zenon, <4>2 DEF b, b2, c, c2
    <3>8. /\ Follow(back'[1], n)
          /\ Open(1)' => Follow(back'[2], n2) /\ Follow(back'[3], n2 + Len(back'[2]))
          /\ Open(1)' /\ 3 \notin lost' =>
                sent[r] + (IF job[r] = "done" THEN 1 ELSE 0)
                   = (n2 + Len(back'[2])) + Len(back'[3])
      BY Zenon, <1>1, <3>1, <3>3, <3>5, <3>6, <3>7
    <3> QED
      BY Zenon, <1>1, <3>1, <3>8 DEF Continues, n2
  <2> QED
    BY Zenon, ThreeHops, <2>1, <2>2
<1>4. ASSUME NEW g \in 1..hops, g \in lost',
             \A k \in 1..hops : back'[k] = back[k] \/ (k = g /\ back'[k] = <<>>)
      PROVE  Continues(r)'
  <2>1. (g = 1 => ~ Open(1)') /\ (g = 2 => ~ Open(2)')
    BY Zenon, <1>4 DEF Open
  <2>2. \A m : Follow(<<>>, m)
    BY DEF Follow
  <2>3. CASE g = 1
    <3>1. Follow(back'[1], n)
      BY ThreeHops, <1>4, <2>2, <2>3 DEF Continues
    <3> QED
      BY Zenon, <1>1, <2>1, <2>3, <3>1 DEF Continues
  <2>4. CASE g = 2
    <3>1. back'[1] = back[1]
      BY ThreeHops, <1>4, <2>4
    <3>2. Open(1) => Follow(back'[2], n + Len(back[1]))
      BY Zenon, ThreeHops, <1>4, <2>2, <2>4 DEF Continues
    <3> QED
      BY Zenon, <1>1, <2>1, <2>4, <3>1, <3>2 DEF Continues
  <2>5. CASE g = 3
    <3>1. back'[1] = back[1] /\ back'[2] = back[2] /\ 3 \in lost'
      BY ThreeHops, <1>4, <2>5
    <3>2. Open(1) /\ Open(2) => Follow(back'[3], (n + Len(back[1])) + Len(back[2]))
      BY Zenon, ThreeHops, <1>4, <2>2, <2>5 DEF Continues
    <3> QED
      BY Zenon, <1>1, <2>5, <3>1, <3>2 DEF Continues
  <2> QED
    BY Zenon, ThreeHops, <2>3, <2>4, <2>5
<1>5. CASE back' = back
  BY Zenon, <1>5, ContinuesFrame
<1> QED
  BY Zenon, <1>2, <1>3, <1>4, <1>5 DEF Moves

(* Steps in which r reads nothing.                                         *)
LEMMA OwnIdle ==
    ASSUME NEW r \in Requests, OwnAt(r), response'[r] = response[r],
           ended'[r] = "done" => ended[r] = "done" /\ doneOf'[r] = doneOf[r],
           job[r] = "done" => job'[r] = "done" /\ sent'[r] = sent[r],
           Reading(r)' => ended'[r] = "none" /\ Continues(r)'
    PROVE  OwnAt(r)'
<1>1. response'[r] = [i \in 1..Len(response'[r]) |-> <<r, i>>]
  BY Zenon DEF OwnAt
<1>2. ended'[r] = "done" => /\ Len(response'[r]) = sent'[r] /\ doneOf'[r] = r
                            /\ job'[r] = "done"
  BY Zenon DEF OwnAt
<1> QED
  BY Zenon, <1>1, <1>2 DEF OwnAt

(* sendRequest starts on a circuit where nothing is on its way.            *)
LEMMA OwnSend ==
    ASSUME SInv, NEW r \in Requests \ overlapped', NEW q \in Requests, Sends(q), OwnAt(r)
    PROVE  OwnAt(r)'
<1>0. TypeOK /\ OrderInv /\ OnceInv
  BY Zenon DEF SInv, RInv
<1>1. /\ UNCHANGED <<response, doneOf, job, sent, back, alive, lost>>
      /\ \A k \in {1, 2} : Open(k)' => Open(k)
  BY Zenon DEF Sends, Open
<1>2. CASE q # r
  <2>1. ended'[r] = ended[r] /\ state'[r] = state[r]
    BY Zenon, <1>2 DEF Sends
  <2>2. Reading(r)' => ended[r] = "none" /\ Continues(r)
    BY Zenon, <2>1 DEF Reading, OwnAt
  <2>3. Reading(r)' => ended'[r] = "none" /\ Continues(r)'
    BY Zenon, <1>1, <2>1, <2>2, ContinuesFrame
  <2> QED
    BY Zenon, <1>1, <2>1, <2>3, OwnIdle
<1>3. CASE ~ Reading(r)' /\ ended'[r] = "error"
  BY Zenon, <1>1, <1>3, OwnIdle
<1>4. CASE q = r /\ ended'[r] = ended[r] /\ \A p \in Requests \ {r} : ~ Busy(p)
  <2>1. state[r] = "new"
    BY Zenon, <1>4 DEF Sends
  <2>2. /\ job[r] = "none" /\ response[r] = <<>> /\ sent[r] = 0 /\ ended[r] = "none"
    BY Zenon, <1>0, <2>1 DEF OnceInv
  <2>3. ASSUME NEW h \in 1..hops, NEW i \in 1..Len(back[h]) PROVE FALSE
    <3>1. back[h][i].req \in Requests
      BY Zenon, <1>0, CellTypes DEF Cells
    <3>2. job[back[h][i].req] # "none"
      BY Zenon, <1>0 DEF OrderInv, Written
    <3>3. Busy(back[h][i].req)
      BY Zenon DEF Busy, InBack
    <3> QED
      BY Zenon, <1>4, <2>2, <3>1, <3>2, <3>3
  <2>4. Len(back[1]) = 0 /\ Len(back[2]) = 0 /\ Len(back[3]) = 0
    <3>1. Len(back[1]) \in Nat /\ Len(back[2]) \in Nat /\ Len(back[3]) \in Nat
      BY Zenon, <1>0, Lengths
    <3>2. 1 \notin 1..Len(back[1]) /\ 1 \notin 1..Len(back[2]) /\ 1 \notin 1..Len(back[3])
      BY Zenon, <2>3, ThreeHops
    <3> QED
      BY <3>1, <3>2
  <2>5. Follow(back[1], 0) /\ Follow(back[2], 0) /\ Follow(back[3], 0)
    BY <2>4 DEF Follow
  <2>6. Len(response[r]) = 0 /\ 0 + 0 = 0
    BY <2>2
  <2>7. Continues(r)
    BY Zenon, <2>2, <2>4, <2>5, <2>6 DEF Continues
  <2>8. Continues(r)'
    BY Zenon, <1>1, <2>7, ContinuesFrame
  <2> QED
    BY Zenon, <1>1, <1>4, <2>2, <2>8, OwnIdle
<1> QED
  BY Zenon, <1>2, <1>3, <1>4 DEF Sends

(* ReadBody hands r the next chunk of its own response, or its end.        *)
LEMMA OwnRead ==
    ASSUME SInv, NEW r \in Requests \ overlapped, NEW q \in Requests, NEW c \in Cells,
           Reads(q, c), OwnAt(r)
    PROVE  OwnAt(r)'
<1>0. TypeOK /\ OrderInv /\ AloneInv
  BY Zenon DEF SInv, RInv
<1>1. state[q] = "len" /\ Busy(q) /\ Reading(q) /\ UNCHANGED <<job, sent, alive, lost>>
  BY Zenon DEF Reads, Busy, Reading
<1>2. CASE q # r
  <2>1. ~ Reading(r)
    BY Zenon, <1>0, <1>1, <1>2 DEF AloneInv, Busy
  <2>2. /\ response'[r] = response[r] /\ ended'[r] = ended[r] /\ doneOf'[r] = doneOf[r]
        /\ state'[r] = state[r]
    BY Zenon, <1>2 DEF Reads
  <2>3. ~ Reading(r)'
    BY Zenon, <2>1, <2>2 DEF Reading
  <2> QED
    BY Zenon, <1>1, <2>2, <2>3, OwnIdle
<1>3. CASE q = r
  <2> DEFINE n == Len(response[r])
  <2>1. /\ Taken(back', back, 1) /\ c = back[1][1] /\ 1 \in 1..hops
        /\ \/ /\ c.cmd = "Relay" /\ ended'[r] = ended[r]
              /\ response'[r] = Append(response[r], <<c.req, c.seq>>)
           \/ /\ c.cmd = "RelayDone" /\ state'[r] = "done"
              /\ response'[r] = response[r] /\ doneOf'[r] = c.req
    BY <1>3 DEF Reads, hops
  <2>2. 1 \in 1..Len(back[1])
    BY Zenon, <2>1 DEF Taken
  <2>3. c.req = r
    <3>1. Busy(c.req) /\ c.req \in Requests
      BY Zenon, <2>1, <2>2 DEF Busy, InBack, Cells
    <3> QED
      BY Zenon, <1>0, <1>1, <1>3, <3>1 DEF AloneInv
  <2>4. Continues(r) /\ ended[r] = "none" /\ response[r] = [i \in 1..n |-> <<r, i>>]
    BY Zenon, <1>1, <1>3 DEF OwnAt
  <2>5. c.seq = n + 1
    BY Zenon, <2>1, <2>2, <2>4 DEF Continues, Follow
  <2>6. Written(c) /\ n \in Nat /\ sent[r] \in Nat
    BY Zenon, <1>0, <2>1, <2>2, Lengths DEF OrderInv
  <2>7. CASE c.cmd = "RelayDone"
    <3>1. response'[r] = response[r] /\ doneOf'[r] = r /\ state'[r] = "done"
      BY Zenon, <2>1, <2>3, <2>7
    <3>2. job[r] = "done" /\ n + 1 = sent[r] + 1
      BY Zenon, <2>3, <2>5, <2>6, <2>7 DEF Written
    <3>3. n = sent[r]
      <4> HIDE DEF n
      <4> QED
        BY ONLY <2>6, <3>2
    <3>4. ~ Reading(r)'
      BY Zenon, <3>1 DEF Reading
    <3> QED
      BY Zenon, <1>1, <2>4, <3>1, <3>2, <3>3, <3>4 DEF OwnAt
  <2>8. CASE c.cmd = "Relay"
    <3>1. response'[r] = Append(response[r], <<r, n + 1>>) /\ ended'[r] = "none"
      BY Zenon, <2>1, <2>3, <2>4, <2>5, <2>8
    <3>2. response[r] \in Seq(Requests \X Nat)
      BY Zenon, <1>0 DEF TypeOK
    <3>3. Len(response'[r]) = n + 1
      BY <3>1, <3>2
    <3>4. response'[r] = [i \in 1..Len(response'[r]) |-> <<r, i>>]
      <4>1. Append(response[r], <<r, n + 1>>)
               = [i \in 1..(n + 1) |-> IF i = n + 1 THEN <<r, n + 1>> ELSE response[r][i]]
        BY <3>2 DEF Append
      <4>2. ASSUME NEW i \in 1..(n + 1)
            PROVE  (IF i = n + 1 THEN <<r, n + 1>> ELSE response[r][i]) = <<r, i>>
        <5>1. CASE i # n + 1
          <6>1. i \in 1..n
            BY <2>6, <5>1
          <6> QED
            BY Zenon, <2>4, <5>1, <6>1
        <5> QED
          BY Zenon, <5>1
      <4> QED
        BY Zenon, <3>1, <3>3, <4>1, <4>2
    <3>5. Continues(r)'
      BY Zenon, <1>0, <1>1, <2>1, <2>4, <3>3, ContinuesRead
    <3> QED
      BY Zenon, <3>1, <3>4, <3>5 DEF OwnAt
  <2> QED
    BY Zenon, <2>1, <2>7, <2>8
<1> QED
  BY Zenon, <1>2, <1>3

(* The exit works for r only while r is alone, and for others only when r  *)
(* is not reading.                                                         *)
LEMMA OwnExit ==
    ASSUME SInv, NEW r \in Requests \ overlapped, NEW q \in Requests, Exits(q), OwnAt(r)
    PROVE  OwnAt(r)'
<1>0. TypeOK /\ AloneInv
  BY Zenon DEF SInv, RInv
<1>1. /\ UNCHANGED <<state, response, ended, doneOf, alive, lost>>
      /\ job[q] \in {"run", "ending"}
      /\ \A p \in Requests \ {q} : job'[p] = job[p] /\ sent'[p] = sent[p]
  BY Zenon DEF Exits
<1>2. job[r] = "done" => job'[r] = "done" /\ sent'[r] = sent[r]
  BY Zenon, <1>1
<1>3. CASE ~ Reading(r)
  <2>1. ~ Reading(r)'
    BY Zenon, <1>1, <1>3 DEF Reading
  <2> QED
    BY Zenon, <1>1, <1>2, <2>1, OwnIdle
<1>4. CASE Reading(r)
  <2>1. q = r
    BY Zenon, <1>0, <1>1, <1>4 DEF AloneInv, Busy
  <2>2. Continues(r) /\ ended[r] = "none" /\ job[r] # "done"
    BY Zenon, <1>1, <1>4, <2>1 DEF OwnAt
  <2>3. ASSUME NEW c \in Cells, Writes(r, c) PROVE Continues(r)'
    BY Zenon, <1>0, <1>1, <2>2, <2>3, ContinuesWrite
  <2>4. CASE job'[r] = "ending" /\ UNCHANGED <<back, sent>>
    <3>1. \A k \in {1, 2} : Open(k)' => Open(k)
      BY Zenon, <1>1 DEF Open
    <3> QED
      BY Zenon, <1>1, <1>2, <2>2, <2>4, <3>1, ContinuesFrame, OwnIdle
  <2>5. (\E c \in Cells : Writes(r, c)) \/ (job'[r] = "ending" /\ UNCHANGED <<back, sent>>)
    BY Zenon, <2>1 DEF Exits
  <2> QED
    BY Zenon, <1>1, <1>2, <2>2, <2>3, <2>4, <2>5, OwnIdle
<1> QED
  BY Zenon, <1>3, <1>4

(* Every step keeps what an unshared request reads its own.                *)
LEMMA OwnStep ==
    ASSUME SInv, [Next]_vars, NEW r \in Requests \ overlapped',
           overlapped \subseteq overlapped'
    PROVE  OwnAt(r)'
<1>0. TypeOK /\ OnceInv /\ r \in Requests \ overlapped /\ OwnAt(r)
  BY Zenon DEF SInv, RInv, OwnInv
<1>1. ASSUME NEW q \in Requests, Sends(q) PROVE OwnAt(r)'
  BY Zenon, <1>0, <1>1, OwnSend
<1>2. ASSUME NEW q \in Requests, NEW c \in Cells, Reads(q, c) PROVE OwnAt(r)'
  BY Zenon, <1>0, <1>2, OwnRead
<1>3. ASSUME NEW q \in Requests, Exits(q) PROVE OwnAt(r)'
  BY Zenon, <1>0, <1>3, OwnExit
<1>4. ASSUME NEW q \in Requests, Starts(q) PROVE OwnAt(r)'
  <2>1. /\ UNCHANGED <<state, ended, response, doneOf, sent, back, alive, lost>>
        /\ toExit[1] = q /\ 1 \in 1..Len(toExit) /\ job'[q] = "run"
        /\ \A p \in Requests \ {q} : job'[p] = job[p]
    BY Zenon, <1>4 DEF Starts
  <2>2. (job'[r] = "done") <=> (job[r] = "done")
    BY Zenon, <1>0, <2>1 DEF OnceInv
  <2>3. /\ \A k \in {1, 2} : Open(k)' => Open(k)
        /\ Reading(r)' => ended[r] = "none" /\ Continues(r)
    BY Zenon, <1>0, <2>1 DEF Open, Reading, OwnAt
  <2>4. Reading(r)' => ended'[r] = "none" /\ Continues(r)'
    BY Zenon, <2>1, <2>2, <2>3, ContinuesFrame
  <2> QED
    BY Zenon, <1>0, <2>1, <2>2, <2>4, OwnIdle
<1>5. CASE Passes
  <2>1. /\ UNCHANGED <<response, doneOf, job, sent>> /\ Moves /\ lost \subseteq lost'
        /\ Reading(r)' => Reading(r) /\ ended'[r] = ended[r]
        /\ ended'[r] = "done" => ended[r] = "done"
        /\ \A k \in 1..(hops - 1) : alive'[k] => alive[k]
    BY Zenon, <1>5 DEF Passes
  <2>2. \A k \in {1, 2} : Open(k)' => Open(k)
    BY Zenon, <2>1, ThreeHops DEF Open
  <2>3. Reading(r)' => ended'[r] = "none" /\ Continues(r)
    BY Zenon, <1>0, <2>1 DEF OwnAt
  <2>4. Reading(r)' => Continues(r)'
    BY Zenon, <1>0, <2>1, <2>2, <2>3, ContinuesMoves
  <2> QED
    BY Zenon, <1>0, <2>1, <2>3, <2>4, OwnIdle
<1> QED
  BY Zenon, <1>0, <1>1, <1>2, <1>3, <1>4, <1>5, StepKinds

(* sendRequest: a request that has the circuit to itself from its first    *)
(* write to its last cell returns a prefix of its own response, in order   *)
(* and without gaps, and all of it when RelayDone ended it.  This holds    *)
(* for any number of requests, chunks and lost connections.                *)
THEOREM OwnResponse == Spec => []UnsharedResponse
<1>1. Init => SInv
  <2> SUFFICES ASSUME Init PROVE SInv
    BY Zenon
  <2>1. \A r \in Requests : ~ Reading(r) /\ ended[r] # "done"
    BY Zenon DEF Init, Reading
  <2>2. AloneInv
    <3>1. \A r \in Requests : ~ Busy(r)
      BY <2>1 DEF Init, Busy, InBack
    <3> QED
      BY Zenon, <3>1 DEF AloneInv
  <2>3. \A r \in Requests : response[r] = [i \in 1..Len(response[r]) |-> <<r, i>>]
    <3>1. \A r : [i \in 1..0 |-> <<r, i>>] = <<>>
      OBVIOUS
    <3> QED
      BY Zenon, <3>1 DEF Init
  <2>4. OwnInv
    BY Zenon, <2>1, <2>3 DEF OwnInv, OwnAt
  <2> QED
    BY Zenon, <2>2, <2>4, OrderInit DEF SInv
<1>2. SInv /\ [Next]_vars => SInv'
  <2> SUFFICES ASSUME SInv, [Next]_vars PROVE SInv'
    BY Zenon
  <2>1. RInv' /\ AloneInv' /\ overlapped \subseteq overlapped'
    BY Zenon, OrderStep, AloneStep DEF SInv, RInv
  <2>2. OwnInv'
    BY Zenon, <2>1, OwnStep DEF OwnInv
  <2> QED
    BY Zenon, <2>1, <2>2 DEF SInv
<1>3. SInv => UnsharedResponse
  BY Zenon DEF SInv, OwnInv, OwnAt, UnsharedResponse
<1> QED
  BY <1>1, <1>2, <1>3, PTL DEF Spec
====
