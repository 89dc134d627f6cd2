--------------------------- MODULE BridgeProofs ---------------------------
(***************************************************************************)
(* Each direction of a bridge session implements Tunnel, for every set of  *)
(* commands, every buffer size and any number of cells.                    *)
(*                                                                         *)
(* Per direction the invariant says where the cells that were written are: *)
(* the first ones at the target, the next ones, already renamed, on their  *)
(* way to it, then the one the bridge holds, then those not yet read.      *)
(* Nothing is said of what can no longer arrive: after the target has      *)
(* closed, and of the unread cells once nobody is left to read them.       *)
(***************************************************************************)
EXTENDS Bridge, TLAPS

-----------------------------------------------------------------------------
(* How the moves of a cell change a direction of a session.                *)

(* What a cell of direction d becomes.                                     *)
Trans(d, c) == [c EXCEPT !.circ = CircID[d], !.token = FALSE]

(* The cells in out are those of s that follow the first Len(g).           *)
OutOK(d, s, g, out) ==
    /\ Len(g) + Len(out) <= Len(s)
    /\ \A k \in 1..Len(out) : out[k] = Trans(d, s[Len(g) + k])

(* h and then in are the cells of s that follow the first b; all of them,  *)
(* if whole.                                                               *)
InOK(s, b, h, in, whole) ==
    /\ b + Len(h) + Len(in) <= Len(s)
    /\ whole => b + Len(h) + Len(in) = Len(s)
    /\ \A k \in 1..Len(h) : h[k] = s[b + k]
    /\ \A k \in 1..Len(in) : in[k] = s[b + Len(h) + k]

-----------------------------------------------------------------------------
(* What the moves of a cell do to the two.                                 *)

(* A cell is read: from in to h.                                           *)
LEMMA MoveRead ==
    ASSUME NEW s \in Seq(Cells), NEW b \in Nat, NEW in \in Seq(Cells), NEW w,
           in # <<>>, InOK(s, b, <<>>, in, w)
    PROVE  InOK(s, b, <<Head(in)>>, Tail(in), w)
<1>1. Tail(in) \in Seq(Cells) /\ Len(Tail(in)) = Len(in) - 1
      /\ \A k \in 1..Len(Tail(in)) : Tail(in)[k] = in[k + 1]
  OBVIOUS
<1>2. Len(in) \in Nat \ {0} /\ Len(s) \in Nat /\ Head(in) = in[1]
  OBVIOUS
<1> DEFINE h == <<Head(in)>>
<1>3. Len(h) = 1 /\ h[1] = in[1]
  BY <1>2
<1>4. Len(<<>>) = 0
  OBVIOUS
<1>5. /\ Len(in) + b <= Len(s)
      /\ w => b + Len(in) = Len(s)
      /\ \A k \in 1..Len(in) : in[k] = s[b + k]
  BY <1>2, <1>4 DEF InOK
<1>6. \A k \in 1..Len(Tail(in)) : Tail(in)[k] = s[b + 1 + k]
  BY <1>1, <1>2, <1>5
<1> HIDE DEF h
<1>7. InOK(s, b, h, Tail(in), w)
  BY <1>1, <1>2, <1>3, <1>5, <1>6 DEF InOK
<1> QED
  BY <1>7 DEF h

(* The cell held is written: from h to out, as what it becomes.            *)
LEMMA MoveWrite ==
    ASSUME NEW d, NEW s \in Seq(Cells), NEW g \in Seq(Cells), NEW out \in Seq(Cells),
           NEW in \in Seq(Cells), NEW h \in Seq(Cells), NEW w, Len(h) = 1,
           OutOK(d, s, g, out), InOK(s, Len(g) + Len(out), h, in, w),
           Trans(d, h[1]) \in Cells
    PROVE  /\ OutOK(d, s, g, Append(out, Trans(d, h[1])))
           /\ InOK(s, Len(g) + Len(Append(out, Trans(d, h[1]))), <<>>, in, w)
<1> DEFINE c == Trans(d, h[1])
<1>0. c \in Cells
  OBVIOUS
<1> HIDE DEF c
<1>1. Len(s) \in Nat /\ Len(g) \in Nat /\ Len(out) \in Nat /\ Len(in) \in Nat
  OBVIOUS
<1>2. /\ Len(Append(out, c)) = Len(out) + 1
      /\ \A k \in 1..Len(out) : Append(out, c)[k] = out[k]
      /\ Append(out, c)[Len(out) + 1] = c
  BY <1>0
<1>3. h[1] = s[Len(g) + Len(out) + 1]
  BY <1>1 DEF InOK
<1>4. Len(g) + Len(out) + 1 + Len(in) <= Len(s)
  BY <1>1 DEF InOK
<1> DEFINE o == Append(out, c)
<1>5. \A k \in 1..(Len(out) + 1) : o[k] = Trans(d, s[Len(g) + k])
  <2> SUFFICES ASSUME NEW k \in 1..(Len(out) + 1)
               PROVE  o[k] = Trans(d, s[Len(g) + k])
    OBVIOUS
  <2>1. CASE k \in 1..Len(out)
    <3>1. o[k] = out[k]
      BY <1>2, <2>1
    <3>2. out[k] = Trans(d, s[Len(g) + k])
      BY <2>1 DEF OutOK
    <3> QED
      BY <3>1, <3>2
  <2>2. CASE k = Len(out) + 1
    <3>1. o[k] = c
      BY <1>2, <2>2
    <3>2. Len(g) + k = Len(g) + Len(out) + 1
      BY <1>1, <2>2
    <3> QED
      BY <1>3, <3>1, <3>2 DEF c
  <2> QED
    BY <1>1, <2>1, <2>2
<1>6. Len(o) = Len(out) + 1
  BY <1>2
<1> HIDE DEF o
<1>7. OutOK(d, s, g, o)
  BY <1>1, <1>4, <1>5, <1>6 DEF OutOK
<1>8. InOK(s, Len(g) + Len(o), <<>>, in, w)
  <2>1. Len(<<>>) = 0
    OBVIOUS
  <2>2. w => Len(g) + Len(out) + 1 + Len(in) = Len(s)
    BY <1>1 DEF InOK
  <2>3. Len(g) + Len(o) = Len(g) + Len(out) + 1
    BY <1>1, <1>6
  <2>4. \A k \in 1..Len(in) : in[k] = s[Len(g) + Len(out) + 1 + k]
    <3> SUFFICES ASSUME NEW k \in 1..Len(in)
                 PROVE  in[k] = s[Len(g) + Len(out) + 1 + k]
      OBVIOUS
    <3>1. in[k] = s[Len(g) + Len(out) + Len(h) + k]
      BY DEF InOK
    <3> QED
      BY <3>1
  <2>5. \A k \in 1..Len(in) : in[k] = s[Len(g) + Len(o) + Len(<<>>) + k]
    <3>1. Len(g) + Len(o) + Len(<<>>) = Len(g) + Len(out) + 1
      BY <1>1, <2>1, <2>3
    <3> QED
      BY <2>4, <3>1
  <2> QED
    BY <1>1, <1>4, <2>1, <2>2, <2>3, <2>5 DEF InOK
<1> QED
  BY <1>7, <1>8 DEF o, c

(* The target reads a cell: from out to g.                                 *)
LEMMA MoveDeliver ==
    ASSUME NEW d, NEW s \in Seq(Cells), NEW g \in Seq(Cells), NEW out \in Seq(Cells),
           out # <<>>, OutOK(d, s, g, out)
    PROVE  /\ OutOK(d, s, Append(g, Head(out)), Tail(out))
           /\ Len(Append(g, Head(out))) + Len(Tail(out)) = Len(g) + Len(out)
           /\ Len(g) < Len(s)
           /\ Head(out) = Trans(d, s[Len(g) + 1])
<1>1. Len(s) \in Nat /\ Len(g) \in Nat /\ Len(out) \in Nat \ {0}
  OBVIOUS
<1>2. Head(out) = out[1] /\ Len(Tail(out)) = Len(out) - 1
      /\ \A k \in 1..Len(Tail(out)) : Tail(out)[k] = out[k + 1]
  OBVIOUS
<1>3. Len(Append(g, Head(out))) = Len(g) + 1
  OBVIOUS
<1>4. Len(g) + Len(out) <= Len(s)
      /\ \A k \in 1..Len(out) : out[k] = Trans(d, s[Len(g) + k])
  BY DEF OutOK
<1>5. \A k \in 1..Len(Tail(out)) : Tail(out)[k] = Trans(d, s[Len(g) + 1 + k])
  <2> SUFFICES ASSUME NEW k \in 1..Len(Tail(out))
               PROVE  Tail(out)[k] = Trans(d, s[Len(g) + 1 + k])
    OBVIOUS
  <2>1. k + 1 \in 1..Len(out) /\ Len(g) + (k + 1) = Len(g) + 1 + k
    BY <1>1, <1>2
  <2>2. out[k + 1] = Trans(d, s[Len(g) + (k + 1)])
    BY <1>4, <2>1
  <2> QED
    BY <1>2, <2>1, <2>2
<1> DEFINE gg == Append(g, Head(out))
<1> DEFINE t == Tail(out)
<1>6. Len(gg) = Len(g) + 1 /\ Len(t) = Len(out) - 1
  BY <1>2, <1>3
<1>7. \A k \in 1..Len(t) : t[k] = Trans(d, s[Len(gg) + k])
  BY <1>5, <1>6
<1> HIDE DEF gg, t
<1>8. OutOK(d, s, gg, t)
  BY <1>1, <1>4, <1>6, <1>7 DEF OutOK
<1> QED
  BY <1>1, <1>2, <1>4, <1>6, <1>8 DEF gg, t

(* What has passed does not depend on what the source writes next.         *)
LEMMA MoveSend ==
    ASSUME NEW d, NEW s \in Seq(Cells), NEW g \in Seq(Cells), NEW out \in Seq(Cells),
           NEW c \in Cells, OutOK(d, s, g, out)
    PROVE  OutOK(d, Append(s, c), g, out)
<1> DEFINE t == Append(s, c)
<1>1. Len(s) \in Nat /\ Len(g) \in Nat /\ Len(out) \in Nat
      /\ Len(t) = Len(s) + 1 /\ \A k \in 1..Len(s) : t[k] = s[k]
  OBVIOUS
<1> HIDE DEF t
<1>2. \A k \in 1..Len(out) : out[k] = Trans(d, t[Len(g) + k])
  <2> SUFFICES ASSUME NEW k \in 1..Len(out)
               PROVE  out[k] = Trans(d, t[Len(g) + k])
    OBVIOUS
  <2>1. Len(g) + k \in 1..Len(s)
    BY <1>1 DEF OutOK
  <2>2. t[Len(g) + k] = s[Len(g) + k]
    BY <1>1, <2>1
  <2> QED
    BY <2>2 DEF OutOK
<1>3. OutOK(d, t, g, out)
  BY <1>1, <1>2 DEF OutOK
<1> QED
  BY <1>3 DEF t

(* The source writes a cell that is queued for the bridge.                 *)
LEMMA MoveQueued ==
    ASSUME NEW s \in Seq(Cells), NEW b \in Nat, NEW h \in Seq(Cells),
           NEW in \in Seq(Cells), NEW c \in Cells, NEW w,
           InOK(s, b, h, in, TRUE)
    PROVE  InOK(Append(s, c), b, h, Append(in, c), w)
<1> DEFINE t == Append(s, c)
<1> DEFINE i == Append(in, c)
<1>1. Len(s) \in Nat /\ Len(h) \in Nat /\ Len(in) \in Nat
      /\ Len(t) = Len(s) + 1 /\ \A k \in 1..Len(s) : t[k] = s[k]
  OBVIOUS
<1>2. Len(i) = Len(in) + 1 /\ \A k \in 1..Len(in) : i[k] = in[k]
  OBVIOUS
<1>3. i[Len(in) + 1] = c /\ t[Len(s) + 1] = c
  OBVIOUS
<1> HIDE DEF t, i
<1>4. b + Len(h) + Len(in) = Len(s)
  BY DEF InOK
<1>5. \A k \in 1..Len(h) : h[k] = t[b + k]
  <2> SUFFICES ASSUME NEW k \in 1..Len(h)
               PROVE  h[k] = t[b + k]
    OBVIOUS
  <2>1. b + k \in 1..Len(s)
    BY <1>1, <1>4
  <2>2. t[b + k] = s[b + k]
    BY <1>1, <2>1
  <2> QED
    BY <2>2 DEF InOK
<1>6. \A k \in 1..Len(i) : i[k] = t[b + Len(h) + k]
  <2> SUFFICES ASSUME NEW k \in 1..Len(i)
               PROVE  i[k] = t[b + Len(h) + k]
    OBVIOUS
  <2>1. CASE k \in 1..Len(in)
    <3>1. b + Len(h) + k \in 1..Len(s)
      BY <1>1, <1>4, <2>1
    <3>2. t[b + Len(h) + k] = s[b + Len(h) + k]
      BY <1>1, <3>1
    <3>3. in[k] = s[b + Len(h) + k]
      BY <2>1 DEF InOK
    <3> QED
      BY <1>2, <2>1, <3>2, <3>3
  <2>2. CASE k = Len(in) + 1
    <3>1. b + Len(h) + k = Len(s) + 1
      BY <1>1, <1>4, <2>2
    <3> QED
      BY <1>3, <2>2, <3>1
  <2> QED
    BY <1>1, <1>2, <2>1, <2>2
<1>7. b + Len(h) + Len(i) = Len(t)
  BY <1>1, <1>2, <1>4
<1>8. InOK(t, b, h, i, w)
  BY <1>1, <1>2, <1>5, <1>6, <1>7 DEF InOK
<1> QED
  BY <1>8 DEF t, i

(* The source writes a cell to a connection the bridge has closed.         *)
LEMMA MoveUnqueued ==
    ASSUME NEW s \in Seq(Cells), NEW b \in Nat, NEW h \in Seq(Cells),
           NEW in \in Seq(Cells), NEW c \in Cells, NEW w,
           InOK(s, b, h, in, w)
    PROVE  InOK(Append(s, c), b, h, in, FALSE)
<1> DEFINE t == Append(s, c)
<1>1. Len(s) \in Nat /\ Len(h) \in Nat /\ Len(in) \in Nat
      /\ Len(t) = Len(s) + 1 /\ \A k \in 1..Len(s) : t[k] = s[k]
  OBVIOUS
<1> HIDE DEF t
<1>2. b + Len(h) + Len(in) <= Len(s)
  BY DEF InOK
<1>3. \A k \in 1..Len(h) : h[k] = t[b + k]
  <2> SUFFICES ASSUME NEW k \in 1..Len(h)
               PROVE  h[k] = t[b + k]
    OBVIOUS
  <2>1. b + k \in 1..Len(s)
    BY <1>1, <1>2
  <2>2. t[b + k] = s[b + k]
    BY <1>1, <2>1
  <2> QED
    BY <2>2 DEF InOK
<1>4. \A k \in 1..Len(in) : in[k] = t[b + Len(h) + k]
  <2> SUFFICES ASSUME NEW k \in 1..Len(in)
               PROVE  in[k] = t[b + Len(h) + k]
    OBVIOUS
  <2>1. b + Len(h) + k \in 1..Len(s)
    BY <1>1, <1>2
  <2>2. t[b + Len(h) + k] = s[b + Len(h) + k]
    BY <1>1, <2>1
  <2> QED
    BY <2>2 DEF InOK
<1>5. b + Len(h) + Len(in) <= Len(t)
  BY <1>1, <1>2
<1>6. InOK(t, b, h, in, FALSE)
  BY <1>3, <1>4, <1>5 DEF InOK
<1> QED
  BY <1>6 DEF t

(* What was written can be lost once it need not be whole.                 *)
LEMMA MoveLost ==
    ASSUME NEW s \in Seq(Cells), NEW b \in Nat, NEW h \in Seq(Cells),
           NEW in \in Seq(Cells), NEW w,
           InOK(s, b, h, in, w)
    PROVE  InOK(s, b, h, in, FALSE) /\ InOK(s, b, h, <<>>, FALSE)
<1>1. Len(s) \in Nat /\ Len(h) \in Nat /\ Len(in) \in Nat
  OBVIOUS
<1>2. InOK(s, b, h, in, FALSE)
  BY DEF InOK
<1>3. Len(<<>>) = 0
  OBVIOUS
<1>4. b + Len(h) + Len(<<>>) <= Len(s)
  BY <1>1, <1>3 DEF InOK
<1>5. \A k \in 1..Len(<<>>) : <<>>[k] = s[b + Len(h) + k]
  BY <1>3
<1>6. \A k \in 1..Len(h) : h[k] = s[b + k]
  BY DEF InOK
<1>7. InOK(s, b, h, <<>>, FALSE)
  BY <1>4, <1>5, <1>6 DEF InOK
<1> QED
  BY <1>2, <1>7

-----------------------------------------------------------------------------
(* The invariant.                                                          *)

Setup == {"handshake", "dial", "created"}

(* Someone still reads for direction d: its pump, or the session before    *)
(* the pumps are started.                                                  *)
Feeding(d) == stage \in Setup \/ pump[d] \in {"read", "write"}

(* What has been read and not yet written: the handshake while the foreign *)
(* entry is being dialled, later the cell the pump holds.                  *)
Carried(d) == IF d = "up" /\ stage = "dial" THEN <<sent["up"][1]>> ELSE held[d]

(* Nothing on the way to the bridge has been lost.                         *)
Whole(d) == OwnIn[d] \notin closed /\ Source[d] \notin closed

Passed(d) == Len(got[d]) + Len(queue[Out[d]])

FlowOK(d) ==
    /\ OutOK(d, sent[d], got[d], queue[Out[d]])
    /\ Feeding(d) => InOK(sent[d], Passed(d), Carried(d), queue[In[d]], Whole(d))

(* Every cell written is where the order of the pipe puts it.              *)
FlowInv == \A d \in Directions : Target[d] \notin closed => FlowOK(d)

(* Only the handshake, the client's first cell, carries a token.           *)
TokenInv ==
    /\ \A d \in Directions : \A i \in 1..Len(sent[d]) :
          sent[d][i].token => d = "up" /\ i = 1
    /\ sent["up"] # <<>> => sent["up"][1].n = 0

(* The pumps start when the setup is done.                                 *)
PumpInv == stage \in Setup => \A d \in Directions : pump[d] = "off"

(* Before the Create nothing has gone to the foreign entry.                *)
SetupInv ==
    /\ stage \in {"handshake", "dial"} =>
          queue["toForeign"] = <<>> /\ got["up"] = <<>> /\ "foreign" \notin closed
    /\ stage = "dial" => sent["up"] # <<>> /\ sent["up"][1].cmd = "Create"

(* After it the first cell of the client is the one that has gone, so that *)
(* a pump never renames the handshake.                                     *)
FirstInv ==
    "foreign" \notin closed /\ Feeding("up") /\ stage \notin {"handshake", "dial"}
       => Passed("up") > 0

IInv == TypeOK /\ PumpInv /\ TokenInv /\ SetupInv /\ FirstInv /\ FlowInv

-----------------------------------------------------------------------------
(* Types.                                                                  *)

(* How the queues and the ends belong to the directions.                   *)
LEMMA Wires ==
    \A d \in Directions :
        /\ In[d] \in Queues /\ Out[d] \in Queues /\ In[d] # Out[d]
        /\ Source[d] \in Ends /\ Target[d] \in Ends /\ Source[d] # Target[d]
        /\ Source[d] \notin {"conn", "foreignConn"}
        /\ Target[d] \notin {"conn", "foreignConn"}
        /\ CircID[d] \in {"sentinel", "new", "other"}
BY DEF Directions, In, Out, Source, Target, Queues, Ends, CircID

(* The two directions share no queue; one's source is the other's target.  *)
LEMMA Crossed ==
    \A d, e \in Directions : d # e =>
        /\ In[e] # In[d] /\ In[e] # Out[d] /\ Out[e] # In[d] /\ Out[e] # Out[d]
        /\ Source[e] = Target[d] /\ Target[e] = Source[d]
BY DEF Directions, In, Out, Source, Target

(* There is another direction.                                             *)
LEMMA Back ==
    ASSUME NEW d \in Directions
    PROVE  (CHOOSE e \in Directions : e # d) \in Directions \ {d}
<1>1. \E e \in Directions : e # d
  BY DEF Directions
<1> QED
  BY <1>1

(* What a pump writes is a cell.                                           *)
LEMMA RenamedCell ==
    ASSUME NEW d \in Directions, NEW c \in Cells
    PROVE  Renamed(d, c) \in Cells /\ (~ c.token => Renamed(d, c) = Trans(d, c))
<1>1. CircID[d] \in {"sentinel", "new", "other"}
  BY Wires
<1>2. Renamed(d, c) \in Cells
  BY <1>1 DEF Renamed, Cells
<1>3. c.token \in BOOLEAN
  BY DEF Cells
<1>4. ASSUME ~ c.token
      PROVE  Renamed(d, c) = Trans(d, c)
  <2>1. c.token = FALSE
    BY <1>3, <1>4
  <2> QED
    BY <2>1 DEF Renamed, Trans, Cells
<1> QED
  BY <1>2, <1>4

(* The Create the bridge makes of the handshake.                           *)
LEMMA CreateCell ==
    ASSUME NEW x \in Cells, x.cmd = "Create", x.n = 0
    PROVE  Cell("new", "Create", 0, FALSE) = Trans("up", x)
<1>1. CircID["up"] = "new"
  BY DEF CircID
<1> DEFINE y == [x EXCEPT !.circ = "new", !.token = FALSE]
<1>2. /\ y \in Cells /\ y.circ = "new" /\ y.token = FALSE
      /\ y.cmd = "Create" /\ y.n = 0
  BY DEF Cells
<1> HIDE DEF y
<1>3. y = [circ |-> y.circ, cmd |-> y.cmd, n |-> y.n, token |-> y.token]
  BY <1>2 DEF Cells
<1>4. y = [circ |-> "new", cmd |-> "Create", n |-> 0, token |-> FALSE]
  BY <1>2, <1>3
<1> QED
  BY <1>1, <1>4 DEF Cell, Trans, y

(* Writing to a queue keeps the queues' type.                              *)
LEMMA PutType ==
    ASSUME TypeOK, NEW q \in Queues, NEW c \in Cells
    PROVE  Put(q, c) \in [Queues -> Seq(Cells)]
<1>1. queue[q] \in Seq(Cells) /\ queue \in [Queues -> Seq(Cells)]
  BY DEF TypeOK
<1>2. Append(queue[q], c) \in Seq(Cells)
  BY <1>1
<1> QED
  BY <1>1, <1>2 DEF Put

(* So does reading from one, and what is read is a cell.                   *)
LEMMA TakeType ==
    ASSUME TypeOK, NEW q \in Queues, queue[q] # <<>>
    PROVE  /\ Take(q) \in [Queues -> Seq(Cells)]
           /\ Head(queue[q]) \in Cells
<1>1. queue[q] \in Seq(Cells) /\ queue \in [Queues -> Seq(Cells)]
  BY DEF TypeOK
<1>2. Tail(queue[q]) \in Seq(Cells) /\ Head(queue[q]) \in Cells
  BY <1>1
<1> QED
  BY <1>1, <1>2 DEF Take

(* A pump's position and the cell it holds change together.                *)
LEMMA HeldType ==
    ASSUME TypeOK, NEW d \in Directions, NEW p \in {"read", "write", "ended"},
           NEW h \in Seq(Cells), Len(h) = IF p = "write" THEN 1 ELSE 0,
           pump' = [pump EXCEPT ![d] = p], held' = [held EXCEPT ![d] = h]
    PROVE  /\ pump' \in [Directions -> {"off", "read", "write", "ended"}]
           /\ held' \in [Directions -> Seq(Cells)]
           /\ \A e \in Directions : Len(held'[e]) = IF pump'[e] = "write" THEN 1 ELSE 0
<1>1. pump \in [Directions -> {"off", "read", "write", "ended"}]
      /\ held \in [Directions -> Seq(Cells)]
  BY DEF TypeOK
<1>2. \A e \in Directions :
         /\ e = d => pump'[e] = p /\ held'[e] = h
         /\ e # d => pump'[e] = pump[e] /\ held'[e] = held[e]
  BY <1>1
<1>3. \A e \in Directions : Len(held'[e]) = IF pump'[e] = "write" THEN 1 ELSE 0
  BY <1>2 DEF TypeOK
<1> QED
  BY <1>1, <1>3

(* A peer's write keeps the types.                                         *)
LEMMA WriteType ==
    ASSUME TypeOK, NEW d \in Directions, NEW c \in Cells, PeerWrites(d, c)
    PROVE  TypeOK'
<1>1. queue' \in [Queues -> Seq(Cells)]
  <2>1. In[d] \in Queues
    BY Wires
  <2>2. Put(In[d], c) \in [Queues -> Seq(Cells)]
    BY <2>1, PutType
  <2> QED
    BY <2>2 DEF PeerWrites, TypeOK
<1>2. sent' \in [Directions -> Seq(Cells)]
  <2>1. Append(sent[d], c) \in Seq(Cells)
    BY DEF TypeOK
  <2> QED
    BY <2>1 DEF PeerWrites, TypeOK
<1> QED
  BY <1>1, <1>2 DEF PeerWrites, TypeOK

(* The held cells are only known to be gone when the pumps start because   *)
(* these were off.                                                         *)
LEMMA TypeStep == TypeOK /\ PumpInv /\ [Next]_vars => TypeOK'
<1> SUFFICES ASSUME TypeOK, PumpInv, [Next]_vars
             PROVE  TypeOK'
  OBVIOUS
<1>0. <<>> \in Seq(Cells) /\ Len(<<>>) = 0
  OBVIOUS
<1>1. CASE ReadHandshake
  <2>1. queue' \in [Queues -> Seq(Cells)]
    BY <1>1, TakeType DEF ReadHandshake, Queues
  <2>2. stage' \in {"dial", "returned"} /\ closed' \in SUBSET Ends
    BY <1>1 DEF ReadHandshake, Return, TypeOK, Ends
  <2> QED
    BY <1>1, <2>1, <2>2 DEF ReadHandshake, TypeOK
<1>2. CASE Dial
  <2>1. Cell("new", "Create", 0, FALSE) \in Cells
    BY DEF Cell, Cells
  <2>2. queue' \in [Queues -> Seq(Cells)]
    BY <1>2, <2>1, PutType DEF Dial, Queues
  <2> QED
    BY <1>2, <2>2 DEF Dial, TypeOK
<1>3. CASE ReadCreated
  <2> DEFINE c == Head(queue["fromForeign"])
  <2>1. "fromForeign" \in Queues /\ "toClient" \in Queues /\ "down" \in Directions
    BY DEF Queues, Directions
  <2>2. c \in Cells /\ Take("fromForeign") \in [Queues -> Seq(Cells)]
    BY <1>3, <2>1, TakeType DEF ReadCreated
  <2>3. Renamed("down", c) \in Cells
    BY <2>1, <2>2, RenamedCell
  <2> DEFINE q == Take("fromForeign")
  <2> DEFINE r == Renamed("down", c)
  <2>4. \/ queue' = q
        \/ queue' = [q EXCEPT !["toClient"] = Append(@, r)]
    BY <1>3 DEF ReadCreated
  <2>5. queue' \in [Queues -> Seq(Cells)]
    <3> HIDE DEF q, r
    <3>1. q \in [Queues -> Seq(Cells)] /\ r \in Cells
      BY <2>2, <2>3 DEF q, r
    <3>2. Append(q["toClient"], r) \in Seq(Cells)
      BY <2>1, <3>1
    <3> QED
      BY <2>1, <2>4, <3>1, <3>2
  <2>6. stage' \in {"pipe", "returned"} /\ closed' \in SUBSET Ends
    BY <1>3 DEF ReadCreated, Return, TypeOK, Ends
  <2>7. CASE UNCHANGED pump
    BY <1>3, <2>5, <2>6, <2>7 DEF ReadCreated, TypeOK
  <2>8. CASE StartPumps
    <3>1. \A d \in Directions : pump[d] = "off" /\ pump'[d] = "read"
      BY <1>3, <2>8 DEF ReadCreated, PumpInv, Setup, StartPumps
    <3>2. pump' \in [Directions -> {"off", "read", "write", "ended"}]
      BY <2>8 DEF StartPumps
    <3> QED
      BY <1>3, <2>5, <2>6, <3>1, <3>2 DEF ReadCreated, TypeOK
  <2> QED
    BY <1>3, <2>7, <2>8 DEF ReadCreated
<1>4. CASE SetupFails
  <2>1. stage' = "returned" /\ closed' \in SUBSET Ends
    BY <1>4 DEF SetupFails, Return, Ends, TypeOK
  <2> QED
    BY <1>4, <2>1 DEF SetupFails, TypeOK
<1>5. CASE Done
  <2>1. stage' = "returned" /\ closed' \in SUBSET Ends
    BY <1>5 DEF Done, Return, Ends, TypeOK
  <2> QED
    BY <1>5, <2>1 DEF Done, TypeOK
<1>6. CASE ClientWrites
  <2> DEFINE n == Len(sent["up"])
  <2>1. n \in Nat
    BY DEF Directions, TypeOK
  <2>2. PICK circ \in {"sentinel", "other"}, cmd \in Commands \cup {"Create"}, token \in BOOLEAN :
           PeerWrites("up", Cell(circ, cmd, n, token))
    BY <1>6 DEF ClientWrites
  <2>3. Cell(circ, cmd, n, token) \in Cells
    BY <2>1 DEF Cell, Cells
  <2> QED
    BY <2>2, <2>3, WriteType DEF Directions
<1>7. CASE ForeignWrites
  <2> DEFINE n == Len(sent["down"])
  <2>1. n \in Nat
    BY DEF Directions, TypeOK
  <2>2. PICK cmd \in Commands \cup {"Created"} : PeerWrites("down", Cell("new", cmd, n, FALSE))
    BY <1>7 DEF ForeignWrites
  <2>3. Cell("new", cmd, n, FALSE) \in Cells
    BY <2>1 DEF Cell, Cells
  <2> QED
    BY <2>2, <2>3, WriteType DEF Directions
<1>8. ASSUME NEW d \in Directions, PumpRead(d)
      PROVE  TypeOK'
  <2>1. In[d] \in Queues /\ queue[In[d]] # <<>>
    BY <1>8, Wires DEF PumpRead
  <2>2. Head(queue[In[d]]) \in Cells /\ Take(In[d]) \in [Queues -> Seq(Cells)]
    BY <2>1, TakeType
  <2> DEFINE h == <<Head(queue[In[d]])>>
  <2>3. h \in Seq(Cells) /\ Len(h) = 1
    BY <2>2
  <2>4. pump' = [pump EXCEPT ![d] = "write"] /\ held' = [held EXCEPT ![d] = h]
    BY <1>8 DEF PumpRead
  <2> HIDE DEF h
  <2>5. /\ pump' \in [Directions -> {"off", "read", "write", "ended"}]
        /\ held' \in [Directions -> Seq(Cells)]
        /\ \A e \in Directions : Len(held'[e]) = IF pump'[e] = "write" THEN 1 ELSE 0
    BY <2>3, <2>4, HeldType
  <2> QED
    BY <1>8, <2>2, <2>5 DEF PumpRead, TypeOK
<1>9. ASSUME NEW d \in Directions, PumpReadFails(d)
      PROVE  TypeOK'
  BY <1>9 DEF PumpReadFails, TypeOK
<1>10. ASSUME NEW d \in Directions, PumpWrite(d)
       PROVE  TypeOK'
  <2>1. held[d] \in Seq(Cells) /\ Len(held[d]) = 1
    BY <1>10 DEF PumpWrite, TypeOK
  <2>2. held[d][1] \in Cells
    BY <2>1
  <2>3. Renamed(d, held[d][1]) \in Cells /\ Out[d] \in Queues
    BY <2>2, RenamedCell, Wires
  <2>4. queue' \in [Queues -> Seq(Cells)]
    <3>1. Put(Out[d], Renamed(d, held[d][1])) \in [Queues -> Seq(Cells)]
      BY <2>3, PutType
    <3> QED
      BY <1>10, <3>1 DEF PumpWrite, TypeOK
  <2> DEFINE h == <<>>
  <2>h. /\ h \in Seq(Cells) /\ Len(h) = 0
        /\ pump' = [pump EXCEPT ![d] = "read"] /\ held' = [held EXCEPT ![d] = h]
    BY <1>0, <1>10 DEF PumpWrite
  <2> HIDE DEF h
  <2>5. /\ pump' \in [Directions -> {"off", "read", "write", "ended"}]
        /\ held' \in [Directions -> Seq(Cells)]
        /\ \A e \in Directions : Len(held'[e]) = IF pump'[e] = "write" THEN 1 ELSE 0
    BY <2>h, HeldType
  <2> QED
    BY <1>10, <2>4, <2>5 DEF PumpWrite, TypeOK
<1>11. ASSUME NEW d \in Directions, PumpWriteFails(d)
       PROVE  TypeOK'
  <2> DEFINE h == <<>>
  <2>h. /\ h \in Seq(Cells) /\ Len(h) = 0
        /\ pump' = [pump EXCEPT ![d] = "ended"] /\ held' = [held EXCEPT ![d] = h]
    BY <1>0, <1>11 DEF PumpWriteFails
  <2> HIDE DEF h
  <2>1. /\ pump' \in [Directions -> {"off", "read", "write", "ended"}]
        /\ held' \in [Directions -> Seq(Cells)]
        /\ \A e \in Directions : Len(held'[e]) = IF pump'[e] = "write" THEN 1 ELSE 0
    BY <2>h, HeldType
  <2> QED
    BY <1>11, <2>1 DEF PumpWriteFails, TypeOK
<1>12. ASSUME NEW d \in Directions, PeerReads(d)
       PROVE  TypeOK'
  <2>1. Out[d] \in Queues /\ queue[Out[d]] # <<>>
    BY <1>12, Wires DEF PeerReads
  <2>2. Head(queue[Out[d]]) \in Cells /\ Take(Out[d]) \in [Queues -> Seq(Cells)]
    BY <2>1, TakeType
  <2>3. Append(got[d], Head(queue[Out[d]])) \in Seq(Cells)
    BY <2>2 DEF TypeOK
  <2> QED
    BY <1>12, <2>2, <2>3 DEF PeerReads, TypeOK
<1>13. ASSUME NEW d \in Directions, PeerCloses(d)
       PROVE  TypeOK'
  <2> DEFINE back == CHOOSE e \in Directions : e # d
  <2>1. closed' = closed \cup {Source[d]} /\ Source[d] \in Ends /\ In[d] \in Queues
    BY <1>13, Wires DEF PeerCloses
  <2>2. PICK rest \in {queue[In[d]], <<>>} :
           queue' = [queue EXCEPT ![In[d]] = rest, ![Out[back]] = <<>>]
    BY <1>13 DEF PeerCloses
  <2> HIDE DEF back
  <2>3. rest \in Seq(Cells)
    BY <1>0, <2>1 DEF TypeOK
  <2>4. queue' \in [Queues -> Seq(Cells)]
    BY <1>0, <2>2, <2>3 DEF TypeOK
  <2> QED
    BY <1>13, <2>1, <2>4 DEF PeerCloses, TypeOK
<1>14. CASE UNCHANGED vars
  BY <1>14 DEF vars, TypeOK
<1> QED
  BY <1>1, <1>2, <1>3, <1>4, <1>5, <1>6, <1>7, <1>8, <1>9, <1>10, <1>11, <1>12, <1>13, <1>14
  DEF Next, Session, Pump

-----------------------------------------------------------------------------
(* What the steps leave alone.                                             *)

(* A direction the step does not touch, or for which nobody reads on.      *)
LEMMA Frame ==
    ASSUME FlowInv, NEW e \in Directions,
           closed \subseteq closed', Target[e] \notin closed',
           sent'[e] = sent[e], got'[e] = got[e], queue'[Out[e]] = queue[Out[e]],
           Feeding(e)' => /\ Feeding(e)
                          /\ Carried(e)' = Carried(e)
                          /\ queue'[In[e]] = queue[In[e]]
    PROVE  FlowOK(e)'
<1>1. FlowOK(e)
  BY DEF FlowInv
<1>2. Whole(e)' => Whole(e)
  BY DEF Whole
<1>3. OutOK(e, sent'[e], got'[e], queue'[Out[e]])
  BY <1>1 DEF FlowOK
<1>4. ASSUME Feeding(e)'
      PROVE  InOK(sent'[e], Len(got'[e]) + Len(queue'[Out[e]]), Carried(e)', queue'[In[e]],
                  Whole(e)')
  <2>1. InOK(sent[e], Passed(e), Carried(e), queue[In[e]], Whole(e))
    BY <1>1, <1>4 DEF FlowOK
  <2>2. InOK(sent[e], Passed(e), Carried(e), queue[In[e]], Whole(e)')
    BY <1>2, <2>1 DEF InOK
  <2> QED
    BY <1>4, <2>2 DEF Passed
<1> QED
  BY <1>3, <1>4 DEF FlowOK, Passed

(* What has passed the bridge is a number of cells.                        *)
LEMMA PassedNat ==
    ASSUME TypeOK, NEW d \in Directions
    PROVE  Passed(d) \in Nat
<1> DEFINE x == Len(got[d])
<1> DEFINE y == Len(queue[Out[d]])
<1>1. got[d] \in Seq(Cells) /\ queue[Out[d]] \in Seq(Cells)
  BY Wires DEF TypeOK
<1>2. x \in Nat /\ y \in Nat
  BY <1>1
<1>3. Passed(d) = x + y
  BY DEF Passed
<1> HIDE DEF x, y
<1> QED
  BY <1>2, <1>3

(* What the bridge carries are cells.                                      *)
LEMMA CarriedType ==
    ASSUME IInv, NEW d \in Directions
    PROVE  Carried(d) \in Seq(Cells)
<1>1. CASE d = "up" /\ stage = "dial"
  <2> DEFINE s == sent["up"]
  <2>1. s # <<>> /\ s \in Seq(Cells)
    BY <1>1 DEF IInv, SetupInv, TypeOK
  <2>2. s[1] \in Cells
    <3> HIDE DEF s
    <3> QED
      BY <2>1
  <2>3. Carried(d) = <<s[1]>>
    BY <1>1 DEF Carried
  <2> QED
    BY <2>2, <2>3
<1>2. CASE ~ (d = "up" /\ stage = "dial")
  BY <1>2 DEF Carried, IInv, TypeOK
<1> QED
  BY <1>1, <1>2

-----------------------------------------------------------------------------
(* The steps of the session and its pumps preserve the invariant: one      *)
(* lemma per action, in it one step per conjunct.                          *)

(* A set-up that fails: no pump was started, so nobody reads on.           *)
LEMMA SetupFailsStep ==
    ASSUME IInv, SetupFails
    PROVE  PumpInv' /\ TokenInv' /\ SetupInv' /\ FirstInv' /\ FlowInv'
<1>1. /\ stage' = "returned" /\ closed \subseteq closed'
      /\ UNCHANGED <<pump, held, queue, sent, got>>
  BY DEF SetupFails, Return
<1>2. \A d \in Directions : pump[d] = "off"
  BY DEF IInv, PumpInv, SetupFails, Setup
<1>3. \A d \in Directions : ~ Feeding(d)'
  BY <1>1, <1>2 DEF Feeding, Setup
<1>4. PumpInv' /\ SetupInv'
  BY <1>1 DEF PumpInv, SetupInv, Setup
<1>5. TokenInv'
  BY <1>1 DEF IInv, TokenInv
<1>6. FirstInv'
  BY <1>3 DEF FirstInv, Directions
<1>7. ASSUME NEW e \in Directions, Target[e] \notin closed'
      PROVE  FlowOK(e)'
  BY <1>1, <1>3, <1>7, Frame DEF IInv
<1> QED
  BY <1>4, <1>5, <1>6, <1>7 DEF FlowInv

(* The session returns: what is unread may be lost, the order is kept.     *)
LEMMA DoneStep ==
    ASSUME IInv, Done
    PROVE  PumpInv' /\ TokenInv' /\ SetupInv' /\ FirstInv' /\ FlowInv'
<1>1. /\ stage = "pipe" /\ stage' = "returned" /\ closed \subseteq closed'
      /\ UNCHANGED <<pump, held, queue, sent, got>>
  BY DEF Done, Return
<1>2. \A d \in Directions : Feeding(d)' => Feeding(d) /\ Carried(d)' = Carried(d)
  BY <1>1 DEF Feeding, Setup, Carried
<1>3. PumpInv' /\ SetupInv'
  BY <1>1 DEF PumpInv, SetupInv, Setup
<1>4. TokenInv'
  BY <1>1 DEF IInv, TokenInv
<1>5. FirstInv'
  BY <1>1, <1>2 DEF IInv, FirstInv, Directions, Passed
<1>6. ASSUME NEW e \in Directions, Target[e] \notin closed'
      PROVE  FlowOK(e)'
  BY <1>1, <1>2, <1>6, Frame DEF IInv
<1> QED
  BY <1>3, <1>4, <1>5, <1>6 DEF FlowInv

(* The handshake is the first cell the client wrote; it is now carried.    *)
LEMMA ReadHandshakeStep ==
    ASSUME IInv, ReadHandshake
    PROVE  PumpInv' /\ TokenInv' /\ SetupInv' /\ FirstInv' /\ FlowInv'
<1> DEFINE in == queue["fromClient"]
<1> DEFINE s == sent["up"]
<1>1. /\ stage = "handshake" /\ in # <<>> /\ closed \subseteq closed'
      /\ queue' = [queue EXCEPT !["fromClient"] = Tail(in)]
      /\ UNCHANGED <<pump, held, sent, got>>
      /\ \/ stage' = "dial" /\ Head(in).cmd = "Create" /\ closed' = closed
         \/ stage' = "returned"
  BY DEF ReadHandshake, Return, Take
<1>2. /\ queue \in [Queues -> Seq(Cells)] /\ s \in Seq(Cells) /\ in \in Seq(Cells)
      /\ held["up"] = <<>> /\ \A d \in Directions : pump[d] = "off"
  <2>1. \A d \in Directions : pump[d] = "off"
    BY <1>1 DEF IInv, PumpInv, Setup
  <2>2. held["up"] \in Seq(Cells) /\ Len(held["up"]) = 0
    BY <2>1 DEF IInv, TypeOK, Directions
  <2>3. held["up"] = <<>>
    BY <2>2
  <2> QED
    BY <2>1, <2>3 DEF IInv, TypeOK, Queues, Directions
<1>3. /\ queue'["fromClient"] = Tail(in)
      /\ \A q \in Queues : q # "fromClient" => queue'[q] = queue[q]
  BY <1>1, <1>2 DEF Queues
<1>4. /\ queue["toForeign"] = <<>> /\ got["up"] = <<>> /\ "foreign" \notin closed
      /\ Passed("up") = 0
  <2>1. queue["toForeign"] = <<>> /\ got["up"] = <<>> /\ "foreign" \notin closed
    BY <1>1 DEF IInv, SetupInv
  <2>2. Len(<<>>) = 0 /\ 0 + 0 = 0 /\ Out["up"] = "toForeign"
    BY DEF Out
  <2>3. Passed("up") = 0
    BY <2>1, <2>2, Zenon DEF Passed
  <2> QED
    BY <2>1, <2>3
<1>5. /\ In["up"] = "fromClient" /\ Out["up"] = "toForeign" /\ Target["up"] = "foreign"
      /\ "up" \in Directions
  BY DEF In, Out, Target, Directions
<1>6. InOK(s, 0, <<Head(in)>>, Tail(in), Whole("up"))
  <2>1. Feeding("up") /\ Carried("up") = <<>>
    BY <1>1, <1>2 DEF Feeding, Carried, Setup
  <2>2. InOK(s, 0, <<>>, in, Whole("up"))
    BY <1>4, <1>5, <2>1 DEF IInv, FlowInv, FlowOK
  <2> QED
    BY <1>1, <1>2, <2>2, MoveRead
<1>7. s # <<>> /\ s[1] = Head(in)
  <2> DEFINE h == <<Head(in)>>
  <2>1. Len(h) = 1 /\ h[1] = Head(in) /\ Len(Tail(in)) \in Nat /\ Len(s) \in Nat
    BY <1>1, <1>2
  <2> HIDE DEF h
  <2>2. InOK(s, 0, h, Tail(in), Whole("up"))
    BY <1>6 DEF h
  <2>3. 1 <= Len(s) /\ h[1] = s[1]
    BY <2>1, <2>2 DEF InOK
  <2> QED
    BY <1>2, <2>1, <2>3
<1>8. PumpInv'
  BY <1>1, <1>2 DEF PumpInv
<1>9. TokenInv'
  BY <1>1 DEF IInv, TokenInv
<1>10. SetupInv'
  BY <1>1, <1>3, <1>4, <1>7 DEF SetupInv, Queues
<1>11. FirstInv'
  BY <1>1, <1>2, <1>5 DEF FirstInv, Feeding, Setup
<1>12. ASSUME NEW e \in Directions, Target[e] \notin closed'
       PROVE  FlowOK(e)'
  <2>1. CASE e = "down" \/ stage' = "returned"
    <3>1. Out[e] \in Queues \ {"fromClient"} /\ (e = "down" => In[e] \in Queues \ {"fromClient"})
      BY DEF Out, In, Queues, Directions
    <3>2. queue'[Out[e]] = queue[Out[e]] /\ (e = "down" => queue'[In[e]] = queue[In[e]])
      BY <1>3, <3>1
    <3>3. Feeding(e)' => Feeding(e) /\ e = "down"
      BY <1>1, <1>2, <2>1 DEF Feeding, Setup
    <3>4. e = "down" => Carried(e)' = Carried(e)
      BY <1>1 DEF Carried
    <3> QED
      BY <1>1, <1>12, <3>2, <3>3, <3>4, Frame DEF IInv
  <2>2. CASE e = "up" /\ stage' = "dial"
    <3>1. closed' = closed /\ Whole(e)' = Whole(e)
      BY <1>1, <2>2 DEF Whole
    <3>2. FlowOK(e)
      BY <1>12, <3>1 DEF IInv, FlowInv
    <3>3. queue'[Out[e]] = queue[Out[e]] /\ queue'[In[e]] = Tail(in)
      BY <1>3, <1>5, <2>2 DEF Queues
    <3>4. Carried(e)' = <<Head(in)>> /\ Passed(e)' = 0
      <4>1. Carried(e)' = <<Head(in)>>
        BY <1>1, <1>7, <2>2 DEF Carried
      <4>2. Passed(e)' = Passed(e)
        BY <1>1, <3>3 DEF Passed
      <4> QED
        BY <1>4, <2>2, <4>1, <4>2
    <3>5. OutOK(e, sent[e], got[e], queue[Out[e]])'
      BY <1>1, <3>2, <3>3 DEF FlowOK
    <3>6. InOK(sent[e], Passed(e), Carried(e), queue[In[e]], Whole(e))'
      BY <1>1, <1>6, <2>2, <3>1, <3>3, <3>4
    <3> QED
      BY <3>5, <3>6 DEF FlowOK
  <2> QED
    BY <1>1, <2>1, <2>2 DEF Directions
<1> QED
  BY <1>8, <1>9, <1>10, <1>11, <1>12 DEF FlowInv

(* The Create is what the handshake becomes.                               *)
LEMMA DialStep ==
    ASSUME IInv, Dial
    PROVE  PumpInv' /\ TokenInv' /\ SetupInv' /\ FirstInv' /\ FlowInv'
<1> DEFINE s == sent["up"]
<1> DEFINE g == got["up"]
<1> DEFINE in == queue["fromClient"]
<1> DEFINE out == queue["toForeign"]
<1> DEFINE c == Cell("new", "Create", 0, FALSE)
<1>1. /\ stage = "dial" /\ stage' = "created"
      /\ queue' = [queue EXCEPT !["toForeign"] = Append(out, c)]
      /\ UNCHANGED <<pump, held, closed, sent, got>>
  BY DEF Dial, Put
<1>2. /\ queue \in [Queues -> Seq(Cells)] /\ s \in Seq(Cells) /\ in \in Seq(Cells)
      /\ out \in Seq(Cells) /\ g \in Seq(Cells)
  BY DEF IInv, TypeOK, Queues, Directions
<1>3. held["up"] = <<>> /\ \A d \in Directions : pump[d] = "off"
  <2>1. \A d \in Directions : pump[d] = "off"
    BY <1>1 DEF IInv, PumpInv, Setup
  <2>2. held["up"] \in Seq(Cells) /\ Len(held["up"]) = 0
    BY <2>1 DEF IInv, TypeOK, Directions
  <2>3. held["up"] = <<>>
    BY <2>2
  <2> QED
    BY <2>1, <2>3
<1>4. /\ queue'["toForeign"] = Append(out, c)
      /\ \A q \in Queues : q # "toForeign" => queue'[q] = queue[q]
  BY <1>1, <1>2 DEF Queues
<1>5. /\ In["up"] = "fromClient" /\ Out["up"] = "toForeign" /\ Target["up"] = "foreign"
      /\ "up" \in Directions /\ "fromClient" \in Queues /\ "fromClient" # "toForeign"
  BY DEF In, Out, Target, Directions, Queues
<1>6. s # <<>> /\ s[1].cmd = "Create" /\ s[1].n = 0 /\ "foreign" \notin closed
  BY <1>1 DEF IInv, SetupInv, TokenInv
<1>7. s[1] \in Cells
  BY <1>2, <1>6
<1>8. c \in Cells
  BY DEF Cell, Cells
<1>9. c = Trans("up", s[1])
  BY <1>6, <1>7, CreateCell
<1> HIDE DEF c
<1>10. OutOK("up", s, g, out) /\ InOK(s, Len(g) + Len(out), <<s[1]>>, in, Whole("up"))
  <2>1. FlowOK("up")
    BY <1>5, <1>6 DEF IInv, FlowInv
  <2>2. Feeding("up") /\ Carried("up") = <<s[1]>>
    BY <1>1 DEF Feeding, Carried, Setup
  <2> QED
    BY <1>5, <2>1, <2>2 DEF FlowOK, Passed
<1>11. /\ OutOK("up", s, g, Append(out, c))
       /\ InOK(s, Len(g) + Len(Append(out, c)), <<>>, in, Whole("up"))
  <2> DEFINE h == <<s[1]>>
  <2>1. h \in Seq(Cells) /\ Len(h) = 1 /\ h[1] = s[1]
    BY <1>7
  <2> HIDE DEF h
  <2>2. InOK(s, Len(g) + Len(out), h, in, Whole("up"))
    BY <1>10 DEF h
  <2>3. c = Trans("up", h[1])
    BY <1>9, <2>1
  <2> DEFINE w == Whole("up")
  <2> HIDE DEF s, g, in, out, w
  <2>4. /\ OutOK("up", s, g, Append(out, Trans("up", h[1])))
        /\ InOK(s, Len(g) + Len(Append(out, Trans("up", h[1]))), <<>>, in, w)
    <3>1. InOK(s, Len(g) + Len(out), h, in, w) /\ Trans("up", h[1]) \in Cells
      BY <1>8, <2>2, <2>3 DEF w
    <3> QED
      BY <1>2, <1>10, <2>1, <3>1, MoveWrite
  <2> QED
    BY <2>3, <2>4 DEF w
<1>12. PumpInv'
  BY <1>1, <1>3 DEF PumpInv
<1>13. TokenInv'
  BY <1>1 DEF IInv, TokenInv
<1>14. SetupInv'
  BY <1>1 DEF SetupInv
<1>15. FirstInv'
  <2>1. Len(Append(out, c)) = Len(out) + 1 /\ Len(out) \in Nat /\ Len(g) \in Nat
    BY <1>2, <1>8
  <2>2. Passed("up")' = Len(g) + Len(Append(out, c))
    BY <1>1, <1>4, <1>5 DEF Passed
  <2>3. Len(g) + Len(Append(out, c)) > 0
    <3> HIDE DEF g, out
    <3> QED
      BY <2>1
  <2>4. Passed("up")' > 0
    BY <2>2, <2>3, Zenon
  <2> QED
    BY <2>4 DEF FirstInv
<1>16. ASSUME NEW e \in Directions, Target[e] \notin closed'
       PROVE  FlowOK(e)'
  <2>1. CASE e = "down"
    <3>1. Out[e] \in Queues \ {"toForeign"} /\ In[e] \in Queues \ {"toForeign"}
      BY <2>1 DEF Out, In, Queues
    <3>2. queue'[Out[e]] = queue[Out[e]] /\ queue'[In[e]] = queue[In[e]]
      BY <1>4, <3>1
    <3>3. Feeding(e) /\ Carried(e)' = Carried(e)
      BY <1>1, <2>1 DEF Feeding, Setup, Carried
    <3> QED
      BY <1>1, <1>16, <3>2, <3>3, Frame DEF IInv
  <2>2. CASE e = "up"
    <3>1. Carried(e)' = <<>> /\ Whole(e)' = Whole("up")
      BY <1>1, <1>3, <2>2 DEF Carried, Whole
    <3>2. OutOK(e, sent[e], got[e], queue[Out[e]])'
      BY <1>1, <1>4, <1>5, <1>11, <2>2
    <3>3. Passed(e)' = Len(g) + Len(Append(out, c)) /\ queue'[In[e]] = in
      BY <1>1, <1>4, <1>5, <2>2 DEF Passed
    <3>4. InOK(sent[e], Passed(e), Carried(e), queue[In[e]], Whole(e))'
      BY <1>1, <1>11, <2>2, <3>1, <3>3
    <3> QED
      BY <3>2, <3>4 DEF FlowOK
  <2> QED
    BY <2>1, <2>2 DEF Directions
<1> QED
  BY <1>12, <1>13, <1>14, <1>15, <1>16 DEF FlowInv

(* Created passes straight from one connection to the other.               *)
LEMMA ReadCreatedStep ==
    ASSUME IInv, ReadCreated
    PROVE  PumpInv' /\ TokenInv' /\ SetupInv' /\ FirstInv' /\ FlowInv'
<1> DEFINE s == sent["down"]
<1> DEFINE g == got["down"]
<1> DEFINE in == queue["fromForeign"]
<1> DEFINE out == queue["toClient"]
<1> DEFINE c == Renamed("down", Head(in))
<1>1. /\ stage = "created" /\ in # <<>> /\ closed \subseteq closed'
      /\ UNCHANGED <<held, sent, got>>
  BY DEF ReadCreated, Return
<1>2. /\ queue \in [Queues -> Seq(Cells)] /\ s \in Seq(Cells) /\ in \in Seq(Cells)
      /\ out \in Seq(Cells) /\ g \in Seq(Cells)
  BY DEF IInv, TypeOK, Queues, Directions
<1>3. \A d \in Directions : pump[d] = "off" /\ held[d] = <<>>
  <2> SUFFICES ASSUME NEW d \in Directions
               PROVE  pump[d] = "off" /\ held[d] = <<>>
    OBVIOUS
  <2>1. pump[d] = "off"
    BY <1>1 DEF IInv, PumpInv, Setup
  <2>2. held[d] \in Seq(Cells) /\ Len(held[d]) = 0
    BY <2>1 DEF IInv, TypeOK
  <2>3. held[d] = <<>>
    BY <2>2
  <2> QED
    BY <2>1, <2>3
<1>4. \/ stage' = "returned" /\ pump' = pump /\ queue' = Take("fromForeign")
      \/ /\ stage' = "pipe" /\ closed' = closed
         /\ \A d \in Directions : pump'[d] = "read"
         /\ "client" \in closed /\ queue' = Take("fromForeign")
      \/ /\ stage' = "pipe" /\ closed' = closed
         /\ \A d \in Directions : pump'[d] = "read"
         /\ queue' = [Take("fromForeign") EXCEPT !["toClient"] = Append(@, c)]
  BY DEF ReadCreated, Return, StartPumps
<1>5. /\ In["down"] = "fromForeign" /\ Out["down"] = "toClient" /\ Target["down"] = "client"
      /\ In["up"] = "fromClient" /\ Out["up"] = "toForeign" /\ Target["up"] = "foreign"
      /\ "up" \in Directions /\ "down" \in Directions
  BY DEF In, Out, Target, Directions
<1> HIDE DEF c
<1>6. /\ queue'["fromForeign"] = Tail(in)
      /\ queue'["fromClient"] = queue["fromClient"] /\ queue'["toForeign"] = queue["toForeign"]
      /\ \/ queue'["toClient"] = out /\ (stage' = "returned" \/ "client" \in closed)
         \/ queue'["toClient"] = Append(out, c) /\ stage' = "pipe" /\ closed' = closed
  BY <1>2, <1>4 DEF Take, Queues
<1>7. stage' \in {"pipe", "returned"} /\ \A d \in Directions : Feeding(d) /\ Carried(d) = held[d]
  BY <1>1, <1>4 DEF Feeding, Setup, Carried
<1>8. \A d \in Directions : Carried(d)' = held[d] /\ (Feeding(d)' => stage' = "pipe")
  BY <1>1, <1>3, <1>4, <1>7 DEF Feeding, Setup, Carried
<1>9. PumpInv' /\ SetupInv'
  BY <1>7 DEF PumpInv, SetupInv, Setup
<1>10. TokenInv'
  BY <1>1 DEF IInv, TokenInv
<1>11. FirstInv'
  <2>1. Passed("up")' = Passed("up")
    BY <1>1, <1>5, <1>6 DEF Passed
  <2>2. "foreign" \notin closed' => Passed("up") > 0
    BY <1>1, <1>5, <1>7 DEF IInv, FirstInv
  <2> QED
    BY <2>1, <2>2 DEF FirstInv
<1>12. ASSUME NEW e \in Directions, Target[e] \notin closed'
       PROVE  FlowOK(e)'
  <2>1. CASE e = "up"
    BY <1>1, <1>5, <1>6, <1>7, <1>8, <1>12, <2>1, Frame DEF IInv
  <2>2. CASE e = "down" /\ stage' = "returned"
    <3>1. queue'["toClient"] = out
      BY <1>6, <2>2
    <3> QED
      BY <1>1, <1>5, <1>8, <1>12, <2>2, <3>1, Frame DEF IInv
  <2>3. CASE e = "down" /\ stage' = "pipe"
    <3>1. /\ closed' = closed /\ "client" \notin closed
          /\ queue'["toClient"] = Append(out, c)
      BY <1>1, <1>4, <1>5, <1>6, <1>12, <2>3
    <3>2. OutOK("down", s, g, out) /\ InOK(s, Len(g) + Len(out), <<>>, in, Whole("down"))
      BY <1>3, <1>5, <1>7, <3>1 DEF IInv, FlowInv, FlowOK, Passed
    <3>3. /\ Len(g) \in Nat /\ Len(out) \in Nat /\ Len(g) + Len(out) \in Nat
          /\ Head(in) \in Cells /\ Tail(in) \in Seq(Cells)
      <4> HIDE DEF s, g, in, out
      <4>1. Len(g) \in Nat /\ Len(out) \in Nat /\ Head(in) \in Cells /\ Tail(in) \in Seq(Cells)
        BY <1>1, <1>2
      <4> QED
        BY <4>1
    <3> DEFINE h == <<Head(in)>>
    <3>4. InOK(s, Len(g) + Len(out), h, Tail(in), Whole("down"))
      BY <1>1, <1>2, <3>2, <3>3, MoveRead
    <3>5. h \in Seq(Cells) /\ Len(h) = 1 /\ h[1] = Head(in)
      BY <3>3
    <3> HIDE DEF h
    <3>6. h[1] = s[Len(g) + Len(out) + 1] /\ Len(g) + Len(out) + 1 \in 1..Len(s)
      <4> HIDE DEF s, g, in, out
      <4>1. Len(s) \in Nat /\ Len(Tail(in)) \in Nat
        BY <1>2, <3>3
      <4> QED
        BY <3>3, <3>4, <3>5, <4>1 DEF InOK
    <3>7. ~ h[1].token
      BY <1>5, <3>6 DEF IInv, TokenInv
    <3>8. c \in Cells /\ c = Trans("down", h[1])
      BY <1>5, <3>3, <3>5, <3>7, RenamedCell DEF c
    <3>9. /\ OutOK("down", s, g, Append(out, c))
          /\ InOK(s, Len(g) + Len(Append(out, c)), <<>>, Tail(in), Whole("down"))
      <4> DEFINE w == Whole("down")
      <4> DEFINE rest == Tail(in)
      <4> HIDE DEF s, g, in, out, w, rest
      <4>1. /\ OutOK("down", s, g, Append(out, Trans("down", h[1])))
            /\ InOK(s, Len(g) + Len(Append(out, Trans("down", h[1]))), <<>>, rest, w)
        <5>1. /\ InOK(s, Len(g) + Len(out), h, rest, w) /\ Trans("down", h[1]) \in Cells
              /\ rest \in Seq(Cells)
          BY <3>3, <3>4, <3>8 DEF w, rest
        <5> QED
          BY <1>2, <3>2, <3>5, <5>1, MoveWrite
      <4> QED
        BY <3>8, <4>1 DEF w, rest
    <3>10. Carried(e)' = <<>> /\ Whole(e)' = Whole("down")
      BY <1>3, <1>8, <2>3, <3>1 DEF Whole
    <3>11. Passed(e)' = Len(g) + Len(Append(out, c)) /\ queue'[In[e]] = Tail(in)
      BY <1>1, <1>5, <1>6, <2>3, <3>1 DEF Passed
    <3>12. OutOK(e, sent[e], got[e], queue[Out[e]])'
      BY <1>1, <1>5, <2>3, <3>1, <3>9
    <3>13. InOK(sent[e], Passed(e), Carried(e), queue[In[e]], Whole(e))'
      BY <1>1, <2>3, <3>9, <3>10, <3>11
    <3> QED
      BY <3>12, <3>13 DEF FlowOK
  <2> QED
    BY <1>7, <2>1, <2>2, <2>3 DEF Directions
<1> QED
  BY <1>9, <1>10, <1>11, <1>12 DEF FlowInv

(* A pump takes the next cell.                                             *)
LEMMA PumpReadStep ==
    ASSUME IInv, NEW d \in Directions, PumpRead(d)
    PROVE  PumpInv' /\ TokenInv' /\ SetupInv' /\ FirstInv' /\ FlowInv'
<1> DEFINE in == queue[In[d]]
<1>1. /\ pump[d] = "read" /\ in # <<>> /\ pump' = [pump EXCEPT ![d] = "write"]
      /\ held' = [held EXCEPT ![d] = <<Head(in)>>]
      /\ queue' = [queue EXCEPT ![In[d]] = Tail(in)]
      /\ UNCHANGED <<stage, closed, sent, got>>
  BY DEF PumpRead, Take
<1>2. stage \notin Setup
  BY <1>1 DEF IInv, PumpInv
<1>3. /\ pump \in [Directions -> {"off", "read", "write", "ended"}]
      /\ held \in [Directions -> Seq(Cells)] /\ queue \in [Queues -> Seq(Cells)]
      /\ In[d] \in Queues /\ Out[d] \in Queues /\ In[d] # Out[d]
  BY Wires DEF IInv, TypeOK
<1>4. /\ pump'[d] = "write" /\ held'[d] = <<Head(in)>>
      /\ \A e \in Directions : e # d => pump'[e] = pump[e] /\ held'[e] = held[e]
      /\ queue'[In[d]] = Tail(in) /\ \A q \in Queues : q # In[d] => queue'[q] = queue[q]
  BY <1>1, <1>3
<1>5. \A e \in Directions : /\ Feeding(e)' = Feeding(e) /\ Carried(e) = held[e]
                            /\ Carried(e)' = held'[e]
  BY <1>1, <1>2, <1>4 DEF Feeding, Carried, Setup
<1>6. \A e \in Directions : queue'[Out[e]] = queue[Out[e]]
  <2> SUFFICES ASSUME NEW e \in Directions
               PROVE  queue'[Out[e]] = queue[Out[e]]
    OBVIOUS
  <2>1. Out[e] \in Queues /\ Out[e] # In[d]
    BY <1>3, Wires, Crossed
  <2> QED
    BY <1>4, <2>1
<1>7. PumpInv' /\ SetupInv'
  BY <1>1, <1>2 DEF PumpInv, SetupInv, Setup
<1>8. TokenInv'
  BY <1>1 DEF IInv, TokenInv
<1>9. FirstInv'
  BY <1>1, <1>5, <1>6 DEF IInv, FirstInv, Passed, Directions
<1>10. ASSUME NEW e \in Directions, Target[e] \notin closed'
       PROVE  FlowOK(e)'
  <2>1. CASE e # d
    <3>1. In[e] \in Queues /\ In[e] # In[d]
      BY <2>1, Wires, Crossed
    <3>2. queue'[In[e]] = queue[In[e]]
      BY <1>4, <3>1
    <3>3. closed' = closed /\ sent'[e] = sent[e] /\ got'[e] = got[e] /\ FlowInv
      BY SMTT(30), <1>1 DEF IInv
    <3>4. held'[e] = held[e]
      BY <1>4, <2>1
    <3>5. /\ queue'[Out[e]] = queue[Out[e]] /\ Feeding(e)' = Feeding(e)
          /\ Carried(e)' = Carried(e)
      BY <1>5, <1>6, <3>4
    <3> QED
      BY <1>10, <3>2, <3>3, <3>5, Frame
  <2>2. CASE e = d
    <3>1. FlowOK(d) /\ Feeding(d)
      BY <1>1, <1>10, <2>2 DEF IInv, FlowInv, Feeding
    <3>2. held[d] = <<>>
      <4>1. held[d] \in Seq(Cells) /\ Len(held[d]) = 0
        BY SMTT(30), <1>1 DEF IInv, TypeOK
      <4> QED
        BY <4>1
    <3> DEFINE s == sent[d]
    <3> DEFINE b == Passed(d)
    <3> DEFINE w == Whole(d)
    <3>3. InOK(s, b, <<>>, in, w)
      BY <1>5, <3>1, <3>2 DEF FlowOK
    <3>4. s \in Seq(Cells) /\ in \in Seq(Cells) /\ b \in Nat
      <4>1. b \in Nat
        BY PassedNat DEF IInv
      <4> QED
        BY <1>3, <4>1 DEF IInv, TypeOK
    <3>5. InOK(s, b, <<Head(in)>>, Tail(in), w)
      <4> HIDE DEF s, b, w, in
      <4> QED
        BY SMTT(30), <1>1, <3>3, <3>4, MoveRead
    <3>6. OutOK(d, sent[d], got[d], queue[Out[d]])'
      BY SMTT(30), <1>1, <1>6, <3>1 DEF FlowOK
    <3>7. Passed(d)' = b /\ Whole(d)' = w /\ sent'[d] = s
      BY <1>1, <1>6 DEF Passed, Whole
    <3>8. InOK(sent[d], Passed(d), Carried(d), queue[In[d]], Whole(d))'
      BY <1>4, <1>5, <3>5, <3>7
    <3> QED
      BY <2>2, <3>6, <3>8 DEF FlowOK
  <2> QED
    BY <2>1, <2>2
<1> QED
  BY <1>7, <1>8, <1>9, <1>10 DEF FlowInv

(* A pump that ends, for want of a cell or of a place to write one, reads  *)
(* no more.                                                                *)
LEMMA PumpEndStep ==
    ASSUME IInv, NEW d \in Directions, PumpReadFails(d) \/ PumpWriteFails(d)
    PROVE  PumpInv' /\ TokenInv' /\ SetupInv' /\ FirstInv' /\ FlowInv'
<1>1. /\ pump[d] \in {"read", "write"} /\ pump' = [pump EXCEPT ![d] = "ended"]
      /\ held' = held \/ held' = [held EXCEPT ![d] = <<>>]
      /\ UNCHANGED <<stage, queue, closed, sent, got>>
  BY DEF PumpReadFails, PumpWriteFails
<1>2. stage \notin Setup
  BY <1>1 DEF IInv, PumpInv
<1>3. /\ pump \in [Directions -> {"off", "read", "write", "ended"}]
      /\ held \in [Directions -> Seq(Cells)]
  BY DEF IInv, TypeOK
<1>4. /\ pump'[d] = "ended"
      /\ \A e \in Directions : e # d => pump'[e] = pump[e] /\ held'[e] = held[e]
  BY <1>1, <1>3
<1>5. \A e \in Directions : Feeding(e)' => Feeding(e) /\ e # d /\ Carried(e)' = Carried(e)
  BY <1>1, <1>2, <1>4 DEF Feeding, Carried, Setup
<1>6. PumpInv' /\ SetupInv'
  BY <1>1, <1>2 DEF PumpInv, SetupInv, Setup
<1>7. TokenInv'
  BY <1>1 DEF IInv, TokenInv
<1>8. FirstInv'
  BY <1>1, <1>5 DEF IInv, FirstInv, Passed, Directions
<1>9. ASSUME NEW e \in Directions, Target[e] \notin closed'
      PROVE  FlowOK(e)'
  BY <1>1, <1>5, <1>9, Frame DEF IInv
<1> QED
  BY <1>6, <1>7, <1>8, <1>9 DEF FlowInv

(* The cell a pump holds has no token: it is not the handshake.            *)
LEMMA PumpWriteStep ==
    ASSUME IInv, NEW d \in Directions, PumpWrite(d)
    PROVE  PumpInv' /\ TokenInv' /\ SetupInv' /\ FirstInv' /\ FlowInv'
<1> DEFINE s == sent[d]
<1> DEFINE g == got[d]
<1> DEFINE in == queue[In[d]]
<1> DEFINE out == queue[Out[d]]
<1> DEFINE h == held[d]
<1> DEFINE w == Whole(d)
<1> DEFINE c == Renamed(d, h[1])
<1>1. /\ pump[d] = "write" /\ pump' = [pump EXCEPT ![d] = "read"]
      /\ held' = [held EXCEPT ![d] = <<>>]
      /\ \/ queue' = [queue EXCEPT ![Out[d]] = Append(out, c)] /\ Target[d] \notin closed
         \/ queue' = queue /\ Target[d] \in closed
      /\ UNCHANGED <<stage, closed, sent, got>>
  BY DEF PumpWrite, Put
<1>2. stage \notin Setup
  BY <1>1 DEF IInv, PumpInv
<1>3. /\ pump \in [Directions -> {"off", "read", "write", "ended"}]
      /\ held \in [Directions -> Seq(Cells)] /\ queue \in [Queues -> Seq(Cells)]
      /\ In[d] \in Queues /\ Out[d] \in Queues /\ In[d] # Out[d]
  BY Wires DEF IInv, TypeOK
<1>4. /\ s \in Seq(Cells) /\ g \in Seq(Cells) /\ in \in Seq(Cells) /\ out \in Seq(Cells)
      /\ h \in Seq(Cells) /\ Len(h) = 1
  BY <1>1, <1>3 DEF IInv, TypeOK
<1>5. h[1] \in Cells
  BY <1>4
<1>6. c \in Cells /\ (~ h[1].token => c = Trans(d, h[1]))
  BY <1>5, RenamedCell
<1> HIDE DEF c
<1>7. /\ pump'[d] = "read" /\ held'[d] = <<>>
      /\ \A e \in Directions : e # d => pump'[e] = pump[e] /\ held'[e] = held[e]
      /\ Target[d] \notin closed => queue'[Out[d]] = Append(out, c)
      /\ \A q \in Queues : q # Out[d] => queue'[q] = queue[q]
  BY <1>1, <1>3
<1>8. \A e \in Directions : /\ Feeding(e)' = Feeding(e) /\ Carried(e) = held[e]
                            /\ Carried(e)' = held'[e]
  BY <1>1, <1>2, <1>7 DEF Feeding, Carried, Setup
<1>9. PumpInv' /\ SetupInv'
  BY <1>1, <1>2 DEF PumpInv, SetupInv, Setup
<1>10. TokenInv'
  BY <1>1 DEF IInv, TokenInv
<1>11. ASSUME Target[d] \notin closed
       PROVE  Passed(d)' = Passed(d) + 1 /\ Passed(d) \in Nat
  <2>1. Passed(d) = Len(g) + Len(out) /\ Passed(d)' = Len(g) + Len(Append(out, c))
    BY <1>1, <1>7, <1>11 DEF Passed
  <2> HIDE DEF g, out
  <2>2. Len(g) \in Nat /\ Len(out) \in Nat /\ Len(Append(out, c)) = Len(out) + 1
    BY <1>4, <1>6
  <2> QED
    BY <2>1, <2>2
<1>12. \A e \in Directions : e # d =>
          queue'[Out[e]] = queue[Out[e]] /\ queue'[In[e]] = queue[In[e]]
  <2> SUFFICES ASSUME NEW e \in Directions, e # d
               PROVE  queue'[Out[e]] = queue[Out[e]] /\ queue'[In[e]] = queue[In[e]]
    OBVIOUS
  <2>1. Out[e] \in Queues /\ Out[e] # Out[d] /\ In[e] \in Queues /\ In[e] # Out[d]
    BY Wires, Crossed
  <2> QED
    BY <1>7, <2>1
<1>13. FirstInv'
  <2> SUFFICES ASSUME "foreign" \notin closed', Feeding("up")', stage' \notin {"handshake", "dial"}
               PROVE  Passed("up")' > 0
    BY DEF FirstInv
  <2>1. Passed("up") > 0
    BY <1>1, <1>8 DEF IInv, FirstInv, Directions
  <2>2. CASE d = "up"
    <3>1. Target[d] = "foreign"
      BY <2>2 DEF Target
    <3> QED
      BY <1>1, <1>11, <2>1, <2>2, <3>1
  <2>3. CASE d # "up"
    <3>1. Passed("up")' = Passed("up")
      BY <1>1, <1>12, <2>3 DEF Passed, Directions
    <3> QED
      BY <2>1, <3>1
  <2> QED
    BY <2>2, <2>3
<1>14. ASSUME NEW e \in Directions, Target[e] \notin closed'
       PROVE  FlowOK(e)'
  <2>1. CASE e # d
    <3>1. closed' = closed /\ sent'[e] = sent[e] /\ got'[e] = got[e] /\ FlowInv
      BY <1>1 DEF IInv
    <3>2. held'[e] = held[e]
      BY <1>7, <2>1
    <3>3. /\ queue'[Out[e]] = queue[Out[e]] /\ queue'[In[e]] = queue[In[e]]
          /\ Feeding(e)' = Feeding(e) /\ Carried(e)' = Carried(e)
      BY SMTT(30), <1>8, <1>12, <2>1, <3>2
    <3> QED
      BY <1>14, <3>1, <3>3, Frame
  <2>2. CASE e = d
    <3>1. /\ OutOK(d, s, g, out) /\ InOK(s, Len(g) + Len(out), h, in, w)
          /\ Feeding(d) /\ Target[d] \notin closed
      <4>1. Feeding(d) /\ Target[d] \notin closed
        BY <1>1, <1>14, <2>2 DEF Feeding
      <4>2. FlowOK(d)
        BY <4>1 DEF IInv, FlowInv
      <4>3. Carried(d) = h
        BY <1>8
      <4> QED
        BY <4>1, <4>2, <4>3 DEF FlowOK, Passed
    <3>2. /\ Len(g) \in Nat /\ Len(out) \in Nat /\ Len(s) \in Nat /\ Len(in) \in Nat
      BY <1>4
    <3>3. h[1] = s[Len(g) + Len(out) + 1] /\ Len(g) + Len(out) + 1 \in 1..Len(s)
      <4> HIDE DEF s, g, in, out, h, w
      <4> QED
        BY <1>4, <3>1, <3>2 DEF InOK
    <3>4. d = "up" => Len(g) + Len(out) > 0
      <4>1. d = "up" => Target[d] = "foreign"
        BY DEF Target
      <4>2. d = "up" => Passed(d) > 0
        BY <1>2, <3>1, <4>1 DEF IInv, FirstInv, Setup
      <4> QED
        BY <4>2 DEF Passed
    <3>5. ~ h[1].token
      <4>1. sent[d][Len(g) + Len(out) + 1].token => d = "up" /\ Len(g) + Len(out) + 1 = 1
        BY ZenonT(30), <3>3 DEF IInv, TokenInv
      <4>2. d = "up" => Len(g) + Len(out) + 1 # 1
        <5> HIDE DEF g, out
        <5> QED
          BY <3>2, <3>4
      <4> QED
        BY <3>3, <4>1, <4>2
    <3>6. c = Trans(d, h[1])
      BY <1>6, <3>5
    <3>7. /\ OutOK(d, s, g, Append(out, c))
          /\ InOK(s, Len(g) + Len(Append(out, c)), <<>>, in, w)
      <4> HIDE DEF s, g, in, out, h, w
      <4>1. Trans(d, h[1]) \in Cells
        BY <1>6, <3>6
      <4>2. /\ OutOK(d, s, g, Append(out, Trans(d, h[1])))
            /\ InOK(s, Len(g) + Len(Append(out, Trans(d, h[1]))), <<>>, in, w)
        BY SMTT(30), <1>4, <3>1, <4>1, MoveWrite
      <4> QED
        BY <3>6, <4>2
    <3>8. OutOK(d, sent[d], got[d], queue[Out[d]])'
      BY <1>1, <1>7, <3>1, <3>7
    <3>9. Passed(d)' = Len(g) + Len(Append(out, c)) /\ Whole(d)' = w /\ queue'[In[d]] = in
      BY ZenonT(30), <1>1, <1>3, <1>7, <3>1 DEF Passed, Whole
    <3>10. InOK(sent[d], Passed(d), Carried(d), queue[In[d]], Whole(d))'
      BY <1>1, <1>7, <1>8, <3>7, <3>9
    <3> QED
      BY <2>2, <3>8, <3>10 DEF FlowOK
  <2> QED
    BY <2>1, <2>2
<1> QED
  BY <1>9, <1>10, <1>13, <1>14 DEF FlowInv

-----------------------------------------------------------------------------
(* The peers' steps preserve the invariant.                                *)

(* The first cell of the client, if it is the one written, is number 0;    *)
(* any later one, and any cell of the foreign entry, has no token.         *)
LEMMA PeerWritesStep ==
    ASSUME IInv, NEW d \in Directions, NEW c \in Cells, PeerWrites(d, c),
           d = "up" /\ sent[d] = <<>> => c.n = 0,
           c.token => d = "up" /\ sent[d] = <<>>
    PROVE  PumpInv' /\ TokenInv' /\ SetupInv' /\ FirstInv' /\ FlowInv'
<1> DEFINE s == sent[d]
<1> DEFINE in == queue[In[d]]
<1>1. /\ Source[d] \notin closed
      /\ \/ OwnIn[d] \notin closed /\ queue' = [queue EXCEPT ![In[d]] = Append(in, c)]
         \/ OwnIn[d] \in closed /\ queue' = queue
      /\ sent' = [sent EXCEPT ![d] = Append(s, c)]
      /\ UNCHANGED <<stage, pump, held, closed, got>>
  BY DEF PeerWrites, Put
<1>2. /\ sent \in [Directions -> Seq(Cells)] /\ queue \in [Queues -> Seq(Cells)]
      /\ In[d] \in Queues /\ Out[d] \in Queues /\ In[d] # Out[d]
      /\ s \in Seq(Cells) /\ in \in Seq(Cells)
  BY Wires DEF IInv, TypeOK
<1>3. /\ sent'[d] = Append(s, c) /\ \A e \in Directions : e # d => sent'[e] = sent[e]
      /\ OwnIn[d] \notin closed => queue'[In[d]] = Append(in, c)
      /\ OwnIn[d] \in closed => queue'[In[d]] = in
      /\ \A q \in Queues : q # In[d] => queue'[q] = queue[q]
  BY <1>1, <1>2
<1>4. \A e \in Directions : queue'[Out[e]] = queue[Out[e]]
  <2> SUFFICES ASSUME NEW e \in Directions
               PROVE  queue'[Out[e]] = queue[Out[e]]
    BY SMTT(30)
  <2>1. Out[e] \in Queues /\ Out[e] # In[d]
    BY SMTT(30), <1>2, Wires, Crossed
  <2> QED
    BY <1>3, <2>1
<1>5. /\ Len(s) \in Nat /\ Len(Append(s, c)) = Len(s) + 1 /\ Append(s, c) # <<>>
      /\ \A i \in 1..Len(s) : Append(s, c)[i] = s[i]
      /\ Append(s, c)[Len(s) + 1] = c
      /\ s # <<>> => 1 \in 1..Len(s)
      /\ s = <<>> <=> Len(s) = 0
  <2> HIDE DEF s
  <2>0. s \in Seq(Cells) /\ c \in Cells
    BY <1>2
  <2>1. /\ Len(s) \in Nat /\ Len(Append(s, c)) = Len(s) + 1
        /\ \A i \in 1..Len(s) : Append(s, c)[i] = s[i]
        /\ Append(s, c)[Len(s) + 1] = c
    BY ONLY <2>0
  <2>2. Append(s, c) # <<>>
    BY <2>1, <2>0
  <2>3. s = <<>> <=> Len(s) = 0
    BY ONLY <2>0
  <2>4. s # <<>> => 1 \in 1..Len(s)
    BY <2>1, <2>3
  <2> QED
    BY <2>1, <2>2, <2>3, <2>4
<1>6. s # <<>> => Append(s, c) # <<>> /\ Append(s, c)[1] = s[1]
  BY <1>5
<1>7. \A e \in Directions : sent[e] # <<>> => sent'[e] # <<>> /\ sent'[e][1] = sent[e][1]
  BY <1>3, <1>6
<1>8. \A e \in Directions : Feeding(e)' = Feeding(e) /\ Carried(e)' = Carried(e)
  <2>1. stage = "dial" => sent["up"] # <<>>
    BY DEF IInv, SetupInv
  <2>2. stage = "dial" => sent'["up"][1] = sent["up"][1]
    BY SMTT(30), <1>7, <2>1 DEF Directions
  <2> QED
    BY <1>1, <2>2 DEF Feeding, Carried
<1>9. PumpInv'
  BY SMTT(30), <1>1 DEF IInv, PumpInv
<1>10. TokenInv'
  <2>1. ASSUME NEW e \in Directions, NEW i \in 1..Len(sent'[e]), sent'[e][i].token
        PROVE  e = "up" /\ i = 1
    <3>1. CASE e # d
      BY SMTT(30), <1>3, <2>1, <3>1 DEF IInv, TokenInv
    <3>2. CASE e = d /\ i \in 1..Len(s)
      <4>a. sent'[e] = Append(s, c)
        BY <1>3, <3>2
      <4>b. Append(s, c)[i] = s[i]
        BY <1>5, <3>2
      <4>1. sent'[e][i] = s[i]
        BY <4>a, <4>b
      <4>2. sent[e][i].token /\ i \in 1..Len(sent[e])
        BY <2>1, <3>2, <4>1
      <4> QED
        BY SMTT(30), <4>2 DEF IInv, TokenInv
    <3>3. CASE e = d /\ i = Len(s) + 1
      <4>1. sent'[e][i] = c
        BY <1>3, <1>5, <3>3
      <4>c. c.token
        BY <2>1, <4>1
      <4>2. d = "up" /\ Len(s) = 0
        BY <1>5, <4>c
      <4> QED
        BY SMTT(30), <3>3, <4>2
    <3>4. e = d => i \in 1..(Len(s) + 1)
      BY <1>3, <1>5
    <3> QED
      BY <1>5, <3>1, <3>2, <3>3, <3>4
  <2>2. sent'["up"] # <<>> => sent'["up"][1].n = 0
    <3>1. CASE sent["up"] # <<>>
      BY <1>7, <3>1 DEF IInv, TokenInv, Directions
    <3>2. CASE sent["up"] = <<>> /\ d = "up"
      <4>1. Len(s) + 1 = 1
        BY <1>5, <3>2
      <4>2. sent'["up"][1] = c
        BY <1>3, <1>5, <3>2, <4>1
      <4> QED
        BY <3>2, <4>2
    <3>3. CASE sent["up"] = <<>> /\ d # "up"
      BY <1>3, <3>3 DEF Directions
    <3> QED
      BY <3>1, <3>2, <3>3
  <2> QED
    BY <2>1, <2>2 DEF TokenInv
<1>11. SetupInv'
  <2>1. queue'["toForeign"] = queue["toForeign"]
    BY <1>4 DEF Out, Directions
  <2> QED
    BY <1>1, <1>7, <2>1 DEF IInv, SetupInv, Directions
<1>12. FirstInv'
  BY <1>1, <1>4, <1>8 DEF IInv, FirstInv, Passed, Directions
<1>13. ASSUME NEW e \in Directions, Target[e] \notin closed'
       PROVE  FlowOK(e)'
  <2>1. CASE e # d
    <3>1. In[e] \in Queues /\ In[e] # In[d]
      BY <2>1, Wires, Crossed
    <3>2. queue'[In[e]] = queue[In[e]]
      BY SMTT(30), <1>3, <3>1
    <3>3. /\ closed \subseteq closed' /\ sent'[e] = sent[e] /\ got'[e] = got[e]
          /\ queue'[Out[e]] = queue[Out[e]] /\ Feeding(e)' = Feeding(e)
          /\ Carried(e)' = Carried(e) /\ FlowInv
      BY ZenonT(30), <1>1, <1>3, <1>4, <1>8, <2>1 DEF IInv
    <3> QED
      BY <1>13, <3>2, <3>3, Frame
  <2>2. CASE e = d
    <3> DEFINE g == got[d]
    <3> DEFINE out == queue[Out[d]]
    <3> DEFINE b == Passed(d)
    <3> DEFINE h == Carried(d)
    <3>1. FlowOK(d)
      BY SMTT(30), <1>1, <1>13, <2>2 DEF IInv, FlowInv
    <3>2. g \in Seq(Cells) /\ out \in Seq(Cells) /\ b \in Nat
      BY SMTT(30), <1>2, PassedNat DEF IInv, TypeOK
    <3>3. OutOK(d, Append(s, c), g, out)
      <4>1. OutOK(d, s, g, out)
        BY SMTT(30), <3>1 DEF FlowOK
      <4> HIDE DEF s, g, out
      <4> QED
        BY <1>2, <3>2, <4>1, MoveSend
    <3>4. OutOK(d, sent[d], got[d], queue[Out[d]])'
      BY SMTT(30), <1>1, <1>3, <1>4, <3>3
    <3>5. ASSUME Feeding(d)
          PROVE  InOK(sent[d], Passed(d), Carried(d), queue[In[d]], Whole(d))'
      <4>1. InOK(s, b, h, in, Whole(d))
        BY <3>1, <3>5 DEF FlowOK
      <4>2. h \in Seq(Cells)
        BY SMTT(30), CarriedType
      <4>3. Passed(d)' = b /\ Carried(d)' = h /\ sent'[d] = Append(s, c)
        BY ZenonT(30), <1>1, <1>3, <1>4, <1>8 DEF Passed
      <4>4. CASE OwnIn[d] \notin closed
        <5>1. InOK(s, b, h, in, TRUE) /\ Whole(d)' = TRUE
          BY ZenonT(30), <1>1, <4>1, <4>4 DEF Whole, InOK
        <5>2. InOK(Append(s, c), b, h, Append(in, c), TRUE)
          <6> HIDE DEF s, b, h, in
          <6> QED
            BY <1>2, <3>2, <4>2, <5>1, MoveQueued
        <5> QED
          BY ZenonT(30), <1>3, <4>3, <4>4, <5>1, <5>2
      <4>5. CASE OwnIn[d] \in closed
        <5> DEFINE w == Whole(d)
        <5>1. Whole(d)' = FALSE
          BY <1>1, <4>5 DEF Whole
        <5>2. InOK(Append(s, c), b, h, in, FALSE)
          <6> HIDE DEF s, b, h, in, w
          <6>1. InOK(s, b, h, in, w)
            BY <4>1 DEF w
          <6> QED
            BY <1>2, <3>2, <4>2, <6>1, MoveUnqueued
        <5> QED
          BY <1>3, <4>3, <4>5, <5>1, <5>2
      <4> QED
        BY SMTT(30), <4>4, <4>5
    <3>6. Feeding(d)' => Feeding(d)
      BY <1>8
    <3> QED
      BY ZenonT(30), <2>2, <3>4, <3>5, <3>6 DEF FlowOK
  <2> QED
    BY <2>1, <2>2
<1> QED
  BY <1>9, <1>10, <1>11, <1>12, <1>13 DEF FlowInv

(* The target reads the next cell.                                         *)
LEMMA PeerReadsStep ==
    ASSUME IInv, NEW d \in Directions, PeerReads(d)
    PROVE  PumpInv' /\ TokenInv' /\ SetupInv' /\ FirstInv' /\ FlowInv'
<1> DEFINE s == sent[d]
<1> DEFINE g == got[d]
<1> DEFINE out == queue[Out[d]]
<1>1. /\ Target[d] \notin closed /\ out # <<>>
      /\ queue' = [queue EXCEPT ![Out[d]] = Tail(out)]
      /\ got' = [got EXCEPT ![d] = Append(g, Head(out))]
      /\ UNCHANGED <<stage, pump, held, closed, sent>>
  BY DEF PeerReads, Take
<1>2. /\ got \in [Directions -> Seq(Cells)] /\ queue \in [Queues -> Seq(Cells)]
      /\ In[d] \in Queues /\ Out[d] \in Queues /\ In[d] # Out[d]
      /\ s \in Seq(Cells) /\ g \in Seq(Cells) /\ out \in Seq(Cells)
  BY Wires DEF IInv, TypeOK
<1>3. /\ got'[d] = Append(g, Head(out)) /\ \A e \in Directions : e # d => got'[e] = got[e]
      /\ queue'[Out[d]] = Tail(out) /\ \A q \in Queues : q # Out[d] => queue'[q] = queue[q]
  BY SMTT(30), <1>1, <1>2
<1>4. \A e \in Directions : /\ e # d => queue'[Out[e]] = queue[Out[e]]
                            /\ queue'[In[e]] = queue[In[e]]
  <2> SUFFICES ASSUME NEW e \in Directions
               PROVE  /\ e # d => queue'[Out[e]] = queue[Out[e]]
                      /\ queue'[In[e]] = queue[In[e]]
    OBVIOUS
  <2>1. In[e] \in Queues /\ In[e] # Out[d] /\ Out[e] \in Queues /\ (e # d => Out[e] # Out[d])
    BY SMTT(30), <1>2, Wires, Crossed
  <2> QED
    BY <1>3, <2>1
<1>5. \A e \in Directions : Feeding(e)' = Feeding(e) /\ Carried(e)' = Carried(e)
                            /\ Whole(e)' = Whole(e)
  BY <1>1 DEF Feeding, Carried, Whole
<1>6. FlowOK(d)
  BY <1>1 DEF IInv, FlowInv
<1>7. /\ OutOK(d, s, Append(g, Head(out)), Tail(out))
      /\ Len(Append(g, Head(out))) + Len(Tail(out)) = Len(g) + Len(out)
  <2>1. OutOK(d, s, g, out)
    BY <1>6 DEF FlowOK
  <2> HIDE DEF s, g, out
  <2>2. s \in Seq(Cells) /\ g \in Seq(Cells) /\ out \in Seq(Cells) /\ out # <<>>
    BY <1>1, <1>2
  <2> QED
    BY ONLY SMTT(30), <2>1, <2>2, MoveDeliver
<1>8. \A e \in Directions : Passed(e)' = Passed(e)
  <2> SUFFICES ASSUME NEW e \in Directions
               PROVE  Passed(e)' = Passed(e)
    BY SMTT(30)
  <2>1. CASE e = d
    BY <1>3, <1>7, <2>1 DEF Passed
  <2>2. CASE e # d
    BY <1>3, <1>4, <2>2 DEF Passed
  <2> QED
    BY <2>1, <2>2
<1>9. PumpInv'
  BY <1>1 DEF IInv, PumpInv
<1>10. TokenInv'
  BY <1>1 DEF IInv, TokenInv
<1>11. SetupInv'
  <2>1. CASE stage \in {"handshake", "dial"}
    <3>1. d # "up"
      BY <1>1, <2>1 DEF IInv, SetupInv, Out
    <3>2. "up" \in Directions /\ Out["up"] = "toForeign"
      BY DEF Directions, Out
    <3>3. queue'["toForeign"] = queue["toForeign"] /\ got'["up"] = got["up"]
      BY <1>3, <1>4, <3>1, <3>2
    <3> QED
      BY <1>1, <3>3 DEF IInv, SetupInv
  <2>2. CASE stage \notin {"handshake", "dial"}
    BY <1>1, <2>2 DEF SetupInv
  <2> QED
    BY <2>1, <2>2
<1>12. FirstInv'
  BY SMTT(30), <1>1, <1>5, <1>8 DEF IInv, FirstInv, Directions
<1>13. ASSUME NEW e \in Directions, Target[e] \notin closed'
       PROVE  FlowOK(e)'
  <2>1. CASE e # d
    <3>1. /\ closed \subseteq closed' /\ sent'[e] = sent[e] /\ got'[e] = got[e]
          /\ queue'[Out[e]] = queue[Out[e]] /\ queue'[In[e]] = queue[In[e]]
          /\ Feeding(e)' = Feeding(e) /\ Carried(e)' = Carried(e) /\ FlowInv
      BY SMTT(30), <1>1, <1>3, <1>4, <1>5, <2>1 DEF IInv
    <3> QED
      BY SMTT(30), <1>13, <3>1, Frame
  <2>2. CASE e = d
    <3>1. OutOK(d, sent[d], got[d], queue[Out[d]])'
      BY SMTT(30), <1>1, <1>3, <1>7
    <3>2. Feeding(d)' => InOK(sent[d], Passed(d), Carried(d), queue[In[d]], Whole(d))'
      BY <1>1, <1>4, <1>5, <1>6, <1>8 DEF FlowOK
    <3> QED
      BY SMTT(30), <2>2, <3>1, <3>2 DEF FlowOK
  <2> QED
    BY <2>1, <2>2
<1> QED
  BY <1>9, <1>10, <1>11, <1>12, <1>13 DEF FlowInv

(* A peer closes: the direction it was the target of is given up.          *)
LEMMA PeerClosesStep ==
    ASSUME IInv, NEW d \in Directions, PeerCloses(d)
    PROVE  PumpInv' /\ TokenInv' /\ SetupInv' /\ FirstInv' /\ FlowInv'
<1> DEFINE back == CHOOSE e \in Directions : e # d
<1>1. /\ d = "down" => stage \notin {"handshake", "dial"}
      /\ closed' = closed \cup {Source[d]}
      /\ UNCHANGED <<stage, pump, held, sent, got>>
  BY DEF PeerCloses
<1>2. PICK rest \in {queue[In[d]], <<>>} :
         queue' = [queue EXCEPT ![In[d]] = rest, ![Out[back]] = <<>>]
  BY DEF PeerCloses
<1>3. back \in Directions /\ back # d
  BY Back
<1> HIDE DEF back
<1>4. /\ queue \in [Queues -> Seq(Cells)] /\ In[d] \in Queues /\ Out[d] \in Queues
      /\ In[d] # Out[d] /\ Out[back] \in Queues /\ Out[back] # In[d] /\ Out[back] # Out[d]
  BY <1>3, Wires, Crossed DEF IInv, TypeOK
<1>5. queue'[Out[d]] = queue[Out[d]] /\ queue'[In[d]] = rest
  BY <1>2, <1>4
<1>6. \A e \in Directions : Feeding(e)' = Feeding(e) /\ Carried(e)' = Carried(e)
  BY <1>1 DEF Feeding, Carried
<1>7. PumpInv'
  BY <1>1 DEF IInv, PumpInv
<1>8. TokenInv'
  BY <1>1 DEF IInv, TokenInv
<1>9. ASSUME d = "up"
      PROVE  SetupInv' /\ FirstInv'
  <2>1. queue'["toForeign"] = queue["toForeign"] /\ Source[d] = "client"
    BY <1>5, <1>9 DEF Out, Source
  <2>2. Passed("up")' = Passed("up")
    BY ZenonT(30), <1>1, <2>1 DEF Passed, Out
  <2>3. SetupInv'
    BY <1>1, <2>1 DEF IInv, SetupInv
  <2>4. FirstInv'
    BY <1>1, <1>6, <2>1, <2>2 DEF IInv, FirstInv, Directions
  <2> QED
    BY <2>3, <2>4
<1>10. ASSUME d = "down"
       PROVE  SetupInv' /\ FirstInv'
  <2>1. "foreign" \in closed'
    BY SMTT(30), <1>1, <1>10 DEF Source
  <2> QED
    BY <1>1, <1>10, <2>1 DEF SetupInv, FirstInv
<1>11. ASSUME NEW e \in Directions, Target[e] \notin closed'
       PROVE  FlowOK(e)'
  <2>1. e = d
    BY <1>1, <1>11, Crossed
  <2>2. FlowOK(d)
    BY SMTT(30), <1>1, <1>11, <2>1 DEF IInv, FlowInv
  <2>3. OutOK(d, sent[d], got[d], queue[Out[d]])'
    BY SMTT(30), <1>1, <1>5, <2>2 DEF FlowOK
  <2>4. ASSUME Feeding(d)
        PROVE  InOK(sent[d], Passed(d), Carried(d), queue[In[d]], Whole(d))'
    <3> DEFINE s == sent[d]
    <3> DEFINE b == Passed(d)
    <3> DEFINE h == Carried(d)
    <3> DEFINE in == queue[In[d]]
    <3> DEFINE w == Whole(d)
    <3>1. InOK(s, b, h, in, w)
      BY <2>2, <2>4 DEF FlowOK
    <3>2. s \in Seq(Cells) /\ b \in Nat /\ in \in Seq(Cells)
      BY SMTT(30), <1>4, PassedNat DEF IInv, TypeOK
    <3>3. h \in Seq(Cells)
      BY CarriedType
    <3>4. InOK(s, b, h, in, FALSE) /\ InOK(s, b, h, <<>>, FALSE)
      <4> HIDE DEF s, b, h, in, w
      <4> QED
        BY <3>1, <3>2, <3>3, MoveLost
    <3>5. /\ sent'[d] = s /\ Passed(d)' = b /\ Carried(d)' = h /\ Whole(d)' = FALSE
          /\ queue'[In[d]] = in \/ queue'[In[d]] = <<>>
      BY <1>1, <1>5, <1>6 DEF Passed, Whole
    <3> QED
      BY <3>4, <3>5
  <2> QED
    BY SMTT(30), <1>6, <2>1, <2>3, <2>4 DEF FlowOK
<1> QED
  BY <1>7, <1>8, <1>9, <1>10, <1>11 DEF FlowInv, Directions

(* Nothing changes.                                                        *)
LEMMA StutterStep ==
    ASSUME IInv, UNCHANGED vars
    PROVE  PumpInv' /\ TokenInv' /\ SetupInv' /\ FirstInv' /\ FlowInv'
BY DEF IInv, vars, PumpInv, TokenInv, SetupInv, FirstInv, FlowInv, FlowOK, Feeding, Carried,
       Whole, Passed

-----------------------------------------------------------------------------
(* The induction.                                                          *)

(* A new session has nothing in flight.                                    *)
LEMMA InitInv == Init => IInv
<1> SUFFICES ASSUME Init
             PROVE  IInv
  OBVIOUS
<1>1. <<>> \in Seq(Cells) /\ Len(<<>>) = 0
  OBVIOUS
<1>2. TypeOK
  BY <1>1 DEF Init, TypeOK, Ends
<1>3. PumpInv /\ SetupInv /\ FirstInv
  BY DEF Init, PumpInv, SetupInv, FirstInv, Queues, Directions
<1>4. TokenInv
  BY SMTT(30), <1>1 DEF Init, TokenInv, Directions
<1>5. ASSUME NEW d \in Directions
      PROVE  FlowOK(d)
  <2>1. /\ sent[d] = <<>> /\ got[d] = <<>> /\ queue[Out[d]] = <<>> /\ queue[In[d]] = <<>>
        /\ Carried(d) = <<>> /\ 0 + 0 = 0
    <3>1. In[d] \in Queues /\ Out[d] \in Queues
      BY Wires
    <3>2. Carried(d) = <<>>
      BY DEF Init, Carried
    <3> QED
      BY <3>1, <3>2 DEF Init
  <2>2. Passed(d) = 0
    BY <1>1, <2>1, Zenon DEF Passed
  <2>3. OutOK(d, <<>>, <<>>, <<>>)
    BY <1>1 DEF OutOK
  <2>4. InOK(<<>>, 0, <<>>, <<>>, Whole(d))
    BY <1>1 DEF InOK
  <2> QED
    BY <2>1, <2>2, <2>3, <2>4 DEF FlowOK
<1> QED
  BY <1>2, <1>3, <1>4, <1>5 DEF IInv, FlowInv

(* Every step keeps the invariant.                                         *)
LEMMA NextInv == IInv /\ [Next]_vars => IInv'
<1> SUFFICES ASSUME IInv, [Next]_vars
             PROVE  IInv'
  OBVIOUS
<1>1. TypeOK'
  BY TypeStep DEF IInv
<1>2. ASSUME ClientWrites
      PROVE  PumpInv' /\ TokenInv' /\ SetupInv' /\ FirstInv' /\ FlowInv'
  <2> DEFINE n == Len(sent["up"])
  <2>1. n \in Nat /\ (n = 0 <=> sent["up"] = <<>>) /\ "up" \in Directions
    <3>1. sent["up"] \in Seq(Cells)
      BY DEF IInv, TypeOK, Directions
    <3> QED
      BY <3>1 DEF Directions
  <2>2. PICK circ \in {"sentinel", "other"}, cmd \in Commands \cup {"Create"}, token \in BOOLEAN :
           (n > 0 => ~ token) /\ PeerWrites("up", Cell(circ, cmd, n, token))
    BY <1>2 DEF ClientWrites
  <2> DEFINE c == Cell(circ, cmd, n, token)
  <2>3. c \in Cells /\ c.n = n /\ c.token = token
    BY <2>1 DEF Cell, Cells
  <2> HIDE DEF c, n
  <2>4. sent["up"] = <<>> => c.n = 0
    BY <2>1, <2>3
  <2>5. c.token => sent["up"] = <<>>
    BY <2>1, <2>2, <2>3
  <2>6. PeerWrites("up", c)
    BY <2>2 DEF c
  <2> QED
    BY <2>1, <2>3, <2>4, <2>5, <2>6, PeerWritesStep
<1>3. ASSUME ForeignWrites
      PROVE  PumpInv' /\ TokenInv' /\ SetupInv' /\ FirstInv' /\ FlowInv'
  <2> DEFINE n == Len(sent["down"])
  <2>1. n \in Nat /\ "down" \in Directions /\ "down" # "up"
    BY DEF IInv, TypeOK, Directions
  <2>2. PICK cmd \in Commands \cup {"Created"} : PeerWrites("down", Cell("new", cmd, n, FALSE))
    BY <1>3 DEF ForeignWrites
  <2> DEFINE c == Cell("new", cmd, n, FALSE)
  <2>3. c \in Cells /\ c.token = FALSE
    BY <2>1 DEF Cell, Cells
  <2> HIDE DEF n, c
  <2>4. PeerWrites("down", c)
    BY <2>2 DEF c
  <2> QED
    BY <2>1, <2>3, <2>4, PeerWritesStep
<1>4. PumpInv' /\ TokenInv' /\ SetupInv' /\ FirstInv' /\ FlowInv'
  BY <1>2, <1>3, SetupFailsStep, DoneStep, ReadHandshakeStep, DialStep, ReadCreatedStep,
     PumpReadStep, PumpEndStep, PumpWriteStep, PeerReadsStep, PeerClosesStep, StutterStep
  DEF Next, Session, Pump
<1> QED
  BY <1>1, <1>4 DEF IInv

(* TypeOK: the state keeps its types, and a pump holds a cell exactly      *)
(* while it is writing, through every step of handleClientConn, its pumps  *)
(* and the peers.                                                          *)
THEOREM TypeCorrect == Spec => []TypeOK
<1>1. IInv => TypeOK
  BY DEF IInv
<1> QED
  BY <1>1, InitInv, NextInv, PTL DEF Spec

-----------------------------------------------------------------------------
(* The refinement.                                                         *)

TransSeq(d, s) == [i \in DOMAIN s |-> Trans(d, s[i])]

(* Translation keeps the length and acts cell by cell.                     *)
LEMMA TransSeqFacts ==
    ASSUME NEW d \in Directions, NEW s \in Seq(Cells)
    PROVE  /\ Len(TransSeq(d, s)) = Len(s)
           /\ \A i \in 1..Len(s) : TransSeq(d, s)[i] = Trans(d, s[i])
<1> DEFINE t == TransSeq(d, s)
<1>1. DOMAIN s = 1..Len(s) /\ Len(s) \in Nat
  OBVIOUS
<1>2. \A i \in 1..Len(s) : Trans(d, s[i]) \in Cells
  <2> SUFFICES ASSUME NEW i \in 1..Len(s)
               PROVE  Trans(d, s[i]) \in Cells
    OBVIOUS
  <2>1. s[i] \in Cells /\ CircID[d] \in {"sentinel", "new", "other"}
    BY Wires
  <2> QED
    BY <2>1 DEF Trans, Cells
<1>3. \A i \in 1..Len(s) : t[i] = Trans(d, s[i])
  BY <1>1 DEF TransSeq
<1>4. DOMAIN t = 1..Len(s) /\ t \in [1..Len(s) -> Cells]
  BY <1>1, <1>2 DEF TransSeq
<1> HIDE DEF t
<1>5. t \in Seq(Cells)
  BY <1>1, <1>4
<1>6. Len(t) = Len(s)
  BY <1>1, <1>4, <1>5
<1> QED
  BY <1>3, <1>6 DEF t

(* A step of the session sends, delivers or leaves a direction alone.      *)
LEMMA TunnelStep ==
    ASSUME IInv, [Next]_vars, NEW d \in Directions
    PROVE  \/ /\ Len(Translated(d)') = Len(Translated(d)) + 1
              /\ \A i \in 1..Len(Translated(d)) : Translated(d)'[i] = Translated(d)[i]
              /\ got'[d] = got[d]
           \/ /\ Len(got[d]) < Len(Translated(d))
              /\ got'[d] = Append(got[d], Translated(d)[Len(got[d]) + 1])
              /\ Translated(d)' = Translated(d)
           \/ Translated(d)' = Translated(d) /\ got'[d] = got[d]
<1> DEFINE s == sent[d]
<1> DEFINE g == got[d]
<1>1. /\ Translated(d) = TransSeq(d, sent[d]) /\ Translated(d)' = TransSeq(d, sent'[d])
      /\ s \in Seq(Cells) /\ g \in Seq(Cells)
      /\ sent \in [Directions -> Seq(Cells)] /\ got \in [Directions -> Seq(Cells)]
  BY SMTT(30) DEF Translated, TransSeq, Trans, IInv, TypeOK
<1>2. ASSUME NEW c \in Cells, sent'[d] = Append(s, c), got'[d] = g
      PROVE  /\ Len(Translated(d)') = Len(Translated(d)) + 1
             /\ \A i \in 1..Len(Translated(d)) : Translated(d)'[i] = Translated(d)[i]
             /\ got'[d] = got[d]
  <2> DEFINE t == Append(s, c)
  <2>1. /\ t \in Seq(Cells) /\ Len(t) = Len(s) + 1 /\ Len(s) \in Nat
        /\ \A i \in 1..Len(s) : t[i] = s[i]
    <3> HIDE DEF s
    <3>1. s \in Seq(Cells) /\ c \in Cells
      BY <1>1
    <3> QED
      BY ONLY <3>1
  <2> HIDE DEF s, t
  <2>2. /\ Len(TransSeq(d, s)) = Len(s) /\ Len(TransSeq(d, t)) = Len(t)
        /\ \A i \in 1..Len(s) : TransSeq(d, s)[i] = Trans(d, s[i])
        /\ \A i \in 1..Len(t) : TransSeq(d, t)[i] = Trans(d, t[i])
    BY <1>1, <2>1, TransSeqFacts
  <2>3. \A i \in 1..Len(s) : TransSeq(d, t)[i] = TransSeq(d, s)[i]
    <3> SUFFICES ASSUME NEW i \in 1..Len(s)
                 PROVE  TransSeq(d, t)[i] = TransSeq(d, s)[i]
      OBVIOUS
    <3>1. i \in 1..Len(t)
      BY <2>1
    <3> QED
      BY <2>1, <2>2, <3>1
  <2>4. Translated(d) = TransSeq(d, s) /\ Translated(d)' = TransSeq(d, t)
    BY <1>1, <1>2 DEF s, t
  <2> QED
    BY <1>2, <2>1, <2>2, <2>3, <2>4
<1>3. ASSUME PeerReads(d)
      PROVE  /\ Len(got[d]) < Len(Translated(d))
             /\ got'[d] = Append(got[d], Translated(d)[Len(got[d]) + 1])
             /\ Translated(d)' = Translated(d)
  <2> DEFINE out == queue[Out[d]]
  <2>1. /\ Target[d] \notin closed /\ out # <<>> /\ sent' = sent
        /\ got'[d] = Append(g, Head(out)) /\ out \in Seq(Cells)
    BY SMTT(30), <1>1, <1>3, Wires DEF PeerReads, IInv, TypeOK
  <2>2. OutOK(d, s, g, out)
    BY <2>1 DEF IInv, FlowInv, FlowOK
  <2> HIDE DEF s, g, out
  <2>3. Len(g) < Len(s) /\ Head(out) = Trans(d, s[Len(g) + 1])
    <3>1. s \in Seq(Cells) /\ g \in Seq(Cells) /\ out \in Seq(Cells) /\ out # <<>>
      BY <1>1, <2>1
    <3> QED
      BY ONLY SMTT(30), <2>2, <3>1, MoveDeliver
  <2>4. Len(g) + 1 \in 1..Len(s)
    BY <1>1, <2>3
  <2>5. Len(TransSeq(d, s)) = Len(s) /\ TransSeq(d, s)[Len(g) + 1] = Trans(d, s[Len(g) + 1])
    BY SMTT(30), <1>1, <2>4, TransSeqFacts
  <2>6. Translated(d) = TransSeq(d, s) /\ Translated(d)' = TransSeq(d, s)
    BY <1>1, <2>1 DEF s
  <2> QED
    BY SMTT(30), <2>1, <2>3, <2>5, <2>6 DEF g
<1>4. ASSUME sent'[d] = sent[d], got'[d] = got[d]
      PROVE  Translated(d)' = Translated(d) /\ got'[d] = got[d]
  BY SMTT(30), <1>1, <1>4
<1>5. ASSUME NEW e \in Directions, NEW c \in Cells, PeerWrites(e, c)
      PROVE  (sent'[d] = Append(s, c) \/ sent'[d] = sent[d]) /\ got'[d] = g
  BY SMTT(30), <1>1, <1>5 DEF PeerWrites
<1>6. ASSUME NEW e \in Directions, PeerReads(e), e # d
      PROVE  sent'[d] = sent[d] /\ got'[d] = got[d]
  BY <1>1, <1>6 DEF PeerReads
<1>7. ASSUME ClientWrites
      PROVE  \E c \in Cells : PeerWrites("up", c)
  <2> DEFINE n == Len(sent["up"])
  <2>1. n \in Nat
    BY DEF IInv, TypeOK, Directions
  <2>2. PICK circ \in {"sentinel", "other"}, cmd \in Commands \cup {"Create"}, token \in BOOLEAN :
           PeerWrites("up", Cell(circ, cmd, n, token))
    BY SMTT(30), <1>7 DEF ClientWrites
  <2>3. Cell(circ, cmd, n, token) \in Cells
    BY <2>1 DEF Cell, Cells
  <2> QED
    BY <2>2, <2>3
<1>8. ASSUME ForeignWrites
      PROVE  \E c \in Cells : PeerWrites("down", c)
  <2> DEFINE n == Len(sent["down"])
  <2>1. n \in Nat
    BY DEF IInv, TypeOK, Directions
  <2>2. PICK cmd \in Commands \cup {"Created"} : PeerWrites("down", Cell("new", cmd, n, FALSE))
    BY <1>8 DEF ForeignWrites
  <2>3. Cell("new", cmd, n, FALSE) \in Cells
    BY <2>1 DEF Cell, Cells
  <2> QED
    BY <2>2, <2>3
<1>9. ASSUME UNCHANGED <<sent, got>>
      PROVE  sent'[d] = sent[d] /\ got'[d] = got[d]
  BY <1>9
<1>10. \/ UNCHANGED <<sent, got>>
       \/ \E e \in Directions : PeerReads(e)
       \/ \E e \in Directions : \E c \in Cells : PeerWrites(e, c)
  <2>1. CASE Session
    BY <2>1 DEF Session, ReadHandshake, Dial, ReadCreated, SetupFails, Done
  <2>2. CASE ClientWrites \/ ForeignWrites
    BY <1>7, <1>8, <2>2 DEF Directions
  <2>3. CASE \E e \in Directions : Pump(e) \/ PeerCloses(e)
    BY <2>3 DEF Pump, PumpRead, PumpReadFails, PumpWrite, PumpWriteFails, PeerCloses
  <2>4. CASE UNCHANGED vars
    BY <2>4 DEF vars
  <2> QED
    BY <2>1, <2>2, <2>3, <2>4 DEF Next
<1> QED
  BY <1>2, <1>3, <1>4, <1>5, <1>6, <1>9, <1>10

(* A new session maps to an empty tunnel.                                  *)
LEMMA TunnelInit ==
    ASSUME Init, NEW d \in Directions
    PROVE  Translated(d) = <<>> /\ got[d] = <<>>
<1>1. sent[d] = <<>> /\ got[d] = <<>>
  BY DEF Init
<1>2. DOMAIN sent[d] = {}
  BY <1>1
<1>3. Translated(d) = <<>>
  BY <1>2 DEF Translated
<1> QED
  BY <1>1, <1>3

(* UpTunnel: what the client writes comes out at the foreign entry renamed *)
(* and otherwise as it went in, each cell once and in order, the handshake *)
(* as the Create; the pump and the set-up of handleClientConn lose nothing *)
(* in the middle, whichever connection closes when.                        *)
THEOREM ImplementsUp == Spec => UpTunnel
<1>1. "up" \in Directions
  BY DEF Directions
<1>2. Init => Up!Init
  BY <1>1, TunnelInit DEF Up!Init
<1>3. IInv /\ [Next]_vars => [Up!Send \/ Up!Deliver]_(Up!vars)
  BY <1>1, TunnelStep DEF Up!Send, Up!Deliver, Up!vars
<1> QED
  BY <1>2, <1>3, InitInv, NextInv, PTL DEF Spec, UpTunnel, Up!Spec

(* DownTunnel: the same of what the foreign entry writes, from its Created *)
(* on, and the client.                                                     *)
THEOREM ImplementsDown == Spec => DownTunnel
<1>1. "down" \in Directions
  BY DEF Directions
<1>2. Init => Down!Init
  BY <1>1, TunnelInit DEF Down!Init
<1>3. IInv /\ [Next]_vars => [Down!Send \/ Down!Deliver]_(Down!vars)
  BY <1>1, TunnelStep DEF Down!Send, Down!Deliver, Down!vars
<1> QED
  BY <1>2, <1>3, InitInv, NextInv, PTL DEF Spec, DownTunnel, Down!Spec

===========================================================================
