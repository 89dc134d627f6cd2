------------------------------- MODULE Wire -------------------------------
(***************************************************************************)
(* Cells on the wire, from one relay to the next: the obfuscation preamble *)
(* (common/obfs.go), MarshalCell, ReadCell and UnmarshalCell, Fragment and *)
(* Reassembler (common/cell.go) with their callers in relay/main.go, and   *)
(* the reads that put messages back into a stream (webrtcx/conn.go).       *)
(*                                                                         *)
(* Bytes are counted, not spelled out.  A piece of payload p is the        *)
(* interval of its bytes that starts at from; a frame knows the cell it    *)
(* holds and its length; the transport holds segments of any size, as TCP  *)
(* does and as the data channel behind a volunteer's io.Copy does.         *)
(***************************************************************************)
EXTENDS Integers, Sequences, FiniteSetsExt

CONSTANTS
    PayloadSizes,    \* lengths of the payloads to pass on
    PreambleBytes,   \* values of the random byte in writeObfsPreamble
    Cuts,            \* where a segment may be cut in two
    IdxMod,          \* number of values of a fragment index (2^16 in Go)
    MaxPayloads,     \* bound: payloads
    MaxInFlight      \* bound: frames on the wire

CellHdrSize == 7
CellBodyMax == 505
FrameLenSize == 2
MaxFrameLen == 4096
padBuckets == <<128, 256, 512, 768, 1024, 1280>>
FragHdrSize == 6
FragDataMax == CellBodyMax - FragHdrSize
gcmOverhead == 28
obfsMinPreamble == 32
obfsMaxPreamble == 512

ASSUME WireAssumption ==
    /\ PreambleBytes \subseteq 0..255 /\ Cuts \subseteq Nat \ {0}
    /\ PayloadSizes \subseteq Nat \ {0} /\ IdxMod \in Nat \ {0}
    /\ MaxPayloads \in Nat /\ MaxInFlight \in Nat

Piece == [p : 0..MaxPayloads, from : Nat, size : Nat]
Cells == [cmd : {"Relay", "Fragment", "FragFinal"}, idx : Nat, length : Nat, data : Piece]
Frames == [frameLen : Nat, cell : Cells]

(* Bytes that are no interval of one payload.                              *)
Torn == [p |-> 0, from |-> 0, size |-> 0]

-----------------------------------------------------------------------------
(* The algorithms.                                                         *)

(* Mutant of pickPadTarget: a bucket one byte too small counts as a fit.   *)
pickPadTargetShort(meaningful) ==
    {b \in {padBuckets[j] : j \in DOMAIN padBuckets} : b + 1 >= meaningful}

(* The frame sizes a cell of this many bytes may be given.                 *)
pickPadTarget(meaningful) ==
    LET fits == {b \in {padBuckets[j] : j \in DOMAIN padBuckets} : b >= meaningful}
    IN IF fits = {} THEN {meaningful} ELSE fits

(* The frames that MarshalCell may make of a cell.                         *)
MarshalCell(c) ==
    LET n == Min({c.length, CellBodyMax})
    IN {[frameLen |-> Min({target, MaxFrameLen}), cell |-> [c EXCEPT !.length = n]] :
        target \in pickPadTarget(CellHdrSize + n)}

ValidLength(frameLen) == frameLen \in CellHdrSize..MaxFrameLen

(* UnmarshalCell accepts the body of this frame.                           *)
Unmarshals(f) == Min({f.cell.length, CellBodyMax}) <= f.frameLen - CellHdrSize

(* Fragment i of a payload.                                                *)
FragmentCell(p, size, i) ==
    LET from == (i - 1) * FragDataMax
        final == size - from <= FragDataMax
        n == Min({size - from, FragDataMax})
    IN [cmd |-> IF final THEN "FragFinal" ELSE "Fragment",
        idx |-> (i - 1) % IdxMod, length |-> FragHdrSize + n,
        data |-> [p |-> p, from |-> from, size |-> n]]

(* Mutant of Fragment: one more (empty) fragment when the last is full.    *)
FragmentExtra(p, size) ==
    [i \in 1..(size \div FragDataMax + 1) |-> FragmentCell(p, size, i)]

Fragment(p, size) ==
    [i \in 1..((size + FragDataMax - 1) \div FragDataMax) |-> FragmentCell(p, size, i)]

(* Relay forwarding: what fits goes as one cell, the rest in fragments.    *)
CellsFor(p, size) ==
    IF size + gcmOverhead > CellBodyMax THEN Fragment(p, size)
    ELSE <<[cmd |-> "Relay", idx |-> 0, length |-> size,
            data |-> [p |-> p, from |-> 0, size |-> size]]>>

NewReassembler == [pieces |-> <<>>, finalIdx |-> 0, gotFinal |-> FALSE]

(* Reassembler.Add up to its loops.                                        *)
Add(r, c) ==
    LET final == c.cmd = "FragFinal"
    IN [pieces |-> [i \in DOMAIN r.pieces \cup {c.idx} |->
                       IF i = c.idx THEN c.data ELSE r.pieces[i]],
        finalIdx |-> IF final THEN c.idx ELSE r.finalIdx,
        gotFinal |-> r.gotFinal \/ final]

(* Every piece up to the final one is there.                               *)
Complete(r) == r.gotFinal /\ \A i \in 0..r.finalIdx : i \in DOMAIN r.pieces

(* i <= finalIdx holds of every index, so the loops of Add do not end.     *)
Endless(r) == Complete(r) /\ r.finalIdx = IdxMod - 1

(* The pieces 0 to n, one after the other, as one: the interval they make  *)
(* up, if they do, cut to what a cell can hold.                            *)
Joined(pieces, n) ==
    IF \A i \in 1..n : /\ pieces[i].p = pieces[i - 1].p
                       /\ pieces[i].from = pieces[i - 1].from + pieces[i - 1].size
    THEN [p |-> pieces[0].p, from |-> pieces[0].from,
          size |-> Min({pieces[n].from + pieces[n].size - pieces[0].from, CellBodyMax})]
    ELSE Torn

(* Mutant of Reassembled: the loop stops before finalIdx.                  *)
ReassembledShort(r) == Joined(r.pieces, Max({r.finalIdx - 1, 0}))

(* The second loop of Add, and the copy into a cell body in handleCell.    *)
Reassembled(r) == Joined(r.pieces, r.finalIdx)

-----------------------------------------------------------------------------

VARIABLES
    payloads,    \* sizes of the payloads passed on so far
    out,         \* cells of the current payload not yet written
    preamble,    \* length of the preamble, chosen with the first write
    frames,      \* frames written and not yet read
    segments,    \* sizes of the segments in the transport
    rbuf,        \* what the reader has of a segment and has not handed out
    stage,       \* reader: in readObfsPreamble ("obfs", "skip"), in ReadCell
                 \* ("len", "body"), or stopped: "lost" (reading from the
                 \* middle of something), "refused" (by a check), "endless"
    need,        \* bytes the current io.ReadFull or io.CopyN still waits for
    reasm,       \* the circuit's Reassembler
    delivered,   \* payloads handed on to the relay's Relay handler
    late         \* the 20s of the obfuscation handshake ran out

vars == <<payloads, out, preamble, frames, segments, rbuf, stage, need, reasm,
          delivered, late>>

TypeOK ==
    /\ payloads \in Seq(PayloadSizes) /\ Len(payloads) <= MaxPayloads
    /\ out \in Seq(Cells) /\ frames \in Seq(Frames)
    /\ preamble \in obfsMinPreamble..obfsMaxPreamble
    /\ segments \in Seq(Nat \ {0})
    /\ stage \in {"obfs", "skip", "len", "body", "lost", "refused", "endless"}
    /\ need \in 0..MaxFrameLen /\ rbuf \in Nat
    /\ delivered \in Seq(Piece)
    /\ late \in BOOLEAN

(* A write of n bytes leaves as one segment or two, and its first part may *)
(* join the segment before.                                                *)
Segmented(n) ==
    {Append(segments, n)}
    \cup {Append(Append(segments, k), n - k) : k \in {c \in Cuts : c < n}}
    \cup (IF segments = <<>> THEN {} ELSE {[segments EXCEPT ![Len(segments)] = @ + n]})

(* Mutant of PreambleLength: the minimum is not added.                     *)
PreambleLengthBare(b) == b % (obfsMaxPreamble - obfsMinPreamble)

(* writeObfsPreamble: a length byte and that many random bytes.            *)
PreambleLength(b) == (b % (obfsMaxPreamble - obfsMinPreamble)) + obfsMinPreamble

Init ==
    /\ payloads = <<>> /\ out = <<>> /\ frames = <<>> /\ delivered = <<>>
    /\ \E b \in PreambleBytes : preamble = PreambleLength(b)
    /\ segments = <<1 + preamble>>
    /\ rbuf = 0 /\ stage = "obfs" /\ need = 1
    /\ reasm = NewReassembler
    /\ late = FALSE

(* The relay has a payload to pass on.                                     *)
Pass(size) ==
    /\ out = <<>>
    /\ Len(payloads) < MaxPayloads
    /\ payloads' = Append(payloads, size)
    /\ out' = CellsFor(Len(payloads) + 1, size)
    /\ UNCHANGED <<preamble, frames, segments, rbuf, stage, need, reasm, delivered, late>>

(* WriteCell of the next cell.                                             *)
Write ==
    /\ out # <<>>
    /\ Len(frames) < MaxInFlight
    /\ out' = Tail(out)
    /\ \E f \in MarshalCell(Head(out)) :
          /\ frames' = Append(frames, f)
          /\ segments' \in Segmented(FrameLenSize + f.frameLen)
    /\ UNCHANGED <<payloads, preamble, rbuf, stage, need, reasm, delivered, late>>

(* The cell that has just been read, given to handleCell.                  *)
Handle(c) ==
    LET r == Add(reasm, c)
    IN IF c.cmd = "Relay"
       THEN /\ delivered' = Append(delivered, c.data)
            /\ stage' = "len" /\ need' = FrameLenSize
            /\ UNCHANGED reasm
       ELSE IF Endless(r)
       THEN stage' = "endless" /\ need' = 0 /\ UNCHANGED <<reasm, delivered>>
       ELSE /\ reasm' = IF Complete(r) THEN NewReassembler ELSE r
            /\ delivered' = IF Complete(r) THEN Append(delivered, Reassembled(r))
                            ELSE delivered
            /\ stage' = "len" /\ need' = FrameLenSize

(* A stage is left for another, or the reader stops.                       *)
Goto(s, n) == stage' = s /\ need' = n /\ UNCHANGED <<frames, reasm, delivered>>

(* The length byte is there, or the bytes it announces have been skipped.  *)
(* A length over 255 does not fit the byte, and too little is skipped.     *)
readObfsPreamble ==
    LET skip == preamble % 256
    IN CASE stage = "obfs" /\ skip > 0 -> Goto("skip", skip)
         [] stage = "skip" /\ skip = preamble -> Goto("len", FrameLenSize)
         [] OTHER -> Goto("lost", 0)

(* What follows when the wait of each stage is over.                       *)
Waited ==
    LET f == Head(frames)
    IN CASE stage \in {"obfs", "skip"} -> readObfsPreamble
         [] stage = "len" -> IF ValidLength(f.frameLen) THEN Goto("body", f.frameLen)
                             ELSE Goto("refused", 0)
         [] stage = "body" -> IF Unmarshals(f)
                              THEN frames' = Tail(frames) /\ Handle(f.cell)
                              ELSE Goto("refused", 0)

(* One Read: from what is left of the last segment, or from the next one.  *)
Read ==
    LET avail == IF rbuf = 0 THEN Head(segments) ELSE rbuf
        n == Min({need, avail})
    IN /\ need > 0
       /\ rbuf > 0 \/ segments # <<>>
       /\ rbuf' = avail - n
       /\ segments' = IF rbuf = 0 THEN Tail(segments) ELSE segments
       /\ IF n < need THEN Goto(stage, need - n) ELSE Waited
       /\ UNCHANGED <<payloads, out, preamble, late>>

(* 20s have passed: readObfsPreamble ignores the error of its reads, and   *)
(* what arrives of the preamble afterwards is taken for cells.             *)
ObfsDeadline ==
    /\ stage \in {"obfs", "skip"}
    /\ late' = TRUE
    /\ Goto("lost", 0)
    /\ UNCHANGED <<payloads, out, preamble, segments, rbuf>>

Next ==
    \/ \E size \in PayloadSizes : Pass(size)
    \/ Write
    \/ Read
    \/ ObfsDeadline

Spec == Init /\ [][Next]_vars

-----------------------------------------------------------------------------
(* Properties.                                                             *)

(* Fragment indices are 16 bits wide; the last one cannot be used.         *)
MaxFragmented == (IdxMod - 1) * FragDataMax

(* What handleCell copies of payload p into the cell body it works on.     *)
Kept(p) == [p |-> p, from |-> 0, size |-> Min({payloads[p], CellBodyMax})]

(* Up to the first payload that has too many fragments, the next relay     *)
(* works on the payloads that were sent, each once and in order, however   *)
(* frames were padded, cut and joined: on all of a payload that fits a     *)
(* cell, and on the first CellBodyMax bytes of one that does not, whose    *)
(* tail is lost, though the README has "Payloads > CellBodyMax split       *)
(* across fragment cells".                                                 *)
PayloadsInOrder ==
    \A p \in DOMAIN delivered :
        (\A q \in 1..Min({p, Len(payloads)}) : payloads[q] <= MaxFragmented)
           => p <= Len(payloads) /\ delivered[p] = Kept(p)

(* "ReadCell reads exactly one length-prefixed frame": no cell the sender  *)
(* can make is refused, and the reader loses step, or stops for good, only *)
(* for one of three reasons: a preamble whose length does not fit its      *)
(* length byte, a deadline in the middle of the preamble, or a payload of  *)
(* more fragments than there are indices.                                  *)
ReaderInStep ==
    /\ stage # "refused"
    /\ stage = "lost" => late \/ preamble > 255
    /\ stage = "endless" => \E p \in DOMAIN payloads : payloads[p] > MaxFragmented

(* When the wire is empty the reader is between two frames, and nothing    *)
(* that was sent is still on its way: no read waits for bytes that never   *)
(* come, and no fragment is left in the Reassembler.                       *)
NothingLeftBehind ==
    /\ out = <<>> /\ segments = <<>> /\ rbuf = 0
    /\ stage \in {"len", "body"}
    => /\ stage = "len" /\ need = FrameLenSize
       /\ frames = <<>> /\ reasm = NewReassembler
       /\ Len(delivered) = Len(payloads)
====
