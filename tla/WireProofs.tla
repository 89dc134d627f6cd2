----------------------------- MODULE WireProofs -----------------------------
(***************************************************************************)
(* Proofs about Wire, for payloads of any sizes and any number, any number *)
(* of fragment indices, any preamble the length byte's random value gives  *)
(* and any cuts: types, the reader stays in step with the frames, payloads *)
(* arrive whole and in order, and nothing is left behind.                  *)
(*                                                                         *)
(* Bytes on their way are added up by a function of partial sums whose     *)
(* existence is part of the invariant, so that no sum needs an induction.  *)
(***************************************************************************)
EXTENDS Wire, TLAPS

(* s[1] + ... + s[n] = total.                                              *)
Adds(n, s, total) ==
    \E S \in [0..n -> Nat] :
        /\ S[0] = 0 /\ S[n] = total
        /\ \A i \in 1..n : S[i] = S[i - 1] + s[i]
        /\ \A i, j \in 0..n : i <= j => S[i] <= S[j]

FrameBytes == [i \in 1..Len(frames) |-> FrameLenSize + frames[i].frameLen]

(* How many bytes are unread, at each stage of the reader, when the frames *)
(* take u bytes.                                                           *)
Balance(unread, u) ==
    /\ stage = "obfs" => need = 1 /\ unread = 1 + preamble + u
    /\ stage = "skip" => /\ need \in 1..(preamble % 256)
                         /\ unread = need + (preamble - (preamble % 256)) + u
    /\ stage = "len" => need \in 1..FrameLenSize /\ unread = u - (FrameLenSize - need)
    /\ stage = "body" => /\ Len(frames) > 0 /\ need \in 1..frames[1].frameLen
                         /\ unread = u - (FrameLenSize + (frames[1].frameLen - need))
    /\ stage \in {"lost", "refused", "endless"} => need = 0

(* The transport holds the frames, apart from what has been read of the    *)
(* first, and what is left of the preamble.                                *)
ByteInv ==
    \E w, u, unread \in Nat : /\ Adds(Len(segments), segments, w)
                              /\ Adds(Len(frames), FrameBytes, u)
                              /\ unread = rbuf + w /\ Balance(unread, u)

(* Every frame passes the checks of ReadCell and UnmarshalCell.            *)
FrameInv == \A i \in 1..Len(frames) : ValidLength(frames[i].frameLen) /\ Unmarshals(frames[i])

-----------------------------------------------------------------------------
(* The cells on their way: in the transport, then not yet written.         *)

Count == Len(frames) + Len(out)
Transit == [i \in 1..Count |-> IF i <= Len(frames) THEN frames[i].cell
                               ELSE out[i - Len(frames)]]

Final(c) == c.cmd # "Fragment"

(* Fragment k, counted from 0, of a payload of this size.                  *)
IsFragment(c, k, size) ==
    /\ c.cmd # "Relay" /\ c.idx = k % IdxMod
    /\ c.data.from = k * FragDataMax /\ c.data.from < size
    /\ IF size - c.data.from <= FragDataMax
       THEN c.cmd = "FragFinal" /\ c.data.size = size - c.data.from
       ELSE c.cmd = "Fragment" /\ c.data.size = FragDataMax

(* A cell holds one of these payloads or a fragment of one.                *)
Sound(c, sizes) ==
    /\ c.data.p \in 1..Len(sizes)
    /\ \/ /\ c.cmd = "Relay" /\ c.data.from = 0
          /\ c.data.size = sizes[c.data.p] /\ sizes[c.data.p] <= CellBodyMax
       \/ \E k \in Nat : IsFragment(c, k, sizes[c.data.p])

(* What c does not hold of its payload starts with d, or d is the start of *)
(* the next payload.                                                       *)
Follows(c, d) ==
    IF Final(c) THEN d.data.p = c.data.p + 1 /\ d.data.from = 0
    ELSE d.data.p = c.data.p /\ d.data.from = c.data.from + c.data.size

(* n cells in the order of the payloads, up to the end of the last one.    *)
Ordered(cs, n, sizes) ==
    /\ \A i \in 1..n : Sound(cs[i], sizes)
    /\ \A i \in 1..(n - 1) : Follows(cs[i], cs[i + 1])
    /\ n > 0 => Final(cs[n]) /\ cs[n].data.p = Len(sizes)

OrderInv == Ordered(Transit, Count, payloads)

(* The Reassembler has the first m fragments of the next payload; with     *)
(* more fragments than indices, later ones have replaced earlier ones.     *)
Gathered(m) ==
    /\ m = 0 => reasm = NewReassembler
    /\ ~ reasm.gotFinal
    /\ DOMAIN reasm.pieces = {i \in 0..(IdxMod - 1) : i < m}
    /\ \A i \in DOMAIN reasm.pieces :
          /\ reasm.pieces[i] \in Piece /\ reasm.pieces[i].from <= m * FragDataMax
          /\ m <= IdxMod => reasm.pieces[i] = [p |-> Len(delivered) + 1,
                                               from |-> i * FragDataMax, size |-> FragDataMax]

(* The next cell goes on where the last one that was handled ended.        *)
ReaderAt(m) ==
    /\ Gathered(m)
    /\ Count = 0 => m = 0 /\ Len(delivered) = Len(payloads)
    /\ Count > 0 => /\ Transit[1].data.p = Len(delivered) + 1
                    /\ Transit[1].data.from = m * FragDataMax

ReaderInv == stage # "endless" => \E m \in Nat : ReaderAt(m)

(* Every payload that has no more fragments than there are indices arrives *)
(* in its place, up to the cut to CellBodyMax, also after one that has     *)
(* more.                                                                   *)
DeliveredInv ==
    \A p \in 1..Len(delivered) :
        /\ p <= Len(payloads)
        /\ payloads[p] <= MaxFragmented => delivered[p] = Kept(p)

IInv ==
    /\ TypeOK /\ ByteInv /\ FrameInv /\ OrderInv /\ ReaderInv /\ DeliveredInv
    /\ ReaderInStep

-----------------------------------------------------------------------------
(* Arithmetic.                                                             *)

(* min of two lengths, as MarshalCell and Conn.Read compute it.            *)
LEMMA MinOf ==
    ASSUME NEW a \in Int, NEW b \in Int
    PROVE  Min({a, b}) = IF a <= b THEN a ELSE b
<1> DEFINE m == IF a <= b THEN a ELSE b
<1>1. m \in {a, b} /\ \A y \in {a, b} : m <= y
  OBVIOUS
<1>2. \A x \in {a, b} : (\A y \in {a, b} : x <= y) => x = m
  OBVIOUS
<1> QED
  BY <1>1, <1>2 DEF Min

(* A fragment index is the fragment's number as long as there are indices, *)
(* and never more than it.                                                 *)
LEMMA Index ==
    ASSUME NEW k \in Nat
    PROVE  /\ k % IdxMod \in 0..(IdxMod - 1) /\ k % IdxMod <= k
           /\ k < IdxMod => k % IdxMod = k
BY WireAssumption

(* No bytes on an empty way.                                               *)
LEMMA AddsNone ==
    ASSUME NEW s
    PROVE  /\ Adds(0, s, 0)
           /\ \A w \in Nat : Adds(0, s, w) => w = 0
<1> DEFINE S == [i \in 0..0 |-> 0]
<1>1. S \in [0..0 -> Nat] /\ S[0] = 0
  OBVIOUS
<1>2. /\ \A i \in 1..0 : S[i] = S[i - 1] + s[i]
      /\ \A i, j \in 0..0 : i <= j => S[i] <= S[j]
  OBVIOUS
<1>3. Adds(0, s, 0)
  BY Zenon, <1>1, <1>2 DEF Adds
<1> QED
  BY Zenon, <1>3 DEF Adds

(* A write adds its bytes.                                                 *)
LEMMA AddsMore ==
    ASSUME NEW n \in Nat, NEW w \in Nat, NEW x \in Nat, NEW s, NEW t,
           Adds(n, s, w), \A i \in 1..n : t[i] = s[i], t[n + 1] = x
    PROVE  Adds(n + 1, t, w + x)
<1>1. PICK S \in [0..n -> Nat] :
          /\ S[0] = 0 /\ S[n] = w
          /\ \A i \in 1..n : S[i] = S[i - 1] + s[i]
          /\ \A i, j \in 0..n : i <= j => S[i] <= S[j]
  BY DEF Adds
<1> DEFINE T == [i \in 0..(n + 1) |-> IF i = n + 1 THEN w + x ELSE S[i]]
<1>2. T \in [0..(n + 1) -> Nat] /\ T[0] = 0 /\ T[n + 1] = w + x
  BY <1>1
<1>3. \A i \in 1..(n + 1) : T[i] = T[i - 1] + t[i]
  BY <1>1
<1>4. \A i, j \in 0..(n + 1) : i <= j => T[i] <= T[j]
  BY <1>1
<1> QED
  BY <1>2, <1>3, <1>4 DEF Adds

(* So does one that joins the last segment.                                *)
LEMMA AddsLast ==
    ASSUME NEW n \in Nat \ {0}, NEW w \in Nat, NEW x \in Nat, NEW s, NEW t,
           s[n] \in Nat, Adds(n, s, w),
           \A i \in 1..(n - 1) : t[i] = s[i], t[n] = s[n] + x
    PROVE  Adds(n, t, w + x)
<1>1. PICK S \in [0..n -> Nat] :
          /\ S[0] = 0 /\ S[n] = w
          /\ \A i \in 1..n : S[i] = S[i - 1] + s[i]
          /\ \A i, j \in 0..n : i <= j => S[i] <= S[j]
  BY DEF Adds
<1> DEFINE T == [i \in 0..n |-> IF i = n THEN w + x ELSE S[i]]
<1>2. T \in [0..n -> Nat] /\ T[0] = 0 /\ T[n] = w + x
  BY <1>1
<1>3. ASSUME NEW i \in 1..n
      PROVE  T[i] = T[i - 1] + t[i]
  <2>1. S[i] = S[i - 1] + s[i] /\ i - 1 \in 0..n /\ i - 1 # n /\ S[i - 1] \in Nat
    BY <1>1
  <2>2. CASE i = n
    BY <1>1, <2>1, <2>2
  <2>3. CASE i # n
    BY <2>1, <2>3
  <2> QED
    BY <2>2, <2>3
<1>4. \A i, j \in 0..n : i <= j => T[i] <= T[j]
  BY <1>1
<1> QED
  BY <1>2, <1>3, <1>4 DEF Adds

(* A read of the first takes its bytes away.                               *)
LEMMA AddsRest ==
    ASSUME NEW n \in Nat \ {0}, NEW w \in Nat, NEW s, NEW t,
           \A i \in 1..n : s[i] \in Nat, Adds(n, s, w),
           \A i \in 1..(n - 1) : t[i] = s[i + 1]
    PROVE  s[1] <= w /\ Adds(n - 1, t, w - s[1])
<1>1. PICK S \in [0..n -> Nat] :
          /\ S[0] = 0 /\ S[n] = w
          /\ \A i \in 1..n : S[i] = S[i - 1] + s[i]
          /\ \A i, j \in 0..n : i <= j => S[i] <= S[j]
  BY DEF Adds
<1>2. S[1] = s[1] /\ s[1] <= w /\ \A i \in 1..n : s[1] <= S[i]
  BY <1>1
<1> DEFINE T == [i \in 0..(n - 1) |-> S[i + 1] - s[1]]
<1>3. T \in [0..(n - 1) -> Nat] /\ T[0] = 0 /\ T[n - 1] = w - s[1]
  <2>1. ASSUME NEW i \in 0..(n - 1) PROVE S[i + 1] - s[1] \in Nat
    BY <1>2
  <2>2. T \in [0..(n - 1) -> Nat]
    BY <2>1
  <2>3. S[0 + 1] - s[1] = 0 /\ S[(n - 1) + 1] - s[1] = w - s[1]
    BY <1>1, <1>2
  <2> QED
    BY SMTT(30), <2>2, <2>3
<1>4. ASSUME NEW i \in 1..(n - 1)
      PROVE  T[i] = T[i - 1] + t[i]
  <2>1. S[i + 1] = S[(i + 1) - 1] + s[i + 1] /\ S[i] \in Nat /\ (i - 1) + 1 = i
    BY <1>1
  <2>2. i \in 0..(n - 1) /\ i - 1 \in 0..(n - 1) /\ (i + 1) - 1 = i
    OBVIOUS
  <2>3. T[i] = S[i + 1] - s[1] /\ T[i - 1] = S[(i - 1) + 1] - s[1]
    BY Zenon, <2>2
  <2>4. S[i + 1] = S[i] + s[i + 1]
    BY Zenon, <2>1, <2>2
  <2>5. s[1] \in Nat /\ s[i + 1] \in Nat /\ t[i] = s[i + 1]
    OBVIOUS
  <2>6. T[i - 1] = S[i] - s[1]
    BY Zenon, <2>1, <2>3
  <2> HIDE DEF T
  <2> QED
    BY ONLY SMTT(30), <2>1, <2>3, <2>4, <2>5, <2>6
<1>5. \A i, j \in 0..(n - 1) : i <= j => T[i] <= T[j]
  BY SMTT(30), <1>1
<1> QED
  BY <1>2, <1>3, <1>4, <1>5 DEF Adds

-----------------------------------------------------------------------------
(* What the algorithms make.                                               *)

(* pickPadTarget never picks a frame too small for the cell.               *)
LEMMA Targets ==
    ASSUME NEW n \in Nat, NEW t \in pickPadTarget(n)
    PROVE  t \in Nat /\ t >= n
<1>1. \A j \in DOMAIN padBuckets : padBuckets[j] \in Nat
  BY DEF padBuckets
<1> QED
  BY <1>1 DEF pickPadTarget

(* A frame of MarshalCell passes the checks of ReadCell and UnmarshalCell, *)
(* and holds the cell; only a length over CellBodyMax is cut.              *)
LEMMA Marshals ==
    ASSUME NEW c \in Cells, NEW f \in MarshalCell(c)
    PROVE  /\ f \in Frames /\ ValidLength(f.frameLen) /\ Unmarshals(f)
           /\ f.cell.cmd = c.cmd /\ f.cell.idx = c.idx /\ f.cell.data = c.data
<1> DEFINE n == Min({c.length, CellBodyMax})
<1>1. c.length \in Nat
  BY DEF Cells
<1>2. n \in Nat /\ n <= CellBodyMax
  BY <1>1, MinOf DEF CellBodyMax
<1>3. PICK t \in pickPadTarget(CellHdrSize + n) :
          f = [frameLen |-> Min({t, MaxFrameLen}), cell |-> [c EXCEPT !.length = n]]
  BY Zenon DEF MarshalCell
<1> HIDE DEF n
<1>4. /\ CellHdrSize \in Nat /\ CellBodyMax \in Nat /\ MaxFrameLen \in Nat
      /\ CellHdrSize + CellBodyMax <= MaxFrameLen
  BY DEF CellHdrSize, CellBodyMax, MaxFrameLen
<1>5. t \in Nat /\ t >= CellHdrSize + n
  BY <1>2, <1>4, Targets
<1>6. Min({t, MaxFrameLen}) = IF t <= MaxFrameLen THEN t ELSE MaxFrameLen
  BY <1>4, <1>5, MinOf
<1>7. /\ Min({t, MaxFrameLen}) \in Nat /\ Min({t, MaxFrameLen}) \in CellHdrSize..MaxFrameLen
      /\ n <= Min({t, MaxFrameLen}) - CellHdrSize
  BY <1>2, <1>4, <1>5, <1>6
<1>8. /\ f.frameLen = Min({t, MaxFrameLen}) /\ f.cell = [c EXCEPT !.length = n]
      /\ f = [frameLen |-> f.frameLen, cell |-> f.cell]
  BY Zenon, <1>3
<1>9. /\ f.cell \in Cells /\ f.cell.length = n
      /\ f.cell.cmd = c.cmd /\ f.cell.idx = c.idx /\ f.cell.data = c.data
  BY <1>2, <1>8 DEF Cells
<1>10. f \in Frames
  <2>1. f.frameLen \in Nat
    BY Zenon, <1>7, <1>8
  <2> QED
    BY Zenon, <1>8, <1>9, <2>1 DEF Frames
<1>11. ValidLength(f.frameLen)
  BY Zenon, <1>7, <1>8 DEF ValidLength
<1>12. Min({n, CellBodyMax}) = n
  BY <1>2, <1>4, MinOf
<1>13. Unmarshals(f)
  BY Zenon, <1>7, <1>8, <1>9, <1>12 DEF Unmarshals
<1> QED
  BY Zenon, <1>9, <1>10, <1>11, <1>13

(* However a write is cut and joined, its bytes are added, in order.       *)
LEMMA Segments ==
    ASSUME segments \in Seq(Nat \ {0}), NEW w \in Nat, NEW n \in Nat \ {0},
           Adds(Len(segments), segments, w), NEW t \in Segmented(n)
    PROVE  t \in Seq(Nat \ {0}) /\ Adds(Len(t), t, w + n)
<1> DEFINE s == segments
           l == Len(segments)
<1>1. l \in Nat /\ \A i \in 1..l : s[i] \in Nat \ {0}
  OBVIOUS
<1>2. ASSUME t = Append(s, n)
      PROVE  t \in Seq(Nat \ {0}) /\ Adds(Len(t), t, w + n)
  <2>1. t \in Seq(Nat \ {0}) /\ Len(t) = l + 1 /\ (\A i \in 1..l : t[i] = s[i]) /\ t[l + 1] = n
    BY <1>2
  <2>2. Adds(l + 1, t, w + n)
    BY <1>1, <2>1, AddsMore
  <2> QED
    BY Zenon, <2>1, <2>2
<1>3. ASSUME NEW k \in Cuts, k < n, t = Append(Append(s, k), n - k)
      PROVE  t \in Seq(Nat \ {0}) /\ Adds(Len(t), t, w + n)
  <2>1. k \in Nat \ {0} /\ n - k \in Nat \ {0}
    BY <1>3, WireAssumption
  <2> DEFINE u == Append(s, k)
  <2>2. u \in Seq(Nat \ {0}) /\ Len(u) = l + 1 /\ (\A i \in 1..l : u[i] = s[i]) /\ u[l + 1] = k
    BY <2>1
  <2>3. Adds(l + 1, u, w + k)
    BY <1>1, <2>1, <2>2, AddsMore
  <2> HIDE DEF u
  <2>4. /\ t \in Seq(Nat \ {0}) /\ Len(t) = (l + 1) + 1
        /\ (\A i \in 1..(l + 1) : t[i] = u[i]) /\ t[(l + 1) + 1] = n - k
    <3>1. t = Append(u, n - k)
      BY Zenon, <1>3 DEF u
    <3> QED
      BY <2>1, <2>2, <3>1
  <2>5. l + 1 \in Nat /\ w + k \in Nat /\ n - k \in Nat /\ (w + k) + (n - k) = w + n
    BY <1>1, <2>1
  <2>6. Adds((l + 1) + 1, t, (w + k) + (n - k))
    BY Zenon, <2>3, <2>4, <2>5, AddsMore
  <2> QED
    BY Zenon, <2>4, <2>5, <2>6
<1>4. ASSUME s # <<>>, t = [s EXCEPT ![Len(s)] = @ + n]
      PROVE  t \in Seq(Nat \ {0}) /\ Adds(Len(t), t, w + n)
  <2>1. l \in Nat \ {0} /\ s[l] \in Nat \ {0}
    BY <1>4
  <2>2. /\ t \in Seq(Nat \ {0}) /\ Len(t) = l
        /\ (\A i \in 1..(l - 1) : t[i] = s[i]) /\ t[l] = s[l] + n
    BY <1>4, <2>1
  <2>3. Adds(l, t, w + n)
    BY <2>1, <2>2, AddsLast
  <2> QED
    BY Zenon, <2>2, <2>3
<1> QED
  BY Zenon, <1>2, <1>3, <1>4 DEF Segmented

(* Fragment makes as many fragments as the payload fills, the last one     *)
(* neither empty nor over-full.                                            *)
LEMMA FragmentCount ==
    ASSUME NEW size \in Nat \ {0}, NEW K, K = (size + FragDataMax - 1) \div FragDataMax
    PROVE  /\ K \in Nat \ {0}
           /\ (K - 1) * FragDataMax < size /\ size <= K * FragDataMax
BY DEF FragDataMax, CellBodyMax, FragHdrSize

(* Fragment i of a payload holds the bytes that follow fragment i - 1.     *)
LEMMA FragmentIs ==
    ASSUME NEW p \in 1..MaxPayloads, NEW size \in Nat \ {0}, NEW i \in Nat \ {0},
           (i - 1) * FragDataMax < size
    PROVE  LET c == FragmentCell(p, size, i)
           IN c \in Cells /\ c.data.p = p /\ IsFragment(c, i - 1, size)
<1> DEFINE c == FragmentCell(p, size, i)
           from == (i - 1) * FragDataMax
           n == Min({size - from, FragDataMax})
           d == [p |-> p, from |-> from, size |-> n]
<1>1. /\ FragDataMax \in Nat /\ FragHdrSize \in Nat /\ from \in Nat /\ size - from \in Nat
      /\ i - 1 \in Nat
  BY DEF FragDataMax, CellBodyMax, FragHdrSize
<1>2. (i - 1) % IdxMod \in Nat
  BY <1>1, WireAssumption
<1>3. n = IF size - from <= FragDataMax THEN size - from ELSE FragDataMax
  BY <1>1, MinOf
<1>4. c = [cmd |-> IF size - from <= FragDataMax THEN "FragFinal" ELSE "Fragment",
           idx |-> (i - 1) % IdxMod, length |-> FragHdrSize + n, data |-> d]
  BY Zenon DEF FragmentCell
<1> HIDE DEF n, from, c
<1>5. n \in Nat /\ FragHdrSize + n \in Nat
  BY <1>1, <1>3
<1>6. p \in 0..MaxPayloads
  BY WireAssumption
<1>7. d \in Piece
  BY Zenon, <1>1, <1>5, <1>6 DEF Piece
<1>8. c.data = d /\ c.idx = (i - 1) % IdxMod
  BY <1>4
<1>9. c.cmd = IF size - from <= FragDataMax THEN "FragFinal" ELSE "Fragment"
  BY <1>4
<1>10. d.p = p /\ d.from = from /\ d.size = n
  OBVIOUS
<1> HIDE DEF d
<1>11. c \in Cells
  BY <1>2, <1>4, <1>5, <1>7 DEF Cells
<1>12. c.cmd # "Relay" /\ from < size
  BY <1>9 DEF from
<1>13. IsFragment(c, i - 1, size)
  BY Zenon, <1>3, <1>8, <1>9, <1>10, <1>12 DEF from, IsFragment
<1> QED
  BY Zenon, <1>8, <1>10, <1>11, <1>13 DEF c

(* What CellsFor makes of payload p, the next one.                         *)
LEMMA CellsMade ==
    ASSUME NEW size \in PayloadSizes, NEW ps \in Seq(PayloadSizes), Len(ps) < MaxPayloads
    PROVE  LET cs == CellsFor(Len(ps) + 1, size)
           IN /\ cs \in Seq(Cells) /\ Len(cs) \in Nat \ {0}
              /\ Ordered(cs, Len(cs), Append(ps, size))
              /\ cs[1].data.p = Len(ps) + 1 /\ cs[1].data.from = 0
<1> DEFINE p == Len(ps) + 1
           sizes == Append(ps, size)
           cs == CellsFor(p, size)
<1>1. /\ size \in Nat \ {0} /\ p \in 1..MaxPayloads
      /\ Len(sizes) = p /\ sizes[p] = size
  BY WireAssumption
<1> SUFFICES /\ cs \in Seq(Cells) /\ Len(cs) \in Nat \ {0}
             /\ Ordered(cs, Len(cs), sizes) /\ cs[1].data.p = p /\ cs[1].data.from = 0
  OBVIOUS
<1> HIDE DEF p, sizes, cs
<1>2. CellBodyMax = 505 /\ FragDataMax = 499 /\ gcmOverhead = 28
  BY DEF FragDataMax, CellBodyMax, FragHdrSize, gcmOverhead
<1>3. CASE size + gcmOverhead > CellBodyMax
  <2> DEFINE K == (size + FragDataMax - 1) \div FragDataMax
  <2>1. cs = [i \in 1..K |-> FragmentCell(p, size, i)]
    BY Zenon, <1>3 DEF CellsFor, Fragment, cs
  <2>2. K \in Nat \ {0} /\ (K - 1) * FragDataMax < size /\ size <= K * FragDataMax
    BY <1>1, FragmentCount
  <2> HIDE DEF K
  <2>3. ASSUME NEW i \in 1..K
        PROVE  /\ cs[i] = FragmentCell(p, size, i) /\ i \in Nat \ {0}
               /\ (i - 1) * FragDataMax < size
    <3>1. cs[i] = FragmentCell(p, size, i)
      BY Zenon, <2>1
    <3>2. (i - 1) * FragDataMax < size
      BY <1>1, <1>2, <2>2
    <3> QED
      BY <3>1, <3>2
  <2>4. ASSUME NEW i \in 1..K
        PROVE  cs[i] \in Cells /\ cs[i].data.p = p /\ IsFragment(cs[i], i - 1, size)
    <3>1. /\ cs[i] = FragmentCell(p, size, i) /\ i \in Nat \ {0}
          /\ (i - 1) * FragDataMax < size
      BY Zenon, <2>3
    <3>2. LET c == FragmentCell(p, size, i)
          IN c \in Cells /\ c.data.p = p /\ IsFragment(c, i - 1, size)
      <4>1. size \in Nat \ {0} /\ p \in 1..MaxPayloads
        BY Zenon, <1>1
      <4> QED
        BY <3>1, <4>1, FragmentIs
    <3> QED
      BY Zenon, <3>1, <3>2
  <2>5. cs \in Seq(Cells) /\ Len(cs) = K
    BY <2>1, <2>2, <2>4
  <2>6. ASSUME NEW i \in 1..K PROVE Sound(cs[i], sizes)
    <3>1. i - 1 \in Nat /\ p \in 1..Len(sizes)
      BY <1>1
    <3> QED
      BY Zenon, <1>1, <2>4, <3>1 DEF Sound
  <2>7. ASSUME NEW i \in 1..(K - 1) PROVE Follows(cs[i], cs[i + 1])
    <3>1. i \in 1..K /\ i + 1 \in 1..K /\ (i + 1) - 1 = i
      BY <2>2
    <3>2. ~ (size - (i - 1) * FragDataMax <= FragDataMax)
      BY <1>1, <1>2, <2>2
    <3>3. cs[i].cmd = "Fragment" /\ cs[i].data.size = FragDataMax
      BY Zenon, <2>4, <3>1, <3>2 DEF IsFragment
    <3>4. cs[i + 1].data.p = cs[i].data.p
      BY Zenon, <2>4, <3>1
    <3>5. /\ cs[i].data.from = (i - 1) * FragDataMax
          /\ cs[i + 1].data.from = ((i + 1) - 1) * FragDataMax
      BY Zenon, <2>4, <3>1 DEF IsFragment
    <3>6. cs[i + 1].data.from = cs[i].data.from + cs[i].data.size
      BY <1>2, <3>3, <3>5
    <3> QED
      BY <3>3, <3>4, <3>6 DEF Follows, Final
  <2>8. cs[1].data.p = p /\ cs[1].data.from = 0
    <3>1. 1 \in 1..K /\ (1 - 1) * FragDataMax = 0
      BY <1>2, <2>2
    <3> QED
      BY Zenon, <2>4, <3>1 DEF IsFragment
  <2>9. cs[K].data.p = p /\ Final(cs[K])
    <3>1. K \in 1..K /\ size - (K - 1) * FragDataMax <= FragDataMax
      BY <1>1, <1>2, <2>2
    <3>2. cs[K].data.p = p /\ cs[K].cmd = "FragFinal"
      BY Zenon, <2>4, <3>1 DEF IsFragment
    <3> QED
      BY <3>2 DEF Final
  <2> QED
    <3>1. Ordered(cs, K, sizes)
      BY Zenon, <1>1, <2>6, <2>7, <2>9 DEF Ordered
    <3> QED
      BY Zenon, <2>2, <2>5, <2>8, <3>1
<1>4. CASE ~ (size + gcmOverhead > CellBodyMax)
  <2> DEFINE d == [p |-> p, from |-> 0, size |-> size]
             c == [cmd |-> "Relay", idx |-> 0, length |-> size, data |-> d]
  <2>1. cs = <<c>>
    BY Zenon, <1>4 DEF CellsFor, cs
  <2>2. c.data = d /\ c.cmd = "Relay" /\ d.p = p /\ d.from = 0 /\ d.size = size
    OBVIOUS
  <2>3. d \in Piece
    BY <1>1, WireAssumption DEF Piece
  <2> HIDE DEF d
  <2>4. c \in Cells
    BY <1>1, <2>3 DEF Cells
  <2> HIDE DEF c
  <2>5. cs \in Seq(Cells) /\ Len(cs) = 1 /\ cs[1] = c
    <3>1. <<c>> \in Seq(Cells) /\ Len(<<c>>) = 1 /\ <<c>>[1] = c
      BY ONLY <2>4
    <3> QED
      BY Zenon, <2>1, <3>1
  <2>6. Sound(c, sizes)
    <3>1. sizes[c.data.p] = size /\ p \in 1..Len(sizes) /\ size <= CellBodyMax
      BY <1>1, <1>4, <1>2, <2>2
    <3> QED
      BY Zenon, <2>2, <3>1 DEF Sound
  <2>7. Final(c)
    BY <2>2 DEF Final
  <2>8. Ordered(cs, 1, sizes)
    BY <1>1, <2>2, <2>5, <2>6, <2>7 DEF Ordered
  <2>9. 1 \in Nat \ {0}
    OBVIOUS
  <2> QED
    BY Zenon, <2>2, <2>5, <2>8, <2>9
<1> QED
  BY Zenon, <1>3, <1>4

(* A payload more changes nothing about the cells of the earlier ones.     *)
LEMMA SoundStays ==
    ASSUME NEW size \in PayloadSizes, NEW ps \in Seq(PayloadSizes),
           NEW sizes, sizes = Append(ps, size), NEW c, Sound(c, ps)
    PROVE  Sound(c, sizes)
<1>1. c.data.p \in 1..Len(ps)
  BY Zenon DEF Sound
<1>2. c.data.p \in 1..Len(sizes) /\ sizes[c.data.p] = ps[c.data.p]
  BY <1>1
<1> QED
  BY Zenon, <1>2 DEF Sound

-----------------------------------------------------------------------------
(* The invariant, one part at a time.                                      *)

(* Only the transport, the frames and the reader's wait matter to the      *)
(* bytes on their way.                                                     *)
LEMMA BytesSame ==
    ASSUME ByteInv, UNCHANGED <<preamble, frames, segments, rbuf, stage, need>>
    PROVE  ByteInv'
<1>1. FrameBytes' = FrameBytes
  BY Zenon DEF FrameBytes
<1>2. ASSUME NEW t, NEW u, Balance(t, u) PROVE Balance(t, u)'
  BY Zenon, <1>2 DEF Balance
<1> QED
  BY Zenon, <1>1, <1>2 DEF ByteInv

(* writeObfsPreamble sends between 32 and 512 bytes after the length byte. *)
LEMMA PreambleIs ==
    ASSUME NEW b \in 0..255
    PROVE  PreambleLength(b) \in obfsMinPreamble..obfsMaxPreamble
BY DEF PreambleLength, obfsMinPreamble, obfsMaxPreamble

(* At the start: the preamble is in the transport, and no cell.            *)
LEMMA InitOK ==
    ASSUME Init
    PROVE  IInv
<1>1. preamble \in obfsMinPreamble..obfsMaxPreamble
  BY Zenon, WireAssumption, PreambleIs DEF Init
<1>2. preamble \in Nat
  BY <1>1 DEF obfsMinPreamble, obfsMaxPreamble
<1>3. segments = <<1 + preamble>> /\ segments \in Seq(Nat \ {0})
  BY <1>2 DEF Init
<1>4. /\ payloads = <<>> /\ out = <<>> /\ frames = <<>> /\ delivered = <<>> /\ rbuf = 0
      /\ stage = "obfs" /\ need = 1 /\ late = FALSE /\ reasm = NewReassembler
  BY Zenon DEF Init
<1>5. TypeOK
  <2>1. payloads \in Seq(PayloadSizes) /\ Len(payloads) <= MaxPayloads
    BY <1>4, WireAssumption
  <2>2. out \in Seq(Cells) /\ frames \in Seq(Frames) /\ delivered \in Seq(Piece)
    BY <1>4
  <2>3. need \in 0..MaxFrameLen /\ rbuf \in Nat
    BY <1>4 DEF MaxFrameLen
  <2> QED
    BY <1>1, <1>3, <1>4, <2>1, <2>2, <2>3 DEF TypeOK
<1>6. ByteInv
  <2>1. Adds(1, segments, 1 + preamble)
    <3>1. Len(segments) = 1 /\ segments[0 + 1] = 1 + preamble /\ 1 + preamble \in Nat
      BY <1>2, <1>3
    <3>2. Adds(0, segments, 0) /\ \A i \in 1..0 : segments[i] = segments[i]
      BY Zenon, AddsNone
    <3>3. Adds(0 + 1, segments, 0 + (1 + preamble))
      BY <3>1, <3>2, AddsMore
    <3> QED
      BY <1>2, <3>3
  <2>2. Adds(0, FrameBytes, 0)
    BY Zenon, AddsNone
  <2>3. Len(frames) = 0 /\ Len(segments) = 1
    BY <1>3, <1>4
  <2>4. Balance(1 + preamble, 0) /\ 1 + preamble = rbuf + (1 + preamble)
    BY <1>2, <1>4 DEF Balance
  <2>5. 1 + preamble \in Nat /\ 0 \in Nat
    BY <1>2
  <2> QED
    BY Zenon, <2>1, <2>2, <2>3, <2>4, <2>5 DEF ByteInv
<1>7. Count = 0 /\ Len(frames) = 0 /\ Len(payloads) = 0 /\ Len(delivered) = 0
  BY <1>4 DEF Count
<1>8. FrameInv /\ OrderInv /\ DeliveredInv
  BY <1>7 DEF FrameInv, OrderInv, Ordered, DeliveredInv
<1>9. Gathered(0)
  BY <1>4 DEF Gathered, NewReassembler
<1>10. ReaderInv
  BY <1>7, <1>9 DEF ReaderInv, ReaderAt
<1>11. ReaderInStep
  BY <1>4 DEF ReaderInStep
<1> QED
  BY Zenon, <1>5, <1>6, <1>8, <1>10, <1>11 DEF IInv

(* Pass: the cells of the new payload follow those of the one before.      *)
LEMMA PassOK ==
    ASSUME IInv, NEW size \in PayloadSizes, Pass(size)
    PROVE  IInv'
<1> DEFINE L == Len(frames)
           p == Len(payloads) + 1
           cs == CellsFor(p, size)
<1>1. /\ out = <<>> /\ Len(payloads) < MaxPayloads /\ payloads' = Append(payloads, size)
      /\ out' = cs
  BY Zenon DEF Pass
<1>2. UNCHANGED <<preamble, frames, segments, rbuf, stage, need, reasm, delivered, late>>
  BY Zenon DEF Pass
<1>3. TypeOK /\ payloads \in Seq(PayloadSizes) /\ frames \in Seq(Frames) /\ L \in Nat
  <2>1. TypeOK /\ payloads \in Seq(PayloadSizes) /\ frames \in Seq(Frames)
    BY Zenon DEF IInv, TypeOK
  <2> QED
    BY <2>1
<1>4. /\ cs \in Seq(Cells) /\ Len(cs) \in Nat \ {0}
      /\ Ordered(cs, Len(cs), payloads')
      /\ cs[1].data.p = p /\ cs[1].data.from = 0
  BY Zenon, <1>1, <1>3, CellsMade
<1>5. /\ payloads' \in Seq(PayloadSizes) /\ Len(payloads') = p /\ p <= MaxPayloads
      /\ \A i \in 1..Len(payloads) : payloads'[i] = payloads[i]
      /\ Len(payloads) \in Nat /\ 1..Len(payloads) \subseteq 1..p
  BY <1>1, <1>3, WireAssumption
<1> HIDE DEF cs
<1>6. TypeOK'
  <2>1. out' \in Seq(Cells) /\ payloads' \in Seq(PayloadSizes) /\ Len(payloads') <= MaxPayloads
    BY Zenon, <1>1, <1>4, <1>5
  <2> QED
    BY Zenon, <1>2, <1>3, <2>1 DEF TypeOK
<1>7. ByteInv' /\ FrameInv'
  BY Zenon, <1>2, BytesSame DEF IInv, FrameInv, ValidLength, Unmarshals
<1>8. Count = L /\ Count' = L + Len(cs)
  BY <1>1, <1>2, <1>3 DEF Count
<1>9. ASSUME NEW i \in 1..L
      PROVE  Transit[i] = frames[i].cell /\ Transit'[i] = frames[i].cell
  BY <1>2, <1>3, <1>4, <1>8 DEF Transit
<1>10. ASSUME NEW i \in 1..Len(cs) PROVE Transit'[L + i] = cs[i]
  BY <1>1, <1>2, <1>3, <1>4, <1>8 DEF Transit
<1>11. Ordered(Transit, L, payloads)
  BY Zenon, <1>8 DEF IInv, OrderInv
<1>12. OrderInv'
  <2>1. ASSUME NEW i \in 1..(L + Len(cs)) PROVE Sound(Transit'[i], payloads')
    <3>1. CASE i \in 1..L
      <4>1. Sound(Transit[i], payloads)
        BY Zenon, <1>11, <3>1 DEF Ordered
      <4>2. Sound(Transit[i], payloads')
        BY Zenon, <1>1, <1>3, <4>1, SoundStays
      <4> QED
        BY Zenon, <1>9, <3>1, <4>2
    <3>2. CASE i \notin 1..L
      <4>1. i - L \in 1..Len(cs) /\ i = L + (i - L)
        BY <1>3, <1>4, <3>2
      <4>2. Transit'[i] = cs[i - L]
        BY Zenon, <1>10, <4>1
      <4> QED
        BY Zenon, <1>4, <4>1, <4>2 DEF Ordered
    <3> QED
      BY Zenon, <3>1, <3>2
  <2>2. ASSUME NEW i \in 1..((L + Len(cs)) - 1) PROVE Follows(Transit'[i], Transit'[i + 1])
    <3>1. CASE i \in 1..(L - 1)
      <4>1. i \in 1..L /\ i + 1 \in 1..L
        BY <1>3, <3>1
      <4>2. Follows(Transit[i], Transit[i + 1])
        BY Zenon, <1>11, <3>1 DEF Ordered
      <4> QED
        BY Zenon, <1>9, <4>1, <4>2
    <3>2. CASE i = L
      <4>1. i \in 1..L /\ i + 1 = L + 1 /\ 1 \in 1..Len(cs) /\ L > 0
        BY <1>3, <1>4, <3>2
      <4>2. Final(Transit[L]) /\ Transit[L].data.p = Len(payloads)
        BY Zenon, <1>11, <4>1 DEF Ordered
      <4>3. Transit'[i] = Transit[L]
        BY Zenon, <1>9, <3>2, <4>1
      <4>4. Transit'[i + 1] = cs[1]
        BY Zenon, <1>10, <4>1
      <4> QED
        BY Zenon, <1>4, <4>2, <4>3, <4>4 DEF Follows
    <3>3. CASE i > L
      <4>1. /\ i - L \in 1..(Len(cs) - 1) /\ i = L + (i - L) /\ i + 1 = L + ((i - L) + 1)
            /\ i - L \in 1..Len(cs) /\ (i - L) + 1 \in 1..Len(cs)
        BY <1>3, <1>4, <3>3
      <4>2. Transit'[L + (i - L)] = cs[i - L]
        BY Zenon, <1>10, <4>1
      <4>3. Transit'[L + ((i - L) + 1)] = cs[(i - L) + 1]
        BY Zenon, <1>10, <4>1
      <4>4. Follows(cs[i - L], cs[(i - L) + 1])
        BY Zenon, <1>4, <4>1 DEF Ordered
      <4> QED
        BY Zenon, <4>1, <4>2, <4>3, <4>4
    <3> QED
      BY <1>3, <3>1, <3>2, <3>3
  <2>3. Len(cs) \in 1..Len(cs) /\ Len(cs) > 0
    BY <1>4
  <2>4. Transit'[L + Len(cs)] = cs[Len(cs)]
    BY Zenon, <1>10, <2>3
  <2>5. Final(Transit'[L + Len(cs)]) /\ Transit'[L + Len(cs)].data.p = Len(payloads')
    BY Zenon, <1>4, <2>3, <2>4 DEF Ordered
  <2> QED
    BY Zenon, <1>8, <2>1, <2>2, <2>5 DEF OrderInv, Ordered
<1>13. ReaderInv'
  <2>1. SUFFICES ASSUME stage # "endless", NEW m \in Nat, ReaderAt(m)
                 PROVE  ReaderAt(m)'
    BY Zenon, <1>2 DEF IInv, ReaderInv
  <2>2. Gathered(m)'
    BY Zenon, <1>2, <2>1 DEF ReaderAt, Gathered
  <2>3. Count' > 0 /\ ~ (Count' = 0)
    BY <1>3, <1>4, <1>8
  <2>4. Transit'[1].data.p = Len(delivered) + 1 /\ Transit'[1].data.from = m * FragDataMax
    <3>1. CASE L = 0
      <4>1. m = 0 /\ Len(delivered) = Len(payloads)
        BY Zenon, <1>8, <2>1, <3>1 DEF ReaderAt
      <4>2. L + 1 = 1 /\ 1 \in 1..Len(cs) /\ m * FragDataMax = 0
        BY <1>4, <3>1, <4>1 DEF FragDataMax, CellBodyMax, FragHdrSize
      <4>3. Transit'[1] = cs[1]
        BY Zenon, <1>10, <4>2
      <4> QED
        BY Zenon, <1>4, <4>1, <4>2, <4>3
    <3>2. CASE L # 0
      <4>1. 1 \in 1..L /\ Count > 0
        BY <1>3, <1>8, <3>2
      <4>2. Transit'[1] = frames[1].cell /\ Transit[1] = frames[1].cell
        BY <1>9, <4>1
      <4> QED
        BY Zenon, <2>1, <4>1, <4>2 DEF ReaderAt
    <3> QED
      BY Zenon, <3>1, <3>2
  <2> QED
    BY Zenon, <1>2, <2>2, <2>3, <2>4 DEF ReaderAt
<1>14. DeliveredInv'
  <2>1. SUFFICES ASSUME NEW q \in 1..Len(delivered)
                 PROVE  /\ q <= Len(payloads')
                        /\ payloads'[q] <= MaxFragmented => delivered[q] = Kept(q)'
    BY Zenon, <1>2 DEF DeliveredInv
  <2>2. q <= Len(payloads) /\ (payloads[q] <= MaxFragmented => delivered[q] = Kept(q))
    BY Zenon, <2>1 DEF IInv, DeliveredInv
  <2>3. q \in 1..Len(payloads) /\ q <= Len(payloads')
    <3>1. Len(delivered) \in Nat
      BY <1>3 DEF TypeOK
    <3> QED
      BY <1>5, <2>2, <3>1
  <2>4. payloads'[q] = payloads[q]
    BY Zenon, <1>5, <2>3
  <2> QED
    BY Zenon, <2>2, <2>3, <2>4 DEF Kept
<1>15. ReaderInStep'
  <2>1. ReaderInStep
    BY Zenon DEF IInv
  <2>2. ASSUME NEW q \in DOMAIN payloads
        PROVE  q \in DOMAIN payloads' /\ payloads'[q] = payloads[q]
    <3>1. DOMAIN payloads = 1..Len(payloads) /\ DOMAIN payloads' = 1..p
      BY <1>3, <1>5
    <3> QED
      BY Zenon, <1>5, <2>2, <3>1
  <2> QED
    BY Zenon, <1>2, <2>1, <2>2 DEF ReaderInStep
<1> QED
  BY Zenon, <1>6, <1>7, <1>12, <1>13, <1>14, <1>15 DEF IInv

(* Two cells that differ in their length field only.                       *)
Alike(c, d) == c.cmd = d.cmd /\ c.idx = d.idx /\ c.data = d.data

(* The length that MarshalCell cuts plays no part in the order of cells.   *)
LEMMA OrderedAlike ==
    ASSUME NEW n \in Nat, NEW cs, NEW ds, NEW sizes, Ordered(cs, n, sizes),
           \A i \in 1..n : Alike(ds[i], cs[i])
    PROVE  Ordered(ds, n, sizes)
<1>1. ASSUME NEW i \in 1..n PROVE Sound(ds[i], sizes)
  <2>1. Sound(cs[i], sizes) /\ Alike(ds[i], cs[i])
    BY Zenon DEF Ordered
  <2>2. ASSUME NEW k, NEW size, IsFragment(cs[i], k, size) PROVE IsFragment(ds[i], k, size)
    BY Zenon, <2>1, <2>2 DEF IsFragment, Alike
  <2>3. ds[i].cmd = cs[i].cmd /\ ds[i].data = cs[i].data
    BY Zenon, <2>1 DEF Alike
  <2> QED
    BY Zenon, <2>1, <2>2, <2>3 DEF Sound
<1>2. ASSUME NEW i \in 1..(n - 1) PROVE Follows(ds[i], ds[i + 1])
  <2>1. i \in 1..n /\ i + 1 \in 1..n
    OBVIOUS
  <2>2. /\ ds[i].cmd = cs[i].cmd /\ ds[i].data = cs[i].data
        /\ ds[i + 1].data = cs[i + 1].data
    BY Zenon, <2>1 DEF Alike
  <2>3. Follows(cs[i], cs[i + 1])
    BY Zenon DEF Ordered
  <2> QED
    BY Zenon, <2>2, <2>3 DEF Follows, Final
<1>3. n > 0 => Final(ds[n]) /\ ds[n].data.p = Len(sizes)
  <2>1. SUFFICES ASSUME n > 0 PROVE Final(ds[n]) /\ ds[n].data.p = Len(sizes)
    OBVIOUS
  <2>2. n \in 1..n
    BY <2>1
  <2>3. ds[n].cmd = cs[n].cmd /\ ds[n].data = cs[n].data
    BY Zenon, <2>2 DEF Alike
  <2> QED
    BY Zenon, <2>1, <2>3 DEF Ordered, Final
<1> QED
  BY Zenon, <1>1, <1>2, <1>3 DEF Ordered

(* WriteCell: one more frame, and its bytes in the transport.              *)
LEMMA WriteOK ==
    ASSUME IInv, Write
    PROVE  IInv'
<1> DEFINE L == Len(frames)
           c == Head(out)
<1>1. PICK f \in MarshalCell(c) :
          frames' = Append(frames, f) /\ segments' \in Segmented(FrameLenSize + f.frameLen)
  BY Zenon DEF Write
<1>2. out # <<>> /\ out' = Tail(out)
  BY Zenon DEF Write
<1>3. UNCHANGED <<payloads, preamble, rbuf, stage, need, reasm, delivered, late>>
  BY Zenon DEF Write
<1> DEFINE x == FrameLenSize + f.frameLen
<1>4. /\ TypeOK /\ out \in Seq(Cells) /\ frames \in Seq(Frames) /\ segments \in Seq(Nat \ {0})
      /\ rbuf \in Nat
  BY Zenon DEF IInv, TypeOK
<1>5. /\ L \in Nat /\ Len(out) \in Nat \ {0} /\ c \in Cells /\ c = out[1]
      /\ out' \in Seq(Cells) /\ Len(out') = Len(out) - 1
      /\ \A i \in 1..(Len(out) - 1) : out'[i] = out[i + 1]
  BY <1>2, <1>4
<1>6. /\ f \in Frames /\ ValidLength(f.frameLen) /\ Unmarshals(f)
      /\ f.cell.cmd = c.cmd /\ f.cell.idx = c.idx /\ f.cell.data = c.data
  BY Zenon, <1>5, Marshals
<1> HIDE DEF c
<1>7. f.frameLen \in Nat /\ x \in Nat \ {0}
  BY <1>6 DEF Frames, FrameLenSize
<1>8. /\ frames' \in Seq(Frames) /\ Len(frames') = L + 1 /\ frames'[L + 1] = f
      /\ \A i \in 1..L : frames'[i] = frames[i]
  BY <1>1, <1>4, <1>6
<1>9. PICK w, u, t \in Nat :
          /\ Adds(Len(segments), segments, w) /\ Adds(L, FrameBytes, u)
          /\ t = rbuf + w /\ Balance(t, u)
  BY Zenon DEF IInv, ByteInv
<1>10. segments' \in Seq(Nat \ {0}) /\ Adds(Len(segments'), segments', w + x)
  BY Zenon, <1>1, <1>4, <1>7, <1>9, Segments
<1>11. TypeOK'
  BY Zenon, <1>3, <1>4, <1>5, <1>8, <1>10 DEF TypeOK
<1>12. ByteInv'
  <2>1. FrameBytes'[L + 1] = x
    BY <1>5, <1>8 DEF FrameBytes
  <2>2. \A i \in 1..L : FrameBytes'[i] = FrameBytes[i]
    BY <1>5, <1>8 DEF FrameBytes
  <2>3. Adds(L + 1, FrameBytes', u + x)
    BY <1>5, <1>7, <1>9, <2>1, <2>2, AddsMore
  <2>4. L > 0 => frames'[1] = frames[1] /\ Len(frames') > 0
    BY <1>5, <1>8
  <2>5. ASSUME L > 0 PROVE frames[1].frameLen \in Nat
    <3>1. frames[1] \in Frames
      BY <1>4, <2>5
    <3> QED
      BY <3>1 DEF Frames
  <2>6. preamble \in Nat /\ need \in Nat /\ preamble % 256 \in Nat
    BY <1>4 DEF TypeOK, obfsMinPreamble, obfsMaxPreamble
  <2>7. Balance(t + x, u + x)'
    <3> HIDE DEF x
    <3>1. ASSUME stage = "obfs" PROVE need = 1 /\ t + x = 1 + preamble + (u + x)
      <4>1. need = 1 /\ t = 1 + preamble + u
        BY Zenon, <1>9, <3>1 DEF Balance
      <4> QED
        BY <1>7, <2>6, <4>1
    <3>2. ASSUME stage = "skip"
          PROVE  /\ need \in 1..(preamble % 256)
                 /\ t + x = need + (preamble - (preamble % 256)) + (u + x)
      <4>1. need \in 1..(preamble % 256) /\ t = need + (preamble - (preamble % 256)) + u
        BY Zenon, <1>9, <3>2 DEF Balance
      <4> QED
        BY <1>7, <2>6, <4>1
    <3>3. ASSUME stage = "len"
          PROVE  need \in 1..FrameLenSize /\ t + x = (u + x) - (FrameLenSize - need)
      <4>1. need \in 1..FrameLenSize /\ t = u - (FrameLenSize - need)
        BY Zenon, <1>9, <3>3 DEF Balance
      <4> QED
        BY <1>7, <2>6, <4>1 DEF FrameLenSize
    <3>4. ASSUME stage = "body"
          PROVE  /\ L > 0 /\ need \in 1..frames[1].frameLen
                 /\ t + x = (u + x) - (FrameLenSize + (frames[1].frameLen - need))
      <4>1. /\ L > 0 /\ need \in 1..frames[1].frameLen
            /\ t = u - (FrameLenSize + (frames[1].frameLen - need))
        BY Zenon, <1>9, <3>4 DEF Balance
      <4>2. frames[1].frameLen \in Nat
        BY Zenon, <2>5, <4>1
      <4> QED
        <5> DEFINE len == frames[1].frameLen
        <5> HIDE DEF len
        <5>1. /\ len \in Nat /\ need \in 1..len /\ t = u - (FrameLenSize + (len - need))
          BY Zenon, <4>1, <4>2 DEF len
        <5>2. t + x = (u + x) - (FrameLenSize + (len - need))
          BY <1>7, <2>6, <5>1 DEF FrameLenSize
        <5> QED
          BY Zenon, <4>1, <5>2 DEF len
    <3>5. stage \in {"lost", "refused", "endless"} => need = 0
      BY Zenon, <1>9 DEF Balance
    <3> QED
      BY Zenon, <1>3, <2>4, <3>1, <3>2, <3>3, <3>4, <3>5 DEF Balance
  <2>8. w + x \in Nat /\ u + x \in Nat /\ t + x \in Nat /\ t + x = rbuf + (w + x)
    BY SMTT(30), <1>4, <1>7, <1>9
  <2>9. Adds(Len(frames'), FrameBytes', u + x) /\ t + x = rbuf' + (w + x)
    BY Zenon, <1>3, <1>8, <2>3, <2>8
  <2> QED
    BY Zenon, <1>10, <2>7, <2>8, <2>9 DEF ByteInv
<1>13. FrameInv'
  <2>1. SUFFICES ASSUME NEW i \in 1..Len(frames')
                 PROVE  ValidLength(frames'[i].frameLen) /\ Unmarshals(frames'[i])
    BY Zenon DEF FrameInv, ValidLength, Unmarshals
  <2>2. CASE i = L + 1
    BY Zenon, <1>6, <1>8, <2>2
  <2>3. CASE i # L + 1
    <3>1. i \in 1..L
      BY <1>5, <1>8, <2>3
    <3> QED
      BY Zenon, <1>8, <3>1 DEF IInv, FrameInv
  <2> QED
    BY Zenon, <2>2, <2>3
<1>14. Count \in Nat /\ Count' = Count
  BY <1>5, <1>8 DEF Count
<1>15. ASSUME NEW i \in 1..Count PROVE Alike(Transit'[i], Transit[i])
  <2>1. /\ Transit[i] = IF i <= L THEN frames[i].cell ELSE out[i - L]
        /\ Transit'[i] = IF i <= L + 1 THEN frames'[i].cell ELSE out'[i - (L + 1)]
    BY Zenon, <1>8, <1>14 DEF Transit
  <2>2. CASE i \in 1..L
    BY <1>5, <1>8, <2>1, <2>2 DEF Alike
  <2>3. CASE i = L + 1
    <3>1. ~ (i <= L) /\ i <= L + 1 /\ i - L = 1
      BY <1>5, <2>3
    <3> QED
      BY Zenon, <1>5, <1>6, <1>8, <2>1, <2>3, <3>1 DEF Alike
  <2>4. CASE i > L + 1
    <3>1. /\ ~ (i <= L) /\ ~ (i <= L + 1) /\ i - (L + 1) \in 1..(Len(out) - 1)
          /\ (i - (L + 1)) + 1 = i - L
      BY <1>5, <2>4 DEF Count
    <3>2. out'[i - (L + 1)] = out[i - L]
      BY Zenon, <1>5, <3>1
    <3> QED
      BY Zenon, <2>1, <3>1, <3>2 DEF Alike
  <2> QED
    BY <1>5, <2>2, <2>3, <2>4
<1>16. OrderInv'
  BY Zenon, <1>3, <1>14, <1>15, OrderedAlike DEF IInv, OrderInv
<1>17. ReaderInv'
  <2>1. SUFFICES ASSUME stage # "endless", NEW m \in Nat, ReaderAt(m)
                 PROVE  ReaderAt(m)'
    BY Zenon, <1>3 DEF IInv, ReaderInv
  <2>2. Gathered(m)'
    BY Zenon, <1>3, <2>1 DEF ReaderAt, Gathered
  <2>3. Count > 0 => Transit'[1].data = Transit[1].data
    <3>1. Count > 0 => 1 \in 1..Count
      BY <1>14
    <3> QED
      BY Zenon, <1>15, <3>1 DEF Alike
  <2> QED
    BY Zenon, <1>3, <1>14, <2>1, <2>2, <2>3 DEF ReaderAt
<1>18. DeliveredInv' /\ ReaderInStep'
  BY Zenon, <1>3 DEF IInv, DeliveredInv, Kept, ReaderInStep
<1> QED
  BY Zenon, <1>11, <1>12, <1>13, <1>16, <1>17, <1>18 DEF IInv

(* A Read takes between 1 and need bytes from the transport.               *)
LEMMA ReadTakes ==
    ASSUME TypeOK, Read, NEW w \in Nat, Adds(Len(segments), segments, w)
    PROVE  \E n \in 1..need, v \in Nat :
              /\ Adds(Len(segments'), segments', v) /\ segments' \in Seq(Nat \ {0})
              /\ rbuf' \in Nat /\ rbuf' + v = (rbuf + w) - n
              /\ IF n < need THEN Goto(stage, need - n) ELSE Waited
<1> DEFINE avail == IF rbuf = 0 THEN Head(segments) ELSE rbuf
           n == Min({need, avail})
<1>1. /\ need > 0 /\ (rbuf > 0 \/ segments # <<>>) /\ rbuf' = avail - n
      /\ segments' = IF rbuf = 0 THEN Tail(segments) ELSE segments
      /\ IF n < need THEN Goto(stage, need - n) ELSE Waited
  BY Zenon DEF Read
<1>2. need \in Nat \ {0} /\ rbuf \in Nat /\ segments \in Seq(Nat \ {0})
  BY <1>1 DEF TypeOK, MaxFrameLen
<1>3. avail \in Nat \ {0}
  BY <1>1, <1>2
<1>4. n = IF need <= avail THEN need ELSE avail
  BY <1>2, <1>3, MinOf
<1> HIDE DEF n
<1>5. n \in 1..need /\ n <= avail /\ rbuf' = avail - n /\ n \in Nat
  <2>1. rbuf' = avail - n
    BY Zenon, <1>1
  <2> HIDE DEF avail
  <2> QED
    BY <1>2, <1>3, <1>4, <2>1
<1>6. ASSUME NEW v \in Nat, Adds(Len(segments'), segments', v), segments' \in Seq(Nat \ {0}),
             rbuf' + v = (rbuf + w) - n
      PROVE  \E k \in 1..need, y \in Nat :
                /\ Adds(Len(segments'), segments', y) /\ segments' \in Seq(Nat \ {0})
                /\ rbuf' \in Nat /\ rbuf' + y = (rbuf + w) - k
                /\ IF k < need THEN Goto(stage, need - k) ELSE Waited
  <2>1. rbuf' \in Nat
    BY <1>3, <1>5
  <2> QED
    BY Zenon, <1>1, <1>5, <1>6, <2>1
<1>7. CASE rbuf = 0
  <2>1. /\ segments # <<>> /\ segments' = Tail(segments) /\ avail = Head(segments)
    BY <1>1, <1>7
  <2>2. /\ Len(segments) \in Nat \ {0} /\ segments' \in Seq(Nat \ {0})
        /\ Len(segments') = Len(segments) - 1 /\ Head(segments) = segments[1]
        /\ \A i \in 1..Len(segments) : segments[i] \in Nat
        /\ \A i \in 1..(Len(segments) - 1) : segments'[i] = segments[i + 1]
    BY <1>2, <2>1
  <2>3. segments[1] <= w /\ Adds(Len(segments) - 1, segments', w - segments[1])
    BY Zenon, <2>2, AddsRest
  <2>4. avail = segments[1]
    BY Zenon, <2>1, <2>2
  <2>5. w - segments[1] \in Nat /\ rbuf' + (w - segments[1]) = (rbuf + w) - n
    <3> HIDE DEF avail
    <3>1. avail <= w
      BY Zenon, <2>3, <2>4
    <3>2. w - avail \in Nat /\ rbuf' + (w - avail) = (rbuf + w) - n
      BY <1>3, <1>5, <1>7, <3>1
    <3> QED
      BY Zenon, <2>4, <3>2
  <2> QED
    BY Zenon, <1>6, <2>2, <2>3, <2>5
<1>8. CASE rbuf # 0
  <2>1. segments' = segments /\ avail = rbuf
    BY Zenon, <1>1, <1>8
  <2>2. rbuf' + w = (rbuf + w) - n
    <3> HIDE DEF avail
    <3> QED
      BY <1>2, <1>5, <2>1
  <2> QED
    BY Zenon, <1>2, <1>6, <2>1, <2>2
<1> QED
  BY Zenon, <1>7, <1>8

(* The preamble: all of it is skipped, or its length does not fit the      *)
(* length byte.                                                            *)
LEMMA PreambleRead ==
    ASSUME TypeOK, NEW t \in Nat, NEW u \in Nat, Balance(t, u),
           NEW y \in Nat, y = t - need, stage \in {"obfs", "skip"},
           readObfsPreamble, UNCHANGED preamble
    PROVE  /\ Balance(y, u)' /\ need' \in 0..MaxFrameLen
           /\ UNCHANGED <<frames, reasm, delivered>>
           /\ stage' \in {"skip", "len"} \/ (stage' = "lost" /\ preamble > 255)
<1> DEFINE skip == preamble % 256
<1>1. preamble \in obfsMinPreamble..obfsMaxPreamble /\ need \in 0..MaxFrameLen
  BY Zenon DEF TypeOK
<1>2. /\ preamble \in Nat /\ preamble >= 32 /\ need \in Nat /\ skip \in Nat
      /\ skip # preamble => preamble > 255
  BY SMTT(30), <1>1 DEF obfsMinPreamble, obfsMaxPreamble, MaxFrameLen
<1>3. /\ FrameLenSize = 2 /\ FrameLenSize \in 0..MaxFrameLen /\ 0 \in 0..MaxFrameLen
      /\ skip \in 0..MaxFrameLen
  BY <1>1 DEF obfsMinPreamble, obfsMaxPreamble, MaxFrameLen, FrameLenSize
<1> HIDE DEF skip
<1>4. UNCHANGED <<frames, reasm, delivered>>
  BY Zenon DEF readObfsPreamble, Goto
<1>5. CASE stage = "obfs" /\ skip > 0
  <2>1. stage' = "skip" /\ need' = skip
    BY <1>5 DEF readObfsPreamble, Goto, skip
  <2>2. need = 1 /\ t = 1 + preamble + u
    BY Zenon, <1>5 DEF Balance
  <2>3. y = skip + (preamble - skip) + u /\ skip \in 1..skip
    BY <1>2, <1>5, <2>2
  <2>4. Balance(y, u)'
    BY <2>1, <2>3 DEF Balance, skip
  <2> QED
    BY Zenon, <1>4, <1>3, <2>1, <2>4
<1>6. CASE stage = "skip" /\ skip = preamble
  <2>1. stage' = "len" /\ need' = FrameLenSize
    BY <1>6 DEF readObfsPreamble, Goto, skip
  <2>2. t = need + (preamble - skip) + u
    BY Zenon, <1>6 DEF Balance, skip
  <2>3. y = u - (FrameLenSize - FrameLenSize) /\ FrameLenSize \in 1..FrameLenSize
    BY <1>2, <1>6, <1>3, <2>2
  <2>4. Balance(y, u)'
    BY <2>1, <2>3 DEF Balance
  <2> QED
    BY Zenon, <1>4, <1>3, <2>1, <2>4
<1>7. CASE ~ (stage = "obfs" /\ skip > 0) /\ ~ (stage = "skip" /\ skip = preamble)
  <2>1. stage' = "lost" /\ need' = 0
    BY <1>7 DEF readObfsPreamble, Goto, skip
  <2>2. skip # preamble
    BY <1>2, <1>7
  <2>3. Balance(y, u)'
    BY <2>1 DEF Balance
  <2> QED
    BY Zenon, <1>2, <1>4, <1>3, <2>1, <2>2, <2>3
<1> QED
  BY Zenon, <1>5, <1>6, <1>7

(* The first of the cells on their way is gone.                            *)
LEMMA OrderedRest ==
    ASSUME NEW n \in Nat \ {0}, NEW cs, NEW ds, NEW sizes, Ordered(cs, n, sizes),
           \A i \in 1..(n - 1) : ds[i] = cs[i + 1]
    PROVE  Ordered(ds, n - 1, sizes)
<1>1. ASSUME NEW i \in 1..(n - 1) PROVE Sound(ds[i], sizes)
  <2>1. i + 1 \in 1..n
    OBVIOUS
  <2> QED
    BY Zenon, <2>1 DEF Ordered
<1>2. ASSUME NEW i \in 1..((n - 1) - 1) PROVE Follows(ds[i], ds[i + 1])
  <2>1. i \in 1..(n - 1) /\ i + 1 \in 1..(n - 1)
    OBVIOUS
  <2>2. Follows(cs[i + 1], cs[(i + 1) + 1])
    BY Zenon, <2>1 DEF Ordered
  <2> QED
    BY Zenon, <2>1, <2>2
<1>3. n - 1 > 0 => Final(ds[n - 1]) /\ ds[n - 1].data.p = Len(sizes)
  <2>1. n - 1 > 0 => n - 1 \in 1..(n - 1) /\ (n - 1) + 1 = n
    OBVIOUS
  <2>2. n > 0
    OBVIOUS
  <2> QED
    BY Zenon, <2>1, <2>2 DEF Ordered
<1> QED
  BY Zenon, <1>1, <1>2, <1>3 DEF Ordered

(* ReadCell takes the first frame.                                         *)
LEMMA TransitRest ==
    ASSUME frames \in Seq(Frames), out \in Seq(Cells), Len(frames) > 0,
           frames' = Tail(frames), UNCHANGED out
    PROVE  /\ Count \in Nat \ {0} /\ Count' = Count - 1
           /\ Transit[1] = frames[1].cell
           /\ \A i \in 1..(Count - 1) : Transit'[i] = Transit[i + 1]
<1> DEFINE L == Len(frames)
<1>1. /\ L \in Nat \ {0} /\ Len(out) \in Nat /\ Len(frames') = L - 1
      /\ \A i \in 1..(L - 1) : frames'[i] = frames[i + 1]
  OBVIOUS
<1>2. Count \in Nat \ {0} /\ Count' = Count - 1
  BY <1>1 DEF Count
<1>3. 1 \in 1..Count /\ 1 <= L
  BY <1>1, <1>2
<1>4. Transit[1] = frames[1].cell
  BY Zenon, <1>3 DEF Transit
<1>5. ASSUME NEW i \in 1..(Count - 1) PROVE Transit'[i] = Transit[i + 1]
  <2>1. i \in 1..Count' /\ i + 1 \in 1..Count
    BY <1>2
  <2>2. Transit'[i] = IF i <= L - 1 THEN frames'[i].cell ELSE out[i - (L - 1)]
    BY Zenon, <1>1, <2>1 DEF Transit
  <2>3. Transit[i + 1] = IF i + 1 <= L THEN frames[i + 1].cell ELSE out[(i + 1) - L]
    BY Zenon, <2>1 DEF Transit
  <2>4. (i <= L - 1) <=> (i + 1 <= L)
    BY <1>1, <1>2
  <2>5. i - (L - 1) = (i + 1) - L
    BY <1>1, <1>2
  <2>6. i <= L - 1 => frames'[i] = frames[i + 1]
    <3>1. i <= L - 1 => i \in 1..(L - 1)
      BY <1>1, <1>2
    <3> QED
      BY Zenon, <1>1, <3>1
  <2> QED
    BY Zenon, <2>2, <2>3, <2>4, <2>5, <2>6
<1> QED
  BY Zenon, <1>2, <1>4, <1>5

(* What handleCell makes of a cell: a piece of the payload in the          *)
(* Reassembler, or the payload, or a loop without end when the payload's   *)
(* last fragment has the last index.                                       *)
LEMMA Handled ==
    ASSUME TypeOK, OrderInv, DeliveredInv, NEW m \in Nat, ReaderAt(m),
           Len(frames) > 0, frames' = Tail(frames), Handle(frames[1].cell),
           UNCHANGED <<payloads, out>>
    PROVE  /\ OrderInv' /\ DeliveredInv' /\ delivered' \in Seq(Piece)
           /\ \/ stage' = "len" /\ need' = FrameLenSize /\ \E k \in Nat : ReaderAt(k)'
              \/ /\ stage' = "endless" /\ need' = 0
                 /\ \E p \in DOMAIN payloads : payloads[p] > MaxFragmented
<1> DEFINE c == frames[1].cell
           d == c.data
           p == Len(delivered) + 1
           size == payloads[p]
           r == Add(reasm, c)
<1>1. /\ frames \in Seq(Frames) /\ out \in Seq(Cells) /\ delivered \in Seq(Piece)
      /\ payloads \in Seq(PayloadSizes)
  BY Zenon DEF TypeOK
<1>2. /\ Count \in Nat \ {0} /\ Count' = Count - 1 /\ Transit[1] = c
      /\ \A i \in 1..(Count - 1) : Transit'[i] = Transit[i + 1]
  BY Zenon, <1>1, TransitRest
<1>3. c \in Cells /\ d \in Piece
  <2>1. frames[1] \in Frames
    BY <1>1
  <2> QED
    BY <2>1 DEF Frames, Cells
<1>4. Ordered(Transit, Count, payloads)
  BY Zenon DEF OrderInv
<1>5. OrderInv'
  BY Zenon, <1>2, <1>4, OrderedRest DEF OrderInv
<1>6. d.p = p /\ d.from = m * FragDataMax
  <2>1. Count > 0
    BY <1>2
  <2> QED
    BY Zenon, <1>2, <2>1 DEF ReaderAt
<1>7. Sound(c, payloads)
  <2>1. 1 \in 1..Count
    BY <1>2
  <2> QED
    BY Zenon, <1>2, <1>4, <2>1 DEF Ordered
<1>8. /\ p \in 1..Len(payloads) /\ p \in DOMAIN payloads /\ size \in Nat \ {0}
      /\ Len(delivered) \in Nat
  <2>1. p \in 1..Len(payloads)
    BY Zenon, <1>6, <1>7 DEF Sound
  <2>2. p \in DOMAIN payloads /\ size \in PayloadSizes
    <3> HIDE DEF p
    <3> QED
      BY <1>1, <2>1
  <2>3. Len(delivered) \in Nat
    BY <1>1
  <2> QED
    BY Zenon, <2>1, <2>2, <2>3, WireAssumption
<1>9. Count - 1 > 0 => Transit'[1] = Transit[2] /\ Follows(c, Transit[2])
  <2>1. Count - 1 > 0 => 1 \in 1..(Count - 1)
    BY <1>2
  <2>2. 1 + 1 = 2
    OBVIOUS
  <2> QED
    BY Zenon, <1>2, <1>4, <2>1, <2>2 DEF Ordered
<1>10. Final(Transit[Count]) /\ Transit[Count].data.p = Len(payloads)
  <2>1. Count > 0
    BY <1>2
  <2> QED
    BY Zenon, <1>4, <2>1 DEF Ordered
<1>11. FragDataMax = 499 /\ CellBodyMax = 505
  BY DEF FragDataMax, CellBodyMax, FragHdrSize
<1> HIDE DEF c, d, p, size, r
\* The payload is complete, and handed on as z.
<1>12. ASSUME Final(c), NEW z \in Piece, size <= MaxFragmented => z = Kept(p),
              delivered' = Append(delivered, z), reasm' = NewReassembler, stage' = "len",
              need' = FrameLenSize
       PROVE  /\ OrderInv' /\ DeliveredInv' /\ delivered' \in Seq(Piece)
              /\ stage' = "len" /\ need' = FrameLenSize /\ \E k \in Nat : ReaderAt(k)'
  <2>1. /\ delivered' \in Seq(Piece) /\ Len(delivered') = p /\ delivered'[p] = z
        /\ \A i \in 1..Len(delivered) : delivered'[i] = delivered[i]
    BY <1>1, <1>12 DEF p
  <2>2. DeliveredInv'
    <3>1. SUFFICES ASSUME NEW q \in 1..p
                   PROVE  /\ q <= Len(payloads)
                          /\ payloads[q] <= MaxFragmented => delivered'[q] = Kept(q)
      BY Zenon, <2>1 DEF DeliveredInv, Kept
    <3>2. CASE q = p
      <4>1. p <= Len(payloads)
        BY <1>8
      <4> QED
        BY Zenon, <1>12, <2>1, <3>2, <4>1 DEF size
    <3>3. CASE q # p
      <4>1. q \in 1..Len(delivered)
        BY <1>8, <3>3 DEF p
      <4> QED
        BY Zenon, <2>1, <4>1 DEF DeliveredInv
    <3> QED
      BY Zenon, <3>2, <3>3
  <2>3. Gathered(0)'
    BY <1>12 DEF Gathered, NewReassembler
  <2>4. Count' = 0 => Len(delivered') = Len(payloads')
    <3>1. Count' = 0 => Count = 1
      BY <1>2
    <3> QED
      BY Zenon, <1>2, <1>6, <1>10, <2>1, <3>1 DEF d
  <2>5. Count' > 0 => Transit'[1].data.p = p + 1 /\ Transit'[1].data.from = 0
    BY Zenon, <1>2, <1>6, <1>9, <1>12 DEF Follows, d
  <2>6. 0 * FragDataMax = 0 /\ 0 \in Nat
    BY <1>11
  <2>7. ReaderAt(0)'
    BY Zenon, <2>1, <2>3, <2>4, <2>5, <2>6 DEF ReaderAt
  <2> QED
    BY Zenon, <1>5, <1>12, <2>1, <2>2, <2>6, <2>7
<1>13. CASE c.cmd = "Relay"
  <2>1. /\ delivered' = Append(delivered, d) /\ reasm' = reasm /\ stage' = "len"
        /\ need' = FrameLenSize
    BY Zenon, <1>13 DEF Handle, c, d
  <2>2. d.from = 0 /\ d.size = size /\ size <= CellBodyMax
    BY Zenon, <1>6, <1>7, <1>13 DEF Sound, IsFragment, d, size
  <2>3. m = 0
    BY <1>6, <1>11, <2>2
  <2>4. reasm = NewReassembler
    BY Zenon, <2>3 DEF ReaderAt, Gathered
  <2>5. Min({size, CellBodyMax}) = size
    BY <1>8, <1>11, <2>2, MinOf
  <2>6. d = [p |-> d.p, from |-> d.from, size |-> d.size]
    BY <1>3 DEF Piece
  <2>7. d = Kept(p)
    BY Zenon, <1>6, <2>2, <2>5, <2>6 DEF Kept, size
  <2>8. Final(c)
    BY <1>13 DEF Final
  <2> QED
    BY Zenon, <1>3, <1>12, <2>1, <2>4, <2>7, <2>8
<1>14. CASE c.cmd # "Relay"
  <2> DEFINE x == c.idx
             D == DOMAIN reasm.pieces
  <2>1. IsFragment(c, m, size)
    <3>1. PICK k \in Nat : IsFragment(c, k, size)
      BY Zenon, <1>6, <1>7, <1>14 DEF Sound, d, size
    <3>2. k * FragDataMax = m * FragDataMax
      BY Zenon, <1>6, <3>1 DEF IsFragment, d
    <3>3. k = m
      BY <1>11, <3>2
    <3> QED
      BY Zenon, <3>1, <3>3
  <2>2. /\ x = m % IdxMod /\ x \in 0..(IdxMod - 1) /\ x <= m /\ (m < IdxMod => x = m)
        /\ m * FragDataMax < size
    BY Zenon, <1>6, <2>1, Index DEF IsFragment, d
  <2>3. /\ DOMAIN r.pieces = D \cup {x} /\ r.pieces[x] = d
        /\ \A i \in D : i # x => r.pieces[i] = reasm.pieces[i]
        /\ c.cmd = "FragFinal" => r.gotFinal /\ r.finalIdx = x
        /\ c.cmd = "Fragment" /\ ~ reasm.gotFinal => ~ r.gotFinal
    BY DEF r, Add, d
  <2>4. /\ m = 0 => reasm = NewReassembler
        /\ ~ reasm.gotFinal /\ D = {i \in 0..(IdxMod - 1) : i < m}
        /\ \A i \in D : /\ reasm.pieces[i] \in Piece /\ reasm.pieces[i].from <= m * FragDataMax
                        /\ m <= IdxMod => reasm.pieces[i] = [p |-> p, from |-> i * FragDataMax,
                                                             size |-> FragDataMax]
    BY Zenon DEF ReaderAt, Gathered, p
  <2>5. IdxMod \in Nat \ {0}
    BY Zenon, WireAssumption
  <2> HIDE DEF x, D
  <2>6. D \cup {x} = {i \in 0..(IdxMod - 1) : i < m + 1}
    BY <2>2, <2>4, <2>5
  <2>7. IF Endless(r)
        THEN stage' = "endless" /\ need' = 0 /\ UNCHANGED <<reasm, delivered>>
        ELSE /\ reasm' = IF Complete(r) THEN NewReassembler ELSE r
             /\ delivered' = IF Complete(r) THEN Append(delivered, Reassembled(r)) ELSE delivered
             /\ stage' = "len" /\ need' = FrameLenSize
    BY Zenon, <1>14 DEF Handle, c, r
  <2>8. CASE c.cmd = "Fragment"
    <3>1. ~ Complete(r) /\ ~ Endless(r)
      BY Zenon, <2>3, <2>4, <2>8 DEF Complete, Endless
    <3>2. reasm' = r /\ delivered' = delivered /\ stage' = "len" /\ need' = FrameLenSize
      BY Zenon, <2>7, <3>1
    <3>3. d.size = FragDataMax
      BY Zenon, <2>1, <2>8 DEF IsFragment, d
    <3>4. d = [p |-> p, from |-> m * FragDataMax, size |-> FragDataMax]
      <4>1. d = [p |-> d.p, from |-> d.from, size |-> d.size]
        BY <1>3 DEF Piece
      <4> QED
        BY Zenon, <1>6, <3>3, <4>1
    <3>5. ASSUME NEW i \in DOMAIN r.pieces
          PROVE  /\ r.pieces[i] \in Piece /\ r.pieces[i].from <= (m + 1) * FragDataMax
                 /\ m + 1 <= IdxMod => r.pieces[i] = [p |-> p, from |-> i * FragDataMax,
                                                      size |-> FragDataMax]
      <4>1. /\ m * FragDataMax <= (m + 1) * FragDataMax
            /\ m + 1 <= IdxMod => m <= IdxMod /\ m < IdxMod
        BY <1>11, <2>5
      <4>2. CASE i = x
        <5>1. r.pieces[i] = d /\ d.from <= (m + 1) * FragDataMax
          BY Zenon, <1>6, <2>3, <4>1, <4>2
        <5>2. m + 1 <= IdxMod => i = m
          BY Zenon, <2>2, <4>1, <4>2
        <5> QED
          BY Zenon, <1>3, <3>4, <5>1, <5>2
      <4>3. CASE i # x
        <5>1. i \in D /\ r.pieces[i] = reasm.pieces[i]
          BY Zenon, <2>3, <4>3
        <5>2. /\ r.pieces[i] \in Piece /\ r.pieces[i].from <= m * FragDataMax
              /\ m <= IdxMod => r.pieces[i] = [p |-> p, from |-> i * FragDataMax,
                                               size |-> FragDataMax]
          BY Zenon, <2>4, <5>1
        <5>3. r.pieces[i].from \in Nat
          BY <5>2 DEF Piece
        <5>4. r.pieces[i].from <= (m + 1) * FragDataMax
          BY <1>11, <5>2, <5>3
        <5> QED
          BY Zenon, <4>1, <5>2, <5>4
      <4> QED
        BY Zenon, <4>2, <4>3
    <3>6. Gathered(m + 1)'
      <4>1. m + 1 # 0
        OBVIOUS
      <4>2. ~ r.gotFinal
        BY Zenon, <2>3, <2>4, <2>8
      <4>3. DOMAIN r.pieces = {i \in 0..(IdxMod - 1) : i < m + 1}
        BY Zenon, <2>3, <2>6
      <4> QED
        BY Zenon, <3>2, <3>5, <4>1, <4>2, <4>3 DEF Gathered, p
    <3>7. Count - 1 > 0
      <4>1. ~ Final(c)
        BY <2>8 DEF Final
      <4>2. Count # 1
        BY Zenon, <1>2, <1>10, <4>1
      <4> QED
        BY <1>2, <4>2
    <3>8. Transit'[1].data.p = p /\ Transit'[1].data.from = m * FragDataMax + FragDataMax
      BY Zenon, <1>6, <1>9, <2>8, <3>3, <3>7 DEF Follows, Final, d
    <3>9. m * FragDataMax + FragDataMax = (m + 1) * FragDataMax /\ m + 1 \in Nat
      BY <1>11
    <3>10. ~ (Count' = 0)
      BY <1>2, <3>7
    <3>11. ReaderAt(m + 1)'
      BY Zenon, <3>2, <3>6, <3>8, <3>9, <3>10 DEF ReaderAt, p
    <3>12. DeliveredInv'
      BY Zenon, <3>2 DEF DeliveredInv, Kept
    <3> QED
      BY Zenon, <1>1, <1>5, <3>2, <3>9, <3>11, <3>12
  <2>9. CASE c.cmd = "FragFinal"
    <3>1. Final(c) /\ r.gotFinal /\ r.finalIdx = x
      <4>1. Final(c)
        BY <2>9 DEF Final
      <4> QED
        BY Zenon, <2>3, <2>9, <4>1
    <3>2. Complete(r)
      <4>1. ASSUME NEW i \in 0..x PROVE i \in D \cup {x}
        BY <2>2, <2>4, <2>5
      <4> QED
        BY Zenon, <2>3, <3>1, <4>1 DEF Complete
    <3>3. d.size = size - m * FragDataMax
      BY Zenon, <1>6, <2>1, <2>9 DEF IsFragment, d
    <3>4. CASE Endless(r)
      <4>1. stage' = "endless" /\ need' = 0 /\ UNCHANGED <<reasm, delivered>>
        BY Zenon, <2>7, <3>4
      <4>2. x = IdxMod - 1
        BY Zenon, <3>1, <3>4 DEF Endless
      <4>3. size > MaxFragmented
        BY <1>8, <1>11, <2>2, <2>5, <4>2 DEF MaxFragmented
      <4>4. DeliveredInv'
        BY Zenon, <4>1 DEF DeliveredInv, Kept
      <4> QED
        BY Zenon, <1>1, <1>5, <1>8, <4>1, <4>3, <4>4 DEF size
    <3>5. CASE ~ Endless(r)
      <4>1. /\ reasm' = NewReassembler /\ stage' = "len" /\ need' = FrameLenSize
            /\ delivered' = Append(delivered, Reassembled(r))
        BY Zenon, <2>7, <3>2, <3>5
      <4> DEFINE a == r.pieces[0]
                 touch == \A i \in 1..x :
                             /\ r.pieces[i].p = r.pieces[i - 1].p
                             /\ r.pieces[i].from = r.pieces[i - 1].from + r.pieces[i - 1].size
                 n == Min({d.from + d.size - a.from, CellBodyMax})
      <4>2. Reassembled(r) = IF touch THEN [p |-> a.p, from |-> a.from, size |-> n] ELSE Torn
        BY Zenon, <2>3, <3>1 DEF Reassembled, Joined
      <4>3. a \in Piece /\ a.from <= m * FragDataMax
        <5>1. CASE x = 0
          <6>1. a = d
            BY Zenon, <2>3, <5>1
          <6>2. d.from \in Nat /\ d.from <= d.from
            BY <1>3 DEF Piece
          <6> QED
            BY Zenon, <1>3, <1>6, <6>1, <6>2
        <5>2. CASE x # 0
          <6>1. 0 \in D
            BY <2>2, <2>4, <2>5, <5>2
          <6>2. a = reasm.pieces[0]
            BY Zenon, <2>3, <5>2, <6>1
          <6> QED
            BY Zenon, <2>4, <6>1, <6>2
        <5> QED
          BY Zenon, <5>1, <5>2
      <4>4. d.from \in Nat /\ d.size \in Nat /\ a.from \in Nat /\ a.p \in 0..MaxPayloads
        BY <1>3, <4>3 DEF Piece
      <4> HIDE DEF a
      <4>5. d.from + d.size - a.from = size - a.from /\ size - a.from \in Nat
        <5> DEFINE k == m * FragDataMax
        <5>1. k \in Nat
          BY <1>11
        <5> HIDE DEF k
        <5>2. /\ size \in Nat /\ k < size /\ d.from = k /\ d.size = size - k
              /\ a.from \in Nat /\ a.from <= k
          BY Zenon, <1>6, <1>8, <2>2, <3>3, <4>3, <4>4 DEF k
        <5>3. k + (size - k) - a.from = size - a.from /\ size - a.from \in Nat
          BY ONLY <5>1, <5>2
        <5> QED
          BY Zenon, <5>2, <5>3
      <4>6. n \in Nat
        BY <1>11, <4>5, MinOf
      <4> HIDE DEF n
      <4>7. Reassembled(r) \in Piece
        <5>1. [p |-> a.p, from |-> a.from, size |-> n] \in Piece
          BY <4>4, <4>6 DEF Piece
        <5>2. Torn \in Piece
          BY WireAssumption DEF Torn, Piece
        <5> QED
          BY Zenon, <4>2, <5>1, <5>2
      <4>8. ASSUME size <= MaxFragmented PROVE Reassembled(r) = Kept(p)
        <5>1. m < IdxMod /\ m <= IdxMod
          BY <1>8, <1>11, <2>2, <2>5, <4>8 DEF MaxFragmented
        <5>2. x = m
          BY Zenon, <2>2, <5>1
        <5>3. ASSUME NEW i \in 0..(m - 1)
              PROVE  r.pieces[i] = [p |-> p, from |-> i * FragDataMax, size |-> FragDataMax]
          <6>1. i \in D /\ i # x
            BY <2>4, <2>5, <5>1, <5>2
          <6>2. r.pieces[i] = reasm.pieces[i]
            BY Zenon, <2>3, <6>1
          <6> QED
            BY Zenon, <2>4, <5>1, <6>1, <6>2
        <5>4. r.pieces[m] = d
          BY Zenon, <2>3, <5>2
        <5>5. ASSUME NEW i \in 0..(m - 1)
              PROVE  /\ r.pieces[i].p = p /\ r.pieces[i].from = i * FragDataMax
                     /\ r.pieces[i].size = FragDataMax
          <6>1. r.pieces[i] = [p |-> p, from |-> i * FragDataMax, size |-> FragDataMax]
            BY Zenon, <5>3
          <6> QED
            BY ONLY <6>1
        <5>6. ASSUME NEW i \in 0..m PROVE r.pieces[i].p = p /\ r.pieces[i].from = i * FragDataMax
          <6>1. CASE i = m
            BY Zenon, <1>6, <5>4, <6>1
          <6>2. CASE i # m
            <7>1. i \in 0..(m - 1)
              BY <6>2
            <7> QED
              BY Zenon, <5>5, <7>1
          <6> QED
            BY Zenon, <6>1, <6>2
        <5>7. touch
          <6>1. SUFFICES ASSUME NEW i \in 1..m
                         PROVE  /\ r.pieces[i].p = r.pieces[i - 1].p
                                /\ r.pieces[i].from = r.pieces[i - 1].from + r.pieces[i - 1].size
            BY Zenon, <5>2
          <6>2. i \in 0..m /\ i - 1 \in 0..(m - 1)
            OBVIOUS
          <6>3. /\ r.pieces[i].p = p /\ r.pieces[i].from = i * FragDataMax
                /\ r.pieces[i - 1].p = p /\ r.pieces[i - 1].from = (i - 1) * FragDataMax
                /\ r.pieces[i - 1].size = FragDataMax
            BY Zenon, <5>5, <5>6, <6>2
          <6>4. i * FragDataMax = (i - 1) * FragDataMax + FragDataMax
            BY <1>11
          <6> QED
            BY Zenon, <6>3, <6>4
        <5>8. a.p = p /\ a.from = 0
          <6>1. 0 \in 0..m /\ 0 * FragDataMax = 0
            BY <1>11
          <6> QED
            BY Zenon, <5>6, <6>1 DEF a
        <5>9. d.from + d.size - a.from = size
          BY <1>8, <4>5, <5>8
        <5> QED
          BY Zenon, <4>2, <5>7, <5>8, <5>9 DEF Kept, size, n
      <4> QED
        BY Zenon, <1>12, <3>1, <4>1, <4>7, <4>8
    <3> QED
      BY Zenon, <3>4, <3>5
  <2>10. c.cmd \in {"Fragment", "FragFinal"}
    BY <1>3, <1>14 DEF Cells
  <2> QED
    BY Zenon, <2>8, <2>9, <2>10
<1> QED
  BY Zenon, <1>13, <1>14

(* One Read of the reader, and what follows when its wait is over.         *)
LEMMA ReadOK ==
    ASSUME IInv, Read
    PROVE  IInv'
<1> DEFINE len == frames[1].frameLen
<1>1. /\ TypeOK /\ OrderInv /\ FrameInv /\ DeliveredInv /\ ReaderInv /\ ReaderInStep
      /\ frames \in Seq(Frames) /\ out \in Seq(Cells)
      /\ preamble \in obfsMinPreamble..obfsMaxPreamble /\ need \in 0..MaxFrameLen
  BY Zenon DEF IInv, TypeOK
<1>2. PICK w, u, t \in Nat :
          /\ Adds(Len(segments), segments, w) /\ Adds(Len(frames), FrameBytes, u)
          /\ t = rbuf + w /\ Balance(t, u)
  BY Zenon DEF IInv, ByteInv
<1>3. PICK n \in 1..need, v \in Nat :
          /\ Adds(Len(segments'), segments', v) /\ segments' \in Seq(Nat \ {0})
          /\ rbuf' \in Nat /\ rbuf' + v = (rbuf + w) - n
          /\ IF n < need THEN Goto(stage, need - n) ELSE Waited
  BY Zenon, <1>1, <1>2, ReadTakes
<1>4. need > 0 /\ UNCHANGED <<payloads, out, preamble, late>>
  BY Zenon DEF Read
<1>5. /\ FrameLenSize = 2 /\ MaxFrameLen \in Nat /\ FrameLenSize \in 0..MaxFrameLen
      /\ 0 \in 0..MaxFrameLen
  BY DEF FrameLenSize, MaxFrameLen
<1>6. need \in Nat \ {0} /\ preamble \in Nat /\ preamble % 256 \in Nat
  BY <1>1, <1>4, <1>5 DEF obfsMinPreamble, obfsMaxPreamble
<1>7. PICK y \in Nat : y = rbuf' + v /\ y = t - n
  <2>1. rbuf' + v \in Nat
    <3>1. \A a, b \in Nat : a + b \in Nat
      BY ONLY TRUE
    <3> QED
      BY Zenon, <1>3, <3>1
  <2> QED
    BY Zenon, <1>2, <1>3, <2>1
<1>8. stage \in {"obfs", "skip", "len", "body"}
  <2>1. need # 0
    BY <1>6
  <2> QED
    BY Zenon, <1>1, <1>2, <2>1 DEF TypeOK, Balance
<1>9. stage # "endless"
  BY <1>8
<1>10. PICK m \in Nat : ReaderAt(m)
  BY Zenon, <1>1, <1>9 DEF ReaderInv
<1>11. ASSUME Len(frames) > 0
       PROVE  /\ frames[1] \in Frames /\ len \in CellHdrSize..MaxFrameLen /\ Unmarshals(frames[1])
              /\ len \in Nat \ {0} /\ len \in 0..MaxFrameLen
  <2>1. frames[1] \in Frames /\ 1 \in 1..Len(frames)
    BY <1>1, <1>11
  <2>2. len \in CellHdrSize..MaxFrameLen /\ Unmarshals(frames[1])
    BY Zenon, <1>1, <2>1 DEF FrameInv, ValidLength
  <2>3. len \in Nat \ {0} /\ len \in 0..MaxFrameLen
    BY <1>5, <2>2 DEF CellHdrSize
  <2> QED
    BY Zenon, <2>1, <2>2, <2>3
<1> HIDE DEF len
\* No cell is handled: only the reader's wait changes.
<1>12. ASSUME Balance(y, u)', need' \in 0..MaxFrameLen, UNCHANGED <<frames, reasm, delivered>>,
              stage' \in {"obfs", "skip", "len", "body"} \/ (stage' = "lost" /\ preamble > 255)
       PROVE  IInv'
  <2>1. TypeOK'
    <3>1. stage' \in {"obfs", "skip", "len", "body", "lost", "refused", "endless"}
      BY <1>12
    <3> QED
      BY Zenon, <1>1, <1>3, <1>4, <1>12, <3>1 DEF TypeOK
  <2>2. ByteInv'
    <3>1. FrameBytes' = FrameBytes
      BY Zenon, <1>12 DEF FrameBytes
    <3> QED
      BY Zenon, <1>2, <1>3, <1>7, <1>12, <3>1 DEF ByteInv
  <2>3. FrameInv'
    BY Zenon, <1>1, <1>12 DEF FrameInv, ValidLength, Unmarshals
  <2>4. Count' = Count /\ Transit' = Transit
    BY Zenon, <1>4, <1>12 DEF Count, Transit
  <2>5. OrderInv' /\ DeliveredInv'
    BY Zenon, <1>1, <1>4, <1>12, <2>4 DEF OrderInv, DeliveredInv, Kept
  <2>6. Gathered(m)'
    BY Zenon, <1>10, <1>12 DEF ReaderAt, Gathered
  <2>7. ReaderInv'
    BY Zenon, <1>4, <1>10, <1>12, <2>4, <2>6 DEF ReaderAt, ReaderInv
  <2>8. stage' # "refused" /\ stage' # "endless" /\ (stage' = "lost" => preamble > 255)
    BY <1>12
  <2>9. ReaderInStep'
    BY Zenon, <1>4, <2>8 DEF ReaderInStep
  <2> QED
    BY Zenon, <2>1, <2>2, <2>3, <2>5, <2>7, <2>9 DEF IInv
<1>13. CASE n < need
  <2>1. stage' = stage /\ need' = need - n /\ UNCHANGED <<frames, reasm, delivered>>
    BY Zenon, <1>3, <1>13 DEF Goto
  <2>2. need' \in 0..MaxFrameLen /\ need - n \in Nat \ {0}
    BY <1>1, <1>5, <1>13, <2>1
  <2>3. stage # "obfs"
    <3>1. stage = "obfs" => need = 1
      BY Zenon, <1>2 DEF Balance
    <3> QED
      BY <1>13, <3>1
  <2>4. ASSUME stage = "skip"
        PROVE  /\ need - n \in 1..(preamble % 256)
               /\ y = (need - n) + (preamble - (preamble % 256)) + u
    <3>1. need \in 1..(preamble % 256) /\ t = need + (preamble - (preamble % 256)) + u
      BY Zenon, <1>2, <2>4 DEF Balance
    <3> QED
      BY <1>6, <1>7, <2>2, <3>1
  <2>5. ASSUME stage = "len"
        PROVE  need - n \in 1..FrameLenSize /\ y = u - (FrameLenSize - (need - n))
    <3>1. need \in 1..FrameLenSize /\ t = u - (FrameLenSize - need)
      BY Zenon, <1>2, <2>5 DEF Balance
    <3> QED
      BY <1>5, <1>6, <1>7, <2>2, <3>1
  <2>6. ASSUME stage = "body"
        PROVE  /\ Len(frames) > 0 /\ need - n \in 1..len
               /\ y = u - (FrameLenSize + (len - (need - n)))
    <3>1. Len(frames) > 0 /\ need \in 1..len /\ t = u - (FrameLenSize + (len - need))
      BY Zenon, <1>2, <2>6 DEF Balance, len
    <3>2. len \in Nat
      BY Zenon, <1>11, <3>1
    <3> QED
      BY SMTT(30), <1>5, <1>6, <1>7, <2>2, <3>1, <3>2
  <2>7. Balance(y, u)'
    <3>1. y = y /\ stage' \notin {"obfs", "lost", "refused", "endless"}
      BY <1>8, <2>1, <2>3
    <3> QED
      BY Zenon, <1>4, <2>1, <2>4, <2>5, <2>6, <3>1 DEF Balance, len
  <2> QED
    BY Zenon, <1>8, <1>12, <2>1, <2>2, <2>7
<1>14. CASE ~ (n < need)
  <2>1. n = need /\ Waited
    <3>1. n = need
      BY <1>6, <1>14
    <3> QED
      BY Zenon, <1>3, <1>14, <3>1
  <2>2. y \in Nat /\ y = t - need
    BY Zenon, <1>7, <2>1
  <2>3. CASE stage \in {"obfs", "skip"}
    <3>1. readObfsPreamble
      BY <2>1, <2>3 DEF Waited
    <3>2. /\ Balance(y, u)' /\ need' \in 0..MaxFrameLen /\ UNCHANGED <<frames, reasm, delivered>>
          /\ stage' \in {"skip", "len"} \/ (stage' = "lost" /\ preamble > 255)
      BY <1>1, <1>2, <1>4, <2>2, <2>3, <3>1, PreambleRead
    <3>3. stage' \in {"obfs", "skip", "len", "body"} \/ (stage' = "lost" /\ preamble > 255)
      BY <3>2
    <3> QED
      BY Zenon, <1>12, <3>2, <3>3
  <2>4. CASE stage = "len"
    <3>1. t = u - (FrameLenSize - need)
      BY Zenon, <1>2, <2>4 DEF Balance
    <3>2. y = u - FrameLenSize /\ u # 0
      BY <1>5, <1>6, <2>2, <3>1
    <3>3. Len(frames) # 0
      BY Zenon, <1>2, <3>2, AddsNone
    <3>4. Len(frames) > 0
      BY <1>1, <3>3
    <3>5. /\ len \in CellHdrSize..MaxFrameLen /\ len \in Nat \ {0} /\ len \in 0..MaxFrameLen
      BY Zenon, <1>11, <3>4
    <3>6. Head(frames) = frames[1]
      BY <1>1, <3>4
    <3>7. IF ValidLength(frames[1].frameLen) THEN Goto("body", frames[1].frameLen)
          ELSE Goto("refused", 0)
      BY <2>1, <2>4, <3>6 DEF Waited
    <3>8. stage' = "body" /\ need' = len /\ UNCHANGED <<frames, reasm, delivered>>
      BY Zenon, <3>5, <3>7 DEF ValidLength, Goto, len
    <3>9. y = u - (FrameLenSize + (len - len)) /\ len \in 1..len
      BY <1>5, <3>2, <3>5
    <3>10. Balance(y, u)'
      BY Zenon, <3>4, <3>8, <3>9 DEF Balance, len
    <3> QED
      BY Zenon, <1>12, <3>5, <3>8, <3>10
  <2>5. CASE stage = "body"
    <3>1. Len(frames) > 0 /\ need \in 1..len /\ t = u - (FrameLenSize + (len - need))
      BY Zenon, <1>2, <2>5 DEF Balance, len
    <3>2. len \in Nat \ {0} /\ Unmarshals(frames[1])
      BY Zenon, <1>11, <3>1
    <3>3. y = u - (FrameLenSize + len)
      BY <1>5, <1>6, <2>2, <3>1, <3>2
    <3>4. Head(frames) = frames[1]
      BY <1>1, <3>1
    <3>5. IF Unmarshals(frames[1]) THEN frames' = Tail(frames) /\ Handle(frames[1].cell)
          ELSE Goto("refused", 0)
      BY <2>1, <2>5, <3>4 DEF Waited
    <3>6. frames' = Tail(frames) /\ Handle(frames[1].cell)
      BY Zenon, <3>2, <3>5
    <3>7. /\ OrderInv' /\ DeliveredInv' /\ delivered' \in Seq(Piece)
          /\ \/ stage' = "len" /\ need' = FrameLenSize /\ \E k \in Nat : ReaderAt(k)'
             \/ /\ stage' = "endless" /\ need' = 0
                /\ \E p \in DOMAIN payloads : payloads[p] > MaxFragmented
      BY Zenon, <1>1, <1>4, <1>10, <3>1, <3>6, Handled
    <3>8. /\ frames' \in Seq(Frames) /\ Len(frames) \in Nat \ {0}
          /\ Len(frames') = Len(frames) - 1
          /\ \A i \in 1..(Len(frames) - 1) : frames'[i] = frames[i + 1]
      BY <1>1, <3>1, <3>6
    <3>9. TypeOK'
      <4>1. /\ stage' \in {"obfs", "skip", "len", "body", "lost", "refused", "endless"}
            /\ need' \in 0..MaxFrameLen
        BY <1>5, <3>7
      <4> QED
        BY Zenon, <1>1, <1>3, <1>4, <3>7, <3>8, <4>1 DEF TypeOK
    <3>10. FrameInv'
      <4>1. SUFFICES ASSUME NEW i \in 1..(Len(frames) - 1)
                     PROVE  ValidLength(frames'[i].frameLen) /\ Unmarshals(frames'[i])
        BY Zenon, <3>8 DEF FrameInv, ValidLength, Unmarshals
      <4>2. i + 1 \in 1..Len(frames)
        BY <3>8
      <4> QED
        BY Zenon, <1>1, <3>8, <4>2 DEF FrameInv
    <3>11. Adds(Len(frames'), FrameBytes', y)
      <4>1. ASSUME NEW i \in 1..Len(frames)
            PROVE  FrameBytes[i] = FrameLenSize + frames[i].frameLen /\ FrameBytes[i] \in Nat
        <5>1. frames[i] \in Frames
          BY <1>1
        <5>2. frames[i].frameLen \in Nat
          BY Zenon, <5>1 DEF Frames
        <5>3. FrameBytes[i] = FrameLenSize + frames[i].frameLen
          BY Zenon DEF FrameBytes
        <5> QED
          BY <1>5, <5>2, <5>3
      <4>2. ASSUME NEW i \in 1..(Len(frames) - 1) PROVE FrameBytes'[i] = FrameBytes[i + 1]
        <5>1. i + 1 \in 1..Len(frames) /\ i \in 1..Len(frames')
          BY <3>8
        <5>2. FrameBytes'[i] = FrameLenSize + frames'[i].frameLen
          BY Zenon, <5>1 DEF FrameBytes
        <5> QED
          BY Zenon, <3>8, <4>1, <5>1, <5>2
      <4>3. FrameBytes[1] <= u /\ Adds(Len(frames) - 1, FrameBytes', u - FrameBytes[1])
        BY Zenon, <1>2, <3>8, <4>1, <4>2, AddsRest
      <4>4. 1 \in 1..Len(frames)
        BY SMTT(30), <3>8
      <4>5. FrameBytes[1] = FrameLenSize + len
        BY Zenon, <4>1, <4>4 DEF len
      <4> QED
        BY Zenon, <3>3, <3>8, <4>3, <4>5
    <3>12. y = y - (FrameLenSize - FrameLenSize) /\ FrameLenSize \in 1..FrameLenSize
      BY <1>5, <2>2
    <3>13. Balance(y, y)'
      <4>1. CASE stage' = "len" /\ need' = FrameLenSize
        BY <3>12, <4>1 DEF Balance
      <4>2. CASE stage' = "endless" /\ need' = 0
        BY <4>2 DEF Balance
      <4> QED
        BY Zenon, <3>7, <4>1, <4>2
    <3>14. ByteInv'
      BY Zenon, <1>3, <1>7, <3>11, <3>13 DEF ByteInv
    <3>15. ReaderInv'
      BY <3>7 DEF ReaderInv
    <3>16. ReaderInStep'
      BY <1>4, <3>7 DEF ReaderInStep
    <3> QED
      BY Zenon, <3>7, <3>9, <3>10, <3>14, <3>15, <3>16 DEF IInv
  <2> QED
    BY Zenon, <1>8, <2>3, <2>4, <2>5
<1> QED
  BY Zenon, <1>13, <1>14

(* The deadline of the handshake: the reader stops, and late says why.     *)
LEMMA DeadlineOK ==
    ASSUME IInv, ObfsDeadline
    PROVE  IInv'
<1>1. /\ late' = TRUE /\ stage' = "lost" /\ need' = 0
      /\ UNCHANGED <<frames, reasm, delivered, payloads, out, preamble, segments, rbuf>>
      /\ stage \in {"obfs", "skip"}
  BY Zenon DEF ObfsDeadline, Goto
<1>2. 0 \in 0..MaxFrameLen
  BY DEF MaxFrameLen
<1>3. TypeOK'
  BY Zenon, <1>1, <1>2 DEF IInv, TypeOK
<1>4. ByteInv'
  <2>1. PICK w, u, t \in Nat :
            /\ Adds(Len(segments), segments, w) /\ Adds(Len(frames), FrameBytes, u)
            /\ t = rbuf + w
    BY Zenon DEF IInv, ByteInv
  <2>2. FrameBytes' = FrameBytes
    BY Zenon, <1>1 DEF FrameBytes
  <2>3. Balance(t, u)'
    BY <1>1 DEF Balance
  <2> QED
    BY Zenon, <1>1, <2>1, <2>2, <2>3 DEF ByteInv
<1>5. FrameInv'
  BY Zenon, <1>1 DEF IInv, FrameInv, ValidLength, Unmarshals
<1>6. Count' = Count /\ Transit' = Transit
  BY Zenon, <1>1 DEF Count, Transit
<1>7. OrderInv' /\ DeliveredInv'
  BY Zenon, <1>1, <1>6 DEF IInv, OrderInv, DeliveredInv, Kept
<1>8. ReaderInv'
  <2>1. stage # "endless"
    BY <1>1
  <2>2. PICK m \in Nat : ReaderAt(m)
    BY Zenon, <2>1 DEF IInv, ReaderInv
  <2>3. Gathered(m)'
    BY Zenon, <1>1, <2>2 DEF ReaderAt, Gathered
  <2> QED
    BY Zenon, <1>1, <1>6, <2>2, <2>3 DEF ReaderAt, ReaderInv
<1>9. ReaderInStep'
  BY <1>1 DEF ReaderInStep
<1> QED
  BY Zenon, <1>3, <1>4, <1>5, <1>7, <1>8, <1>9 DEF IInv

(* A step that changes nothing.                                            *)
LEMMA StutterOK ==
    ASSUME IInv, UNCHANGED vars
    PROVE  IInv'
<1>1. UNCHANGED <<payloads, out, preamble, frames, segments, rbuf, stage, need, reasm,
                  delivered, late>>
  BY Zenon DEF vars
<1>2. TypeOK' /\ FrameInv' /\ DeliveredInv' /\ ReaderInStep'
  BY Zenon, <1>1 DEF IInv, TypeOK, FrameInv, ValidLength, Unmarshals, DeliveredInv, Kept,
     ReaderInStep
<1>3. ByteInv'
  BY Zenon, <1>1, BytesSame DEF IInv
<1>4. Count' = Count /\ Transit' = Transit
  BY Zenon, <1>1 DEF Count, Transit
<1>5. OrderInv'
  BY Zenon, <1>1, <1>4 DEF IInv, OrderInv
<1>6. ASSUME NEW m, ReaderAt(m) PROVE ReaderAt(m)'
  <2>1. Gathered(m)'
    BY Zenon, <1>1, <1>6 DEF ReaderAt, Gathered
  <2> QED
    BY Zenon, <1>1, <1>4, <1>6, <2>1 DEF ReaderAt
<1>7. ReaderInv'
  BY Zenon, <1>1, <1>6 DEF IInv, ReaderInv
<1> QED
  BY Zenon, <1>2, <1>3, <1>5, <1>7 DEF IInv

(* The inductive invariant holds of every run.                             *)
LEMMA Inductive == Spec => []IInv
<1>1. Init => IInv
  BY Zenon, InitOK
<1>2. IInv /\ [Next]_vars => IInv'
  BY Zenon, PassOK, WriteOK, ReadOK, DeadlineOK, StutterOK DEF Next
<1> QED
  BY <1>1, <1>2, PTL DEF Spec

-----------------------------------------------------------------------------
(* The theorems.                                                           *)

(* A frame that is still whole in the transport has all its bytes there.   *)
LEMMA FirstFrame ==
    ASSUME frames \in Seq(Frames), Len(frames) > 0, NEW u \in Nat,
           Adds(Len(frames), FrameBytes, u)
    PROVE  frames[1].frameLen \in Nat /\ FrameLenSize + frames[1].frameLen <= u
<1>1. Len(frames) \in Nat \ {0} /\ 1 \in 1..Len(frames)
  OBVIOUS
<1>2. ASSUME NEW i \in 1..Len(frames)
      PROVE  /\ frames[i].frameLen \in Nat /\ FrameBytes[i] = FrameLenSize + frames[i].frameLen
             /\ FrameBytes[i] \in Nat
  <2>1. frames[i] \in Frames
    OBVIOUS
  <2>2. frames[i].frameLen \in Nat
    BY Zenon, <2>1 DEF Frames
  <2>3. FrameBytes[i] = FrameLenSize + frames[i].frameLen
    BY Zenon DEF FrameBytes
  <2> QED
    BY <2>2, <2>3 DEF FrameLenSize
<1>3. PICK t : \A i \in 1..(Len(frames) - 1) : t[i] = FrameBytes[i + 1]
  <2> WITNESS [i \in 1..(Len(frames) - 1) |-> FrameBytes[i + 1]]
  <2> QED
    BY Zenon
<1>4. FrameBytes[1] <= u
  BY Zenon, <1>1, <1>2, <1>3, AddsRest
<1> QED
  BY Zenon, <1>1, <1>2, <1>4

(* Types: a wait is never longer than a frame, and what is handed on is an *)
(* interval of bytes of one payload.                                       *)
THEOREM TypeCorrect == Spec => []TypeOK
<1>1. IInv => TypeOK
  BY Zenon DEF IInv
<1> QED
  BY <1>1, Inductive, PTL

(* The reader stays in step: ReadCell and UnmarshalCell refuse no cell of  *)
(* the sender, and the three ways to lose step or to stop are the only     *)
(* ones, whatever the payloads, the padding and the cuts.                  *)
THEOREM InStep == Spec => []ReaderInStep
<1>1. IInv => ReaderInStep
  BY Zenon DEF IInv
<1> QED
  BY <1>1, Inductive, PTL

(* handleCell works on the payloads that were sent, each once and in       *)
(* order, until one has too many fragments: whole if they fit a cell, else *)
(* cut to its size after reassembly, as relay/main.go does.                *)
THEOREM PayloadsArrive == Spec => []PayloadsInOrder
<1>1. IInv => PayloadsInOrder
  <2>1. SUFFICES ASSUME IInv, NEW p \in DOMAIN delivered,
                        \A q \in 1..Min({p, Len(payloads)}) : payloads[q] <= MaxFragmented
                 PROVE  p <= Len(payloads) /\ delivered[p] = Kept(p)
    BY Zenon DEF PayloadsInOrder
  <2>2. delivered \in Seq(Piece) /\ payloads \in Seq(PayloadSizes)
    BY Zenon, <2>1 DEF IInv, TypeOK
  <2>3. p \in 1..Len(delivered) /\ p \in Nat \ {0} /\ Len(payloads) \in Nat
    BY <2>1, <2>2
  <2>4. p <= Len(payloads) /\ (payloads[p] <= MaxFragmented => delivered[p] = Kept(p))
    BY Zenon, <2>1, <2>3 DEF IInv, DeliveredInv
  <2>5. Min({p, Len(payloads)}) = p /\ p \in 1..p
    BY <2>3, <2>4, MinOf
  <2> QED
    BY Zenon, <2>1, <2>4, <2>5
<1> QED
  BY <1>1, Inductive, PTL

(* No read waits for bytes that never come: with the wire empty, all that  *)
(* was written has been read, put together and handed on.                  *)
THEOREM NothingLeft == Spec => []NothingLeftBehind
<1>1. IInv => NothingLeftBehind
  <2>1. SUFFICES ASSUME IInv, out = <<>>, segments = <<>>, rbuf = 0, stage \in {"len", "body"}
                 PROVE  /\ stage = "len" /\ need = FrameLenSize
                        /\ frames = <<>> /\ reasm = NewReassembler
                        /\ Len(delivered) = Len(payloads)
    BY Zenon DEF NothingLeftBehind
  <2>2. PICK w, u, t \in Nat :
            /\ Adds(Len(segments), segments, w) /\ Adds(Len(frames), FrameBytes, u)
            /\ t = rbuf + w /\ Balance(t, u)
    BY Zenon, <2>1 DEF IInv, ByteInv
  <2>3. frames \in Seq(Frames) /\ FrameLenSize = 2
    BY Zenon, <2>1 DEF IInv, TypeOK, FrameLenSize
  <2>4. w = 0
    <3>1. Len(segments) = 0
      BY <2>1
    <3> QED
      BY Zenon, <2>2, <3>1, AddsNone
  <2>5. t = 0
    BY <2>1, <2>2, <2>4
  <2>6. ASSUME Len(frames) > 0
        PROVE  frames[1].frameLen \in Nat /\ FrameLenSize + frames[1].frameLen <= u
    BY Zenon, <2>2, <2>3, <2>6, FirstFrame
  <2>7. stage # "body"
    <3>1. SUFFICES ASSUME stage = "body" PROVE FALSE
      OBVIOUS
    <3> DEFINE len == frames[1].frameLen
    <3>2. Len(frames) > 0 /\ need \in 1..len /\ 0 = u - (FrameLenSize + (len - need))
      BY Zenon, <2>2, <2>5, <3>1 DEF Balance
    <3>3. len \in Nat /\ FrameLenSize + len <= u
      BY Zenon, <2>6, <3>2
    <3> HIDE DEF len
    <3> QED
      BY <2>3, <3>2, <3>3
  <2>8. stage = "len"
    BY <2>1, <2>7
  <2>9. need \in 1..FrameLenSize /\ 0 = u - (FrameLenSize - need)
    BY Zenon, <2>2, <2>5, <2>8 DEF Balance
  <2>10. u <= 1
    BY <2>3, <2>9
  <2>11. ~ (Len(frames) > 0)
    BY <2>3, <2>6, <2>10
  <2>12. frames = <<>> /\ Len(frames) = 0
    BY <2>3, <2>11
  <2>13. u = 0
    BY Zenon, <2>2, <2>12, AddsNone
  <2>14. need = FrameLenSize
    BY <2>3, <2>9, <2>13
  <2>15. Count = 0
    BY <2>1, <2>12 DEF Count
  <2>16. stage # "endless"
    BY <2>8
  <2>17. PICK m \in Nat : ReaderAt(m)
    BY Zenon, <2>1, <2>16 DEF IInv, ReaderInv
  <2>18. reasm = NewReassembler /\ Len(delivered) = Len(payloads)
    BY Zenon, <2>15, <2>17 DEF ReaderAt, Gathered
  <2> QED
    BY Zenon, <2>8, <2>12, <2>14, <2>18
<1> QED
  BY <1>1, Inductive, PTL

=============================================================================
