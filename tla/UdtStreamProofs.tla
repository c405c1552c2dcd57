--------------------------- MODULE UdtStreamProofs ---------------------------
(***************************************************************************)
(* Machine-checked proofs about UdtStream, for transfers, buffers, rings   *)
(* and windows of any size, any initial sequence number, and a network     *)
(* that may do anything it may do in UdtStream.                            *)
(*                                                                         *)
(* The numbers of a transfer lie in a window of less than half of the      *)
(* circle, in which they behave as the positions in the stream that they   *)
(* stand for, also where they wrap.  UdtInv says where both sides stand in *)
(* terms of positions; what the reader gets, and that the checks of core.cpp *)
(* never fire, follows from it.                                            *)
(***************************************************************************)
EXTENDS UdtStream, SequenceTheorems, WellFoundedInduction, TLAPS

-------------------------------------------------------------------------------
(* Sequence numbers, on a circle of any size.                              *)

\* The offsets from the beginning of a window.
Offsets == 0 .. m_iSeqNoTH - 1

\* Half of the circle, as the comparisons need it.
LEMMA Half ==
  /\ m_iSeqNoTH \in Nat /\ m_iSeqNoTH >= 1
  /\ 2 * m_iSeqNoTH <= m_iMaxSeqNo /\ m_iMaxSeqNo <= 2 * m_iSeqNoTH + 1
  BY SeqNoAssumption DEF m_iSeqNoTH

\* incseq and decseq stay on the circle and undo one another.
THEOREM IncDec ==
  ASSUME NEW s \in SeqNumbers
  PROVE  /\ incseq(s) \in SeqNumbers /\ decseq(s) \in SeqNumbers
         /\ decseq(incseq(s)) = s /\ incseq(decseq(s)) = s
         /\ incseqBy(s, 1) = incseq(s)
  BY SeqNoAssumption DEF SeqNumbers, incseq, decseq, incseqBy

\* Where the number d further on is: on the circle, with the wrap made plain.
LEMMA IncByIs ==
  ASSUME NEW s \in SeqNumbers, NEW d \in 0 .. m_iMaxSeqNo
  PROVE  /\ incseqBy(s, d) \in SeqNumbers
         /\ incseqBy(s, d) = s + d \/ incseqBy(s, d) = s + d - (m_iMaxSeqNo + 1)
  BY SeqNoAssumption DEF SeqNumbers, incseqBy

\* seqoff and seqlen measure what incseq adds: the loss lists find the place of a number
\* in their arrays by its offset (list.cpp:105), and the sender what it may send by a length
\* (core.cpp:2310).
THEOREM OffsetOfSum ==
  ASSUME NEW s \in SeqNumbers, NEW d \in Offsets
  PROVE  /\ seqoff(s, incseqBy(s, d)) = d
         /\ seqoff(incseqBy(s, d), s) = -d
         /\ seqlen(s, incseqBy(s, d)) = d + 1
<1>1. d \in 0 .. m_iMaxSeqNo
  BY Half, SeqNoAssumption DEF Offsets
<1>2. PICK t \in Int : t = incseqBy(s, d)
  BY <1>1, IncByIs DEF SeqNumbers
<1>3. t \in SeqNumbers /\ (t = s + d \/ t = s + d - (m_iMaxSeqNo + 1))
  BY <1>1, <1>2, IncByIs
<1>4. seqoff(s, t) = d /\ seqoff(t, s) = -d
  BY <1>3, Half, SeqNoAssumption DEF seqoff, abs, SeqNumbers, Offsets
<1>5. seqlen(s, t) = d + 1
  BY <1>3, Half, SeqNoAssumption DEF seqlen, SeqNumbers, Offsets
<1> QED
  BY <1>2, <1>4, <1>5

\* Within a window the comparison of two numbers is that of their positions, so that it
\* orders them; over more than half of the circle it would not even be transitive.
THEOREM WindowOrdered ==
  ASSUME NEW s \in SeqNumbers, NEW d \in Offsets, NEW e \in Offsets
  PROVE  /\ seqcmp(incseqBy(s, d), incseqBy(s, e)) < 0 <=> d < e
         /\ seqcmp(incseqBy(s, d), incseqBy(s, e)) = 0 <=> d = e
         /\ seqoff(incseqBy(s, d), incseqBy(s, e)) = e - d
<1>1. d \in 0 .. m_iMaxSeqNo /\ e \in 0 .. m_iMaxSeqNo
  BY Half, SeqNoAssumption DEF Offsets
<1>2. PICK t \in Int, u \in Int : t = incseqBy(s, d) /\ u = incseqBy(s, e)
  BY <1>1, IncByIs DEF SeqNumbers
<1>3. /\ t \in SeqNumbers /\ (t = s + d \/ t = s + d - (m_iMaxSeqNo + 1))
      /\ u \in SeqNumbers /\ (u = s + e \/ u = s + e - (m_iMaxSeqNo + 1))
  BY <1>1, <1>2, IncByIs
<1>4. (seqcmp(t, u) < 0 <=> d < e) /\ (seqcmp(t, u) = 0 <=> d = e)
  BY <1>3, Half, SeqNoAssumption DEF seqcmp, abs, SeqNumbers, Offsets
<1>5. seqoff(t, u) = e - d
  BY <1>3, Half, SeqNoAssumption DEF seqoff, abs, SeqNumbers, Offsets
<1> QED
  BY <1>2, <1>4, <1>5

\* A number is in a range exactly if its position is: what SeqRange, and with it the content
\* of a loss list, is for any wrap.
THEOREM RangeIsInterval ==
  ASSUME NEW s \in SeqNumbers, NEW d \in Offsets, NEW e \in Offsets, d <= e
  PROVE  SeqRange(incseqBy(s, d), incseqBy(s, e)) = {incseqBy(s, n) : n \in d .. e}
<1>1. /\ incseqBy(s, d) \in SeqNumbers
      /\ \A n \in 0 .. m_iMaxSeqNo : incseqBy(s, n) \in SeqNumbers
  BY IncByIs, Half, SeqNoAssumption DEF Offsets
<1>2. /\ ~(seqcmp(incseqBy(s, d), incseqBy(s, e)) > 0)
      /\ seqlen(incseqBy(s, d), incseqBy(s, e)) - 1 = e - d
  <2>1. \A m \in 0 .. (e - d) : incseqBy(incseqBy(s, d), m) = incseqBy(s, d + m)
    BY Half, SeqNoAssumption DEF incseqBy, SeqNumbers, Offsets
  <2>2. e - d \in Offsets /\ incseqBy(s, e) = incseqBy(incseqBy(s, d), e - d)
    BY <2>1, Half DEF Offsets
  <2>3. seqlen(incseqBy(s, d), incseqBy(s, e)) = e - d + 1
    BY <1>1, <2>2, OffsetOfSum
  <2>4. seqcmp(incseqBy(s, d), incseqBy(s, e)) < 0 \/ seqcmp(incseqBy(s, d), incseqBy(s, e)) = 0
    BY WindowOrdered DEF Offsets
  <2>5. seqcmp(incseqBy(s, d), incseqBy(s, e)) \in Int /\ e - d \in Int
    <3>1. incseqBy(s, d) \in Int /\ incseqBy(s, e) \in Int
      BY <1>1, Half, SeqNoAssumption DEF SeqNumbers, Offsets
    <3> QED BY <3>1 DEF seqcmp, abs, Offsets
  <2> QED
    BY <2>3, <2>4, <2>5
<1>3. \A m \in 0 .. (e - d) : incseqBy(incseqBy(s, d), m) = incseqBy(s, d + m)
  BY Half, SeqNoAssumption DEF incseqBy, SeqNumbers, Offsets
<1>4. SeqRange(incseqBy(s, d), incseqBy(s, e))
         = {incseqBy(incseqBy(s, d), m) : m \in 0 .. (e - d)}
  BY <1>2 DEF SeqRange
<1>5. ASSUME NEW x PROVE x \in {incseqBy(incseqBy(s, d), m) : m \in 0 .. (e - d)}
                         <=> x \in {incseqBy(s, n) : n \in d .. e}
  <2>1. ASSUME NEW m \in 0 .. (e - d), x = incseqBy(incseqBy(s, d), m)
        PROVE  x \in {incseqBy(s, n) : n \in d .. e}
    <3>1. d + m \in d .. e
      BY DEF Offsets
    <3> QED BY <2>1, <3>1, <1>3
  <2>2. ASSUME NEW n \in d .. e, x = incseqBy(s, n)
        PROVE  x \in {incseqBy(incseqBy(s, d), m) : m \in 0 .. (e - d)}
    <3>1. n - d \in 0 .. (e - d) /\ d + (n - d) = n
      BY DEF Offsets
    <3> QED BY <2>2, <3>1, <1>3
  <2> QED BY <2>1, <2>2
<1> QED
  BY <1>4, <1>5
-------------------------------------------------------------------------------
(* The positions of a stream.                                              *)

\* The number of the packet at position p of the stream, the first being 0, and back.
At(p) == incseqBy(ISN, p)
Pos(s) == seqoff(ISN, s)
Positions == 0 .. NBlocks
Numbers == {At(p) : p \in Positions}

\* The number before that of position p.
Prev(p) == IF p = 0 THEN ISN - 1 ELSE At(p - 1)

\* The position after the last that was received, and of the first that is missing.
RcvNext == Pos(incseq(m_iRcvCurrSeqNo))
Missing == Pos(AckNumber)
NRead == Len(readBlocks)

\* What is used of the constants.
LEMMA Constants ==
  /\ ISN \in SeqNumbers /\ NBlocks \in Nat /\ NBlocks + 1 \in Offsets
  /\ Positions \subseteq Offsets
  /\ SndBufSize \in Nat /\ SndBufSize > 0
  /\ RcvBufSize \in Nat /\ RcvBufSize > 1
  /\ PeerWindow \in Nat /\ RcvBufSize <= PeerWindow
<1>1. m_iSeqNoTH \in Nat
  BY Half
<1>2. /\ ISN \in SeqNumbers /\ NBlocks \in Nat /\ NBlocks < m_iSeqNoTH - 1
      /\ SndBufSize \in Nat \ {0} /\ RcvBufSize \in Nat \ {0, 1}
      /\ FlightFlag \in Nat /\ RcvBufSize <= FlightFlag /\ PeerWindow \in {RcvBufSize, FlightFlag}
  BY UdtAssumption DEF UdtAssumption
<1> QED
  BY <1>1, <1>2 DEF Offsets, Positions

\* At and Pos undo one another.
LEMMA NumberAt ==
  ASSUME NEW p \in Positions
  PROVE  At(p) \in Numbers /\ At(p) \in SeqNumbers /\ Pos(At(p)) = p
<1>1. p \in Offsets /\ ISN \in SeqNumbers
  BY Constants
<1>2. p \in 0 .. m_iMaxSeqNo
  BY <1>1, Half, SeqNoAssumption DEF Offsets
<1> QED
  BY <1>1, <1>2, OffsetOfSum, IncByIs DEF At, Pos, Numbers

LEMMA PositionOf ==
  ASSUME NEW s \in Numbers
  PROVE  Pos(s) \in Positions /\ At(Pos(s)) = s /\ s \in SeqNumbers
<1>1. PICK p \in Positions : s = At(p)
  BY DEF Numbers
<1> QED
  BY <1>1, NumberAt

\* Numbers are compared as their positions.
LEMMA Compare ==
  ASSUME NEW s \in Numbers, NEW t \in Numbers
  PROVE  /\ seqcmp(s, t) \in Int
         /\ seqcmp(s, t) < 0 <=> Pos(s) < Pos(t)
         /\ seqcmp(s, t) > 0 <=> Pos(s) > Pos(t)
         /\ seqcmp(s, t) <= 0 <=> Pos(s) <= Pos(t)
         /\ seqcmp(s, t) >= 0 <=> Pos(s) >= Pos(t)
         /\ seqoff(s, t) = Pos(t) - Pos(s)
         /\ s = t <=> Pos(s) = Pos(t)
<1>1. PICK p \in Positions, q \in Positions :
        s = At(p) /\ t = At(q) /\ p = Pos(s) /\ q = Pos(t)
  BY PositionOf
<1>2. p \in Offsets /\ q \in Offsets /\ ISN \in SeqNumbers /\ p \in Int /\ q \in Int
  BY Constants DEF Positions
<1>3. /\ seqcmp(s, t) < 0 <=> p < q
      /\ seqcmp(s, t) = 0 <=> p = q
      /\ seqoff(s, t) = q - p
  BY <1>1, <1>2, WindowOrdered DEF At
<1>4. s \in Int /\ t \in Int
  BY PositionOf, SeqNoAssumption DEF SeqNumbers
<1>5. seqcmp(s, t) \in Int
  BY <1>4 DEF seqcmp, abs
<1>6. s = t <=> p = q
  BY <1>1
<1> QED
  BY <1>1, <1>2, <1>3, <1>5, <1>6

\* incseq and decseq are a step along the stream, also from the number ISN - 1 with which
\* the code begins.
LEMMA NextOf ==
  ASSUME NEW p \in Positions
  PROVE  incseq(Prev(p)) = At(p) /\ (p > 0 => decseq(At(p)) = At(p - 1))
<1>1. ISN \in SeqNumbers /\ p \in Nat /\ p < m_iSeqNoTH - 1 /\ m_iSeqNoTH \in Nat
      /\ 2 * m_iSeqNoTH <= m_iMaxSeqNo /\ m_iMaxSeqNo \in Nat
  BY Constants, Half, SeqNoAssumption DEF Positions, Offsets
<1> QED
  BY <1>1 DEF incseq, decseq, Prev, At, incseqBy, SeqNumbers

\* A number against the last one that was sent or received.
LEMMA AgainstLast ==
  ASSUME NEW s \in Numbers, NEW q \in Positions
  PROVE  /\ seqcmp(s, Prev(q)) > 0 <=> Pos(s) >= q
         /\ Prev(q) \in SeqNumbers \cup {-1}
<1>1. PICK p \in Positions : s = At(p) /\ Pos(s) = p
  BY PositionOf
<1>2. ISN \in SeqNumbers /\ p \in Nat /\ p < m_iSeqNoTH - 1 /\ m_iSeqNoTH \in Nat
      /\ q \in Nat /\ q < m_iSeqNoTH - 1
      /\ 2 * m_iSeqNoTH <= m_iMaxSeqNo /\ m_iMaxSeqNo \in Nat
      /\ m_iMaxSeqNo <= 2 * m_iSeqNoTH + 1
  BY Constants, Half, SeqNoAssumption DEF Positions, Offsets
<1> QED
  BY <1>1, <1>2 DEF seqcmp, abs, Prev, At, incseqBy, SeqNumbers

\* The length between two numbers.
LEMMA LengthOf ==
  ASSUME NEW s \in Numbers, NEW t \in Numbers, Pos(s) <= Pos(t)
  PROVE  seqlen(s, t) = Pos(t) - Pos(s) + 1
<1>1. PICK p \in Positions, q \in Positions :
        s = At(p) /\ t = At(q) /\ p = Pos(s) /\ q = Pos(t)
  BY PositionOf
<1>2. ISN \in SeqNumbers /\ p \in Nat /\ q < m_iSeqNoTH - 1 /\ m_iSeqNoTH \in Nat
      /\ q \in Nat /\ p <= q
      /\ 2 * m_iSeqNoTH <= m_iMaxSeqNo /\ m_iMaxSeqNo \in Nat
  BY <1>1, Constants, Half, SeqNoAssumption DEF Positions, Offsets
<1>3. seqlen(s, t) = q - p + 1
  BY <1>1, <1>2 DEF seqlen, At, incseqBy, SeqNumbers
<1> QED
  BY <1>1, <1>3

\* A range of numbers is an interval of positions; it is empty if it ends before it begins.
LEMMA RangeOf ==
  ASSUME NEW s \in Numbers, NEW t \in Numbers
  PROVE  /\ SeqRange(s, t) \subseteq Numbers
         /\ \A x \in Numbers : x \in SeqRange(s, t) <=> Pos(s) <= Pos(x) /\ Pos(x) <= Pos(t)
<1>1. PICK p \in Positions, q \in Positions :
        s = At(p) /\ t = At(q) /\ p = Pos(s) /\ q = Pos(t)
  BY PositionOf
<1>2. CASE p <= q
  <2>1. SeqRange(s, t) = {At(n) : n \in p .. q}
    BY <1>1, <1>2, Constants, RangeIsInterval DEF At
  <2>2. \A n \in p .. q : n \in Positions
    BY Constants DEF Positions
  <2>3. SeqRange(s, t) \subseteq Numbers
    BY <2>1, <2>2 DEF Numbers
  <2>4. ASSUME NEW x \in Numbers
        PROVE  x \in SeqRange(s, t) <=> p <= Pos(x) /\ Pos(x) <= q
    <3>1. Pos(x) \in Positions /\ At(Pos(x)) = x /\ \A n \in p .. q : Pos(At(n)) = n
      BY <2>2, PositionOf, NumberAt
    <3> QED
      BY <2>1, <3>1 DEF Positions
  <2> QED
    BY <1>1, <2>3, <2>4
<1>3. CASE p > q
  <2>1. SeqRange(s, t) = {}
    BY <1>1, <1>3, Compare DEF SeqRange
  <2> QED
    BY <1>1, <1>3, <2>1, PositionOf DEF Positions
<1> QED
  BY <1>1, <1>2, <1>3 DEF Positions

\* A set of positions has a least one, and a greatest.
LEMMA Least ==
  ASSUME NEW S, S \subseteq Nat, S # {}
  PROVE  \E x \in S : \A y \in S : x <= y
<1> DEFINE R == {ss \in Nat \X Nat : ss[1] < ss[2]}
<1>1. IsWellFoundedOn(R, Nat)
  BY NatLessThanWellFounded DEF OpToRel
<1>2. \A x, y \in Nat : <<y, x>> \in R <=> y < x
  OBVIOUS
<1> HIDE DEF R
<1>3. PICK x \in S : \A y \in S : ~(<<y, x>> \in R)
  BY <1>1, WFMin
<1>4. ASSUME NEW y \in S PROVE x <= y
  <2>1. x \in Nat /\ y \in Nat
    OBVIOUS
  <2>2. ~(y < x)
    BY <1>2, <1>3, <2>1
  <2> QED
    BY <2>1, <2>2
<1> QED
  BY <1>4

\* FirstSeq is the number of the least position.
LEMMA FirstOf ==
  ASSUME NEW S, S \subseteq Numbers, S # {}
  PROVE  FirstSeq(S) \in S /\ \A t \in S : Pos(FirstSeq(S)) <= Pos(t)
<1> DEFINE P == {Pos(s) : s \in S}
<1>1. P \subseteq Nat /\ P # {} /\ \A t \in S : Pos(t) \in P
  BY PositionOf DEF Positions
<1>2. PICK s \in S : \A t \in S : Pos(s) <= Pos(t)
  <2>1. \A p \in P : \E s \in S : Pos(s) = p
    OBVIOUS
  <2> HIDE DEF P
  <2>2. PICK p \in P : \A q \in P : p <= q
    BY <1>1, Least
  <2> QED
    BY <1>1, <2>1, <2>2
<1>3. \E u \in S : \A t \in S : seqcmp(u, t) <= 0
  BY <1>2, Compare
<1>4. FirstSeq(S) \in S /\ \A t \in S : seqcmp(FirstSeq(S), t) <= 0
  BY <1>3 DEF FirstSeq
<1> QED
  BY <1>4, Compare

\* The remainders that occur: a position in the ring passes its end once at most.
LEMMA Wrap ==
  ASSUME NEW n \in Nat, n > 0, NEW x \in Int, 0 <= x, x < 2 * n
  PROVE  x % n = IF x < n THEN x ELSE x - n
  BY SMT

LEMMA NoMultiple ==
  ASSUME NEW n \in Nat, n > 0, NEW x \in Int, 0 - n < x, x < n, x % n = 0
  PROVE  x = 0
  BY SMT

-------------------------------------------------------------------------------
(* The invariant.                                                          *)

\* Where each side stands.
Order ==
  /\ lastBlock \in Positions /\ currBlock \in 0 .. lastBlock /\ firstBlock \in Positions
  /\ lastBlock - firstBlock <= SndBufSize
  /\ m_iSndLastDataAck = At(firstBlock)
  /\ m_iSndCurrSeqNo = Prev(currBlock)
  /\ m_iSndLastAck \in Numbers /\ m_iRcvLastAck \in Numbers /\ m_iRcvLastAckAck \in Numbers
  /\ m_iRcvCurrSeqNo = Prev(RcvNext) /\ RcvNext \in 0 .. currBlock
  /\ Pos(m_iRcvLastAckAck) <= firstBlock
  /\ firstBlock <= Pos(m_iSndLastAck) /\ Pos(m_iSndLastAck) <= Missing
  /\ firstBlock <= Pos(m_iRcvLastAck) /\ Pos(m_iRcvLastAck) <= Missing

\* What is on the loss lists.
SndLosses ==
  \A s \in m_pSndLossList : /\ s \in Numbers /\ firstBlock <= Pos(s) /\ Pos(s) < currBlock
                            /\ currBlock - Pos(s) <= PeerWindow
RcvLosses ==
  \A s \in m_pRcvLossList : /\ s \in Numbers /\ Pos(m_iRcvLastAck) <= Pos(s)
                            /\ Pos(s) < RcvNext

\* The window, which an ACK names and a light ACK shrinks.
Window ==
  /\ m_iFlowWindowSize \in Int /\ m_iFlowWindowSize <= PeerWindow
  /\ currBlock - Pos(m_iSndLastAck) <= PeerWindow

\* What the thread of CSndQueue has in hand.
Hand ==
  /\ hand.pc \in {"none", "lost", "packed"}
  /\ hand.pc # "none" => hand.seq \in Numbers /\ Pos(hand.seq) < currBlock
  /\ hand.pc = "packed" => hand.block = Pos(hand.seq) + 1

\* What is under way.  A block that was filled again goes out under a number that the
\* receiver has already acknowledged.
RcvMsg(m) ==
  /\ m.type \in {"data", "ack2", "shutdown"}
  /\ m.type = "data" => /\ m.seq \in Numbers /\ Pos(m.seq) < currBlock
                        /\ m.data = Pos(m.seq) + 1 \/ Pos(m.seq) < Pos(m_iRcvLastAck)
  /\ m.type = "ack2" => m.ack \in Numbers /\ Pos(m.ack) <= firstBlock
  /\ m.type = "shutdown" => sndState = "closed"
SndMsg(m) ==
  /\ m.type \in {"lite", "ack", "nak"}
  /\ m.type = "lite" => m.ack \in Numbers /\ Pos(m.ack) <= Missing
  /\ m.type = "ack" => /\ m.ack \in Numbers /\ Pos(m.ack) <= Pos(m_iRcvLastAck)
                       /\ m.window \in Int /\ m.window <= PeerWindow
  /\ m.type = "nak" => /\ m.lo \in Numbers /\ m.hi \in Numbers
                       /\ Pos(m.lo) <= Pos(m.hi) /\ Pos(m.hi) < RcvNext
ToRcvOK == \A m \in toRcv : RcvMsg(m)
ToSndOK == \A m \in toSnd : SndMsg(m)

\* The ring of the receiver: the slot q is Dist(q) further than the one to be read next, and
\* has the block of the position that it stands for, if that was received.
Dist(q) == IF q >= m_iStartPos THEN q - m_iStartPos ELSE q - m_iStartPos + RcvBufSize
Have(p) == p < RcvNext /\ At(p) \notin m_pRcvLossList
Slots == 0 .. RcvBufSize - 1
Ring ==
  /\ m_iStartPos \in Slots /\ m_iLastAckPos \in Slots
  /\ NRead <= Pos(m_iRcvLastAck) /\ RcvNext <= NRead + RcvBufSize - 1
  /\ Dist(m_iLastAckPos) = Pos(m_iRcvLastAck) - NRead
  /\ m_pUnit \in [Slots -> Nat]
  /\ \A q \in Slots :
       m_pUnit[q] = IF Have(NRead + Dist(q)) THEN NRead + Dist(q) + 1 ELSE NoBlock
  /\ readBlocks \in Seq(Nat) /\ \A i \in 1 .. NRead : readBlocks[i] = i

\* How the connection ends.
Ends ==
  /\ sndState \in {"up", "broken", "closed"}
  /\ appPc \in {"idle", "update"} /\ ackPc \in {"idle", "update"}
  /\ {onSndUList, lingered, rcvBroken, rcvGaveUp, eof} \subseteq BOOLEAN
  /\ lingered => sndState = "closed"
  /\ sndState = "closed" /\ ~lingered => firstBlock = lastBlock
  /\ rcvBroken => rcvGaveUp \/ sndState # "up"
  /\ rcvGaveUp => rcvBroken

UdtInv ==
  Order /\ SndLosses /\ RcvLosses /\ Window /\ Hand /\ ToRcvOK /\ ToSndOK /\ Ring /\ Ends
-------------------------------------------------------------------------------
(* What follows from it at once.                                           *)

\* What an ACK would say: the number of the first position that is missing.
LEMMA FirstMissing ==
  ASSUME NEW loss, NEW curr, NEW r \in Positions, curr = Prev(r),
         \A s \in loss : s \in Numbers /\ Pos(s) < r,
         NEW ack, ack = IF loss = {} THEN incseq(curr) ELSE FirstSeq(loss)
  PROVE  /\ ack \in Numbers /\ Pos(ack) <= r
         /\ loss = {} => Pos(ack) = r
         /\ loss # {} => ack \in loss
         /\ \A s \in loss : Pos(ack) <= Pos(s)
<1>1. incseq(curr) = At(r)
  BY NextOf
<1>2. CASE loss = {}
  BY <1>1, <1>2, NumberAt, Constants DEF Positions
<1>3. CASE loss # {}
  <2>1. ack \in loss /\ \A s \in loss : Pos(ack) <= Pos(s)
    BY <1>3, FirstOf
  <2> QED
    BY <1>3, <2>1, PositionOf, Constants DEF Positions
<1> QED
  BY <1>2, <1>3

\* Where things are, as integers.
LEMMA Where ==
  ASSUME Order, RcvLosses
  PROVE  /\ NBlocks \in Nat
         /\ lastBlock \in Positions /\ currBlock \in Positions /\ firstBlock \in Positions
         /\ RcvNext \in Positions /\ Missing \in Positions
         /\ Pos(m_iSndLastAck) \in Positions /\ Pos(m_iRcvLastAck) \in Positions
         /\ Pos(m_iRcvLastAckAck) \in Positions
         /\ m_iSndLastDataAck \in Numbers /\ Pos(m_iSndLastDataAck) = firstBlock
         /\ incseq(m_iSndCurrSeqNo) = At(currBlock) /\ incseq(m_iRcvCurrSeqNo) = At(RcvNext)
         /\ AckNumber \in Numbers /\ Missing <= RcvNext
         /\ \A s \in m_pRcvLossList : Missing <= Pos(s)
<1>1. /\ NBlocks \in Nat
      /\ lastBlock \in Positions /\ currBlock \in Positions /\ firstBlock \in Positions
      /\ RcvNext \in Positions
  BY Constants DEF Order, Positions
<1>2. /\ AckNumber \in Numbers /\ Missing <= RcvNext
      /\ \A s \in m_pRcvLossList : Missing <= Pos(s)
  <2>1. PICK loss, curr, r, ack : /\ loss = m_pRcvLossList /\ curr = m_iRcvCurrSeqNo
                                  /\ r = RcvNext /\ ack = AckNumber
    OBVIOUS
  <2>2. r \in Positions /\ curr = Prev(r) /\ \A s \in loss : s \in Numbers /\ Pos(s) < r
    BY <1>1, <2>1 DEF Order, RcvLosses
  <2>3. ack = IF loss = {} THEN incseq(curr) ELSE FirstSeq(loss)
    BY <2>1 DEF AckNumber
  <2>4. ack \in Numbers /\ Pos(ack) <= r /\ \A s \in loss : Pos(ack) <= Pos(s)
    BY <2>2, <2>3, FirstMissing
  <2> QED
    BY <2>1, <2>4 DEF Missing
<1>3. Missing \in Positions
  BY <1>2, PositionOf DEF Missing
<1>4. /\ Pos(m_iSndLastAck) \in Positions /\ Pos(m_iRcvLastAck) \in Positions
      /\ Pos(m_iRcvLastAckAck) \in Positions
  BY PositionOf DEF Order
<1>5. m_iSndLastDataAck \in Numbers /\ Pos(m_iSndLastDataAck) = firstBlock
  BY <1>1, NumberAt DEF Order
<1>6. incseq(m_iSndCurrSeqNo) = At(currBlock) /\ incseq(m_iRcvCurrSeqNo) = At(RcvNext)
  BY <1>1, NextOf DEF Order
<1> QED
  BY <1>1, <1>2, <1>3, <1>4, <1>5, <1>6

\* What is put in the network joins what is there.
LEMMA PutAdds ==
  ASSUME NEW net, NEW there, NEW m, NEW new \in Put(net, there, m)
  PROVE  new \subseteq net \cup {m}
  BY DEF Put

LEMMA TakenLeaves ==
  ASSUME NEW net, NEW m, NEW new \in Taken(net, m)
  PROVE  new \subseteq net
  BY DEF Taken

\* How they are ordered.
LEMMA Chain ==
  ASSUME Order, RcvLosses
  PROVE  /\ lastBlock \in Int /\ currBlock \in Int /\ firstBlock \in Int /\ RcvNext \in Int
         /\ Missing \in Int /\ Pos(m_iSndLastAck) \in Int /\ Pos(m_iRcvLastAck) \in Int
         /\ Pos(m_iRcvLastAckAck) \in Int
         /\ 0 <= Pos(m_iRcvLastAckAck) /\ Pos(m_iRcvLastAckAck) <= firstBlock
         /\ firstBlock <= Pos(m_iSndLastAck) /\ Pos(m_iSndLastAck) <= Missing
         /\ firstBlock <= Pos(m_iRcvLastAck) /\ Pos(m_iRcvLastAck) <= Missing
         /\ Missing <= RcvNext /\ RcvNext <= currBlock
         /\ currBlock <= lastBlock /\ lastBlock <= NBlocks
  BY Where DEF Positions, Order

\* A datagram under way stays true as both sides go on.
LEMMA ToRcvStays ==
  ASSUME Order, RcvLosses, ToRcvOK,
         currBlock' \in Int, firstBlock' \in Int, Pos(m_iRcvLastAck') \in Int,
         currBlock <= currBlock', firstBlock <= firstBlock',
         Pos(m_iRcvLastAck) <= Pos(m_iRcvLastAck'),
         sndState = "closed" => sndState' = "closed"
  PROVE  \A x \in toRcv : RcvMsg(x)'
<1> SUFFICES ASSUME NEW x \in toRcv PROVE RcvMsg(x)'
  OBVIOUS
<1>1. RcvMsg(x)
  BY DEF ToRcvOK
<1>2. currBlock \in Int /\ firstBlock \in Int /\ Pos(m_iRcvLastAck) \in Int
  BY Chain
<1>3. x.type = "data" => Pos(x.seq) \in Nat
  BY <1>1, PositionOf DEF RcvMsg, Positions
<1>4. x.type = "ack2" => Pos(x.ack) \in Nat
  BY <1>1, PositionOf DEF RcvMsg, Positions
<1>5. x.type = "data" => /\ Pos(x.seq) < currBlock'
                         /\ x.data = Pos(x.seq) + 1 \/ Pos(x.seq) < Pos(m_iRcvLastAck')
  BY <1>1, <1>2, <1>3 DEF RcvMsg
<1>6. x.type = "ack2" => Pos(x.ack) <= firstBlock'
  BY <1>1, <1>2, <1>4 DEF RcvMsg
<1> QED
  BY <1>1, <1>5, <1>6 DEF RcvMsg

LEMMA ToSndStays ==
  ASSUME Order, RcvLosses, ToSndOK,
         Missing' \in Int, RcvNext' \in Int, Pos(m_iRcvLastAck') \in Int,
         Missing <= Missing', RcvNext <= RcvNext',
         Pos(m_iRcvLastAck) <= Pos(m_iRcvLastAck')
  PROVE  \A x \in toSnd : SndMsg(x)'
<1> SUFFICES ASSUME NEW x \in toSnd PROVE SndMsg(x)'
  OBVIOUS
<1>1. SndMsg(x)
  BY DEF ToSndOK
<1>2. Missing \in Int /\ RcvNext \in Int /\ Pos(m_iRcvLastAck) \in Int
  BY Chain
<1>3. x.type \in {"lite", "ack"} => Pos(x.ack) \in Nat
  BY <1>1, PositionOf DEF SndMsg, Positions
<1>4. x.type = "nak" => Pos(x.hi) \in Nat
  BY <1>1, PositionOf DEF SndMsg, Positions
<1>5. /\ x.type = "lite" => Pos(x.ack) <= Missing'
      /\ x.type = "ack" => Pos(x.ack) <= Pos(m_iRcvLastAck')
  BY <1>1, <1>2, <1>3 DEF SndMsg
<1>6. x.type = "nak" => Pos(x.hi) < RcvNext'
  BY <1>1, <1>2, <1>4 DEF SndMsg
<1> QED
  BY <1>1, <1>5, <1>6 DEF SndMsg

\* The ring: what is k slots further than m_iLastAckPos stands for the position k further than
\* what was acknowledged, and no two slots for the same.
LEMMA RingStep ==
  ASSUME Order, RcvLosses, Ring, NEW k \in Nat, Pos(m_iRcvLastAck) - NRead + k <= RcvBufSize - 1
  PROVE  /\ (m_iLastAckPos + k) % RcvBufSize \in Slots
         /\ NRead + Dist((m_iLastAckPos + k) % RcvBufSize) = Pos(m_iRcvLastAck) + k
<1>1. PICK s, l, n, d, r, a : /\ s = m_iStartPos /\ l = m_iLastAckPos /\ n = RcvBufSize
                              /\ d = Dist(m_iLastAckPos) /\ r = NRead /\ a = Pos(m_iRcvLastAck)
  OBVIOUS
<1>2. n \in Nat /\ n > 0 /\ s \in 0 .. n - 1 /\ l \in 0 .. n - 1 /\ r \in Nat /\ a \in Int
  <2>1. r \in Nat
    BY <1>1, LenProperties DEF Ring, NRead
  <2> QED
    BY <1>1, <2>1, Constants, Chain DEF Ring, Slots
<1>3. d = a - r /\ d + k <= n - 1 /\ d = IF l >= s THEN l - s ELSE l - s + n
  BY <1>1, <1>2 DEF Ring, Dist
<1>4. PICK x \in Nat : x = l + k
  BY <1>2
<1>5. x < 2 * n
  BY <1>2, <1>3, <1>4
<1>6. x % n = IF x < n THEN x ELSE x - n
  BY <1>2, <1>5, Wrap
<1>7. PICK y \in Int : y = x % n /\ y = IF x < n THEN x ELSE x - n
  BY <1>2, <1>6
<1>8. y \in 0 .. n - 1 /\ r + (IF y >= s THEN y - s ELSE y - s + n) = a + k
  BY <1>2, <1>3, <1>4, <1>5, <1>7
<1> QED
  BY <1>1, <1>4, <1>7, <1>8 DEF Slots, Dist

LEMMA DistApart ==
  ASSUME Ring, NEW q \in Slots
  PROVE  /\ Dist(q) \in 0 .. RcvBufSize - 1
         /\ \A t \in Slots : Dist(q) = Dist(t) => q = t
  BY Constants DEF Dist, Slots, Ring

\* recv() takes the block that is next.
LEMMA ReadsNext ==
  ASSUME Order, RcvLosses, Ring, AppRead
  PROVE  /\ NRead \in Nat /\ NRead < Pos(m_iRcvLastAck) /\ Dist(m_iStartPos) = 0
         /\ readBlocks' = Append(readBlocks, NRead + 1) /\ NRead' = NRead + 1
<1>1. PICK s, r, n : s = m_iStartPos /\ r = NRead /\ n = RcvBufSize
  OBVIOUS
<1>2. s \in 0 .. n - 1 /\ r \in Nat /\ n \in Nat /\ n > 1
  BY <1>1, LenProperties, Constants DEF Ring, Slots, NRead
<1>3. r < Pos(m_iRcvLastAck) /\ Dist(s) = 0
  <2>1. Dist(m_iLastAckPos) > 0
    BY Constants DEF AppRead, getRcvDataSize, Dist, Ring, Slots
  <2>2. Dist(m_iLastAckPos) = Pos(m_iRcvLastAck) - r
    BY <1>1 DEF Ring
  <2>3. r < Pos(m_iRcvLastAck)
    BY <1>2, <2>1, <2>2, Chain
  <2>4. s >= s /\ s - s = 0
    BY <1>2
  <2>5. Dist(s) = 0
    BY <1>1, <2>4 DEF Dist
  <2> QED
    BY <2>3, <2>5
<1>4. Have(r)
  BY <1>2, <1>3, Chain, Where, Constants, NumberAt DEF Have, Positions
<1>5. m_pUnit[s] = r + 1
  <2>1. s \in Slots /\ r + Dist(s) = r
    BY <1>1, <1>2, <1>3 DEF Slots
  <2> QED
    BY <1>1, <1>4, <2>1 DEF Ring
<1>6. readBlocks' = Append(readBlocks, r + 1)
  BY <1>1, <1>5 DEF AppRead
<1>7. NRead' = r + 1
  BY <1>1, <1>2, <1>6, AppendProperties DEF Ring, NRead
<1> QED
  BY <1>1, <1>2, <1>3, <1>6, <1>7

-------------------------------------------------------------------------------
(* Every action keeps it.                                                  *)

LEMMA SendKeeps ==
  ASSUME UdtInv, Send
  PROVE  UdtInv'
<1> USE DEF UdtInv, appVars, sndVars, netVars, rcvVars
<1>1. SndLosses' /\ RcvLosses' /\ Window' /\ Hand' /\ ToRcvOK' /\ ToSndOK' /\ Ring'
  BY DEF Send, CurrBufSize, SndLosses, RcvLosses, Window, Hand, ToRcvOK, ToSndOK, Ring,
         RcvNext, Missing, NRead, AckNumber, RcvMsg, SndMsg, Dist, Have
<1>2. Order'
  BY Where, Constants DEF Send, CurrBufSize, Order, RcvNext, Missing, NRead, AckNumber,
         Positions
<1>3. Ends'
  BY Where, Constants DEF Send, CurrBufSize, Ends, Positions
<1> QED
  BY <1>1, <1>2, <1>3

LEMMA SendUpdateKeeps ==
  ASSUME UdtInv, SendUpdate
  PROVE  UdtInv'
<1> USE DEF UdtInv, appVars, sndVars, netVars, rcvVars
<1>1. Order' /\ SndLosses' /\ RcvLosses' /\ Window' /\ Hand' /\ ToRcvOK' /\ ToSndOK' /\ Ring'
  BY DEF SendUpdate, Order, SndLosses, RcvLosses, Window, Hand, ToRcvOK, ToSndOK, Ring,
         RcvNext, Missing, NRead, AckNumber, RcvMsg, SndMsg, Dist, Have
<1>2. Ends'
  BY Where, Constants DEF SendUpdate, Ends, Positions
<1> QED
  BY <1>1, <1>2

LEMMA CloseKeeps ==
  ASSUME UdtInv, Close
  PROVE  UdtInv'
<1> USE DEF UdtInv, appVars, sndVars, netVars, rcvVars
<1>1. Order' /\ SndLosses' /\ RcvLosses' /\ Window' /\ Hand' /\ Ring'
  BY DEF Close, ToRcv, ToSnd, CurrBufSize, Order, SndLosses, RcvLosses, Window, Hand, Ring,
         RcvNext, Missing, NRead, AckNumber, Dist, Have
<1>2. ToRcvOK'
  <2>1. \A x \in toRcv : RcvMsg(x)'
    BY Chain, ToRcvStays DEF Close
  <2>2. PICK n : n = [type |-> "shutdown"] /\ toRcv' \in ToRcv(n)
    BY DEF Close
  <2>3. RcvMsg(n)'
    BY <2>2 DEF Close, RcvMsg
  <2>4. toRcv' \subseteq toRcv \cup {n}
    BY <2>2, PutAdds DEF ToRcv
  <2> QED
    BY <2>1, <2>3, <2>4 DEF ToRcvOK
<1>3. ToSndOK'
  BY Where, Constants DEF Close, ToRcv, ToSnd, CurrBufSize, ToSndOK, SndMsg, RcvNext,
         Missing, NRead, AckNumber, RcvMsg, Positions
<1>4. Ends'
  <2>1. firstBlock \in Int /\ lastBlock \in Int /\ firstBlock <= lastBlock
    BY Chain
  <2>2. ~lingered' => firstBlock = lastBlock
    <3>1. ~lingered' => ~(CurrBufSize > 0)
      BY Zenon DEF Close
    <3> QED
      BY <2>1, <3>1 DEF CurrBufSize
  <2>3. lingered' \in BOOLEAN /\ sndState' = "closed" /\ onSndUList' = FALSE
    BY DEF Close
  <2> QED
    BY <2>2, <2>3 DEF Close, Ends
<1> QED
  BY <1>1, <1>2, <1>3, <1>4

LEMMA PopLostKeeps ==
  ASSUME UdtInv, PopLost
  PROVE  UdtInv'
<1> USE DEF UdtInv, appVars, sndVars, netVars, rcvVars
<1>1. Order' /\ RcvLosses' /\ Window' /\ ToRcvOK' /\ ToSndOK' /\ Ring'
  BY DEF PopLost, Order, RcvLosses, Window, ToRcvOK, ToSndOK, Ring, RcvNext, Missing, NRead,
         AckNumber, RcvMsg, SndMsg, Dist, Have
<1>2. SndLosses'
  BY Where, Constants DEF PopLost, SndLosses, RcvNext, Missing, NRead, AckNumber, Positions
<1>3. Hand'
  <2>1. m_pSndLossList \subseteq Numbers
    BY DEF SndLosses
  <2>2. FirstSeq(m_pSndLossList) \in m_pSndLossList
    BY <2>1, FirstOf DEF PopLost
  <2> QED
    BY <2>2 DEF PopLost, Hand, SndLosses
<1>4. Ends'
  BY Where, Constants DEF PopLost, Ends, Positions
<1> QED
  BY <1>1, <1>2, <1>3, <1>4

LEMMA PackLostKeeps ==
  ASSUME UdtInv, PackLost
  PROVE  UdtInv'
<1> USE DEF UdtInv, appVars, sndVars, netVars, rcvVars
<1>1. Order' /\ SndLosses' /\ RcvLosses' /\ Window' /\ ToRcvOK' /\ ToSndOK' /\ Ring'
  BY DEF PackLost, Order, SndLosses, RcvLosses, Window, ToRcvOK, ToSndOK, Ring, RcvNext,
         Missing, NRead, AckNumber, RcvMsg, SndMsg, Dist, Have
<1>2. Hand'
  <2>1. hand.pc = "lost" /\ hand.seq \in Numbers /\ Pos(hand.seq) < currBlock
    BY DEF PackLost, Hand
  <2>2. seqoff(m_iSndLastDataAck, hand.seq) = Pos(hand.seq) - firstBlock
    BY <2>1, Where, Compare
  <2>3. Pos(hand.seq) \in Int /\ firstBlock \in Int
    BY <2>1, PositionOf, Chain DEF Positions
  <2>4. firstBlock + seqoff(m_iSndLastDataAck, hand.seq) + 1 = Pos(hand.seq) + 1
    BY <2>2, <2>3
  <2> QED
    BY <2>1, <2>4 DEF PackLost, Hand
<1>3. Ends'
  BY Where, Constants DEF PackLost, Ends, Positions
<1> QED
  BY <1>1, <1>2, <1>3

LEMMA PopNewKeeps ==
  ASSUME UdtInv, PopNew
  PROVE  UdtInv'
<1> USE DEF UdtInv, appVars, sndVars, netVars, rcvVars
<1>a. currBlock \in Int /\ currBlock' = currBlock + 1 /\ currBlock' \in 0 .. lastBlock
      /\ currBlock' \in Positions /\ currBlock \in Positions
  BY Where, Chain, Constants DEF PopNew, Positions, Order
<1>b. m_iSndCurrSeqNo' = At(currBlock) /\ m_iSndCurrSeqNo' = Prev(currBlock')
  BY <1>a, Where, Chain DEF PopNew, Prev
<1>1. RcvLosses' /\ Ring' /\ Ends'
  BY DEF PopNew, WindowOpen, RcvLosses, Ring, Ends, RcvNext, Missing, NRead, AckNumber,
         Dist, Have
<1>2. Order'
  BY <1>a, <1>b DEF PopNew, Order, RcvNext, Missing, AckNumber
<1>3. SndLosses'
  BY Where, Constants DEF PopNew, WindowOpen, SndLosses, RcvNext, Missing, NRead, AckNumber,
         Positions
<1>4. Window'
  <2>1. At(currBlock) \in Numbers /\ Pos(At(currBlock)) = currBlock
    BY <1>a, NumberAt
  <2>2. m_iSndLastAck \in Numbers /\ Pos(m_iSndLastAck) \in Int /\ Pos(m_iSndLastAck) <= currBlock
    BY Chain DEF Order
  <2>3. seqlen(m_iSndLastAck, At(currBlock)) = currBlock - Pos(m_iSndLastAck) + 1
    BY <2>1, <2>2, LengthOf
  <2>4. m_iFlowWindowSize >= currBlock - Pos(m_iSndLastAck) + 1
    BY <2>3, Where DEF PopNew, WindowOpen
  <2> QED
    BY <1>a, <2>2, <2>4, Constants DEF PopNew, Window
<1>5. Hand'
  <2>1. At(currBlock) \in Numbers /\ Pos(At(currBlock)) = currBlock
    BY <1>a, NumberAt
  <2> QED
    BY <1>a, <1>b, <2>1 DEF PopNew, Hand
<1>6. ToRcvOK'
  <2>1. \A x \in toRcv : RcvMsg(x)'
    BY <1>a, Chain, ToRcvStays DEF PopNew
  <2> QED
    BY <2>1 DEF PopNew, ToRcvOK
<1>7. ToSndOK'
  BY Where, Constants DEF PopNew, WindowOpen, ToSndOK, SndMsg, RcvNext, Missing, NRead,
         AckNumber, RcvMsg, Positions
<1> QED
  BY <1>1, <1>2, <1>3, <1>4, <1>5, <1>6, <1>7

LEMMA PopNothingKeeps ==
  ASSUME UdtInv, PopNothing
  PROVE  UdtInv'
<1> USE DEF UdtInv, appVars, sndVars, netVars, rcvVars
<1>1. Order' /\ SndLosses' /\ RcvLosses' /\ Window' /\ Hand' /\ ToRcvOK' /\ ToSndOK' /\ Ring'
  BY DEF PopNothing, WindowOpen, Order, SndLosses, RcvLosses, Window, Hand, ToRcvOK,
         ToSndOK, Ring, RcvNext, Missing, NRead, AckNumber, RcvMsg, SndMsg, Dist, Have
<1>2. Ends'
  BY Where, Constants DEF PopNothing, WindowOpen, Ends, Positions
<1> QED
  BY <1>1, <1>2

LEMMA SendToKeeps ==
  ASSUME UdtInv, SendTo
  PROVE  UdtInv'
<1> USE DEF UdtInv, appVars, sndVars, netVars, rcvVars
<1>1. Order' /\ SndLosses' /\ RcvLosses' /\ Window' /\ Ring' /\ Ends'
  BY DEF SendTo, ToRcv, ToSnd, Order, SndLosses, RcvLosses, Window, Ring, Ends, RcvNext,
         Missing, NRead, AckNumber, Dist, Have
<1>2. Hand'
  BY Where, Constants DEF SendTo, ToRcv, ToSnd, Hand, Positions
<1>3. ToRcvOK'
  <2>1. \A x \in toRcv : RcvMsg(x)'
    BY Chain, ToRcvStays DEF SendTo
  <2>2. PICK b, n : /\ b = hand.block
                    /\ n = [type |-> "data", seq |-> hand.seq, data |-> Memory(b)]
                    /\ toRcv' \in ToRcv(n)
    BY DEF SendTo
  <2>3. /\ n.type = "data" /\ n.data = Memory(b) /\ n.seq \in Numbers /\ Pos(n.seq) \in Nat
        /\ Pos(n.seq) < currBlock /\ b = Pos(n.seq) + 1
    <3>1. hand.seq \in Numbers /\ Pos(hand.seq) < currBlock /\ b = Pos(hand.seq) + 1
      BY <2>2 DEF SendTo, Hand
    <3> QED
      BY <2>2, <3>1, PositionOf DEF Positions
  <2>4. n.data = Pos(n.seq) + 1 \/ Pos(n.seq) < Pos(m_iRcvLastAck)
    <3>1. /\ SndBufSize \in Nat /\ lastBlock \in Int /\ firstBlock \in Int
          /\ lastBlock - firstBlock <= SndBufSize /\ b \in Int /\ b <= lastBlock
          /\ firstBlock <= Pos(m_iRcvLastAck) /\ Pos(m_iRcvLastAck) \in Int
      BY <2>3, Chain, Constants DEF Order
    <3>2. CASE b > lastBlock - RingSize
      <4>1. RingSize \in Nat /\ RingSize > 0 /\ b \in (lastBlock - RingSize + 1) .. lastBlock
        BY <3>1, <3>2 DEF RingSize
      <4>2. (b - b) % RingSize = 0
        BY <4>1
      <4>3. ASSUME NEW c \in (lastBlock - RingSize + 1) .. lastBlock, (c - b) % RingSize = 0
            PROVE  c = b
        <5>1. PICK x \in Int : x = c - b
          BY <3>1, <4>1
        <5>2. 0 - RingSize < x /\ x < RingSize
          BY <3>1, <4>1, <5>1
        <5>3. x = 0
          BY <4>1, <4>3, <5>1, <5>2, NoMultiple
        <5> QED
          BY <3>1, <4>1, <5>1, <5>3
      <4>4. (CHOOSE c \in (lastBlock - RingSize + 1) .. lastBlock : (c - b) % RingSize = 0) = b
        BY <4>1, <4>2, <4>3
      <4>5. Memory(b) = b
        BY <3>1, <4>4 DEF Memory
      <4> QED
        BY <2>3, <4>5
    <3>3. CASE ~(b > lastBlock - RingSize)
      BY <2>3, <3>1, <3>3 DEF RingSize
    <3> QED
      BY <3>2, <3>3
  <2>5. RcvMsg(n)'
    BY <2>3, <2>4 DEF SendTo, RcvMsg
  <2>6. toRcv' \subseteq toRcv \cup {n}
    BY <2>2, PutAdds DEF ToRcv
  <2> QED
    BY <2>1, <2>5, <2>6 DEF ToRcvOK
<1>4. ToSndOK'
  BY Where, Constants DEF SendTo, ToRcv, ToSnd, ToSndOK, SndMsg, RcvNext, Missing, NRead,
         AckNumber, RcvMsg, Positions
<1> QED
  BY <1>1, <1>2, <1>3, <1>4

LEMMA RecvLiteKeeps ==
  ASSUME UdtInv, NEW m, RecvLite(m)
  PROVE  UdtInv'
<1> USE DEF UdtInv, appVars, sndVars, netVars, rcvVars
<1>a. m.ack \in Numbers /\ Pos(m.ack) \in Int /\ Pos(m.ack) <= Missing
  <2>1. m.ack \in Numbers /\ Pos(m.ack) <= Missing
    BY DEF RecvLite, ToSndOK, SndMsg
  <2> QED
    BY <2>1, PositionOf DEF Positions
<1>b. /\ seqcmp(m.ack, m_iSndLastAck) >= 0 <=> Pos(m.ack) >= Pos(m_iSndLastAck)
      /\ seqoff(m_iSndLastAck, m.ack) = Pos(m.ack) - Pos(m_iSndLastAck)
  BY <1>a, Compare DEF Order
<1>1. SndLosses' /\ RcvLosses' /\ Hand' /\ Ring' /\ Ends'
  BY DEF RecvLite, SndListens, SndLosses, RcvLosses, Hand, Ring, Ends, RcvNext, Missing,
         NRead, AckNumber, Dist, Have
<1>2. Order'
  <2>1. /\ m_iSndLastAck' \in Numbers
        /\ firstBlock <= Pos(m_iSndLastAck') /\ Pos(m_iSndLastAck') <= Missing
    BY <1>a, <1>b, Chain DEF RecvLite, Order
  <2> QED
    BY <2>1 DEF RecvLite, Order, RcvNext, Missing, AckNumber
<1>3. Window'
  BY <1>a, <1>b, Chain, Constants DEF RecvLite, Window
<1>4. ToRcvOK'
  BY Where, Constants DEF RecvLite, SndListens, ToRcvOK, RcvMsg, RcvNext, Missing, NRead,
         AckNumber, SndMsg, Positions
<1>5. ToSndOK'
  <2>1. RcvNext' = RcvNext /\ Missing' = Missing
    BY DEF RecvLite, RcvNext, Missing, AckNumber
  <2>2. \A x \in toSnd : SndMsg(x)'
    BY <2>1, Chain, ToSndStays DEF RecvLite
  <2>3. toSnd' \subseteq toSnd
    BY TakenLeaves DEF RecvLite
  <2> QED
    BY <2>2, <2>3 DEF ToSndOK
<1> QED
  BY <1>1, <1>2, <1>3, <1>4, <1>5

LEMMA RecvAckKeeps ==
  ASSUME UdtInv, NEW m, RecvAck(m)
  PROVE  UdtInv'
<1> USE DEF UdtInv, appVars, sndVars, netVars, rcvVars
<1>a. /\ SndListens /\ m \in toSnd
      /\ m.ack \in Numbers /\ Pos(m.ack) \in Positions /\ Pos(m.ack) \in Int
      /\ Pos(m.ack) <= Pos(m_iRcvLastAck) /\ m.window \in Int /\ m.window <= PeerWindow
  <2>1. /\ m.ack \in Numbers /\ Pos(m.ack) <= Pos(m_iRcvLastAck)
        /\ m.window \in Int /\ m.window <= PeerWindow
    BY DEF RecvAck, ToSndOK, SndMsg
  <2> QED
    BY <2>1, PositionOf DEF Positions, RecvAck
<1>b. seqcmp(m.ack, incseq(m_iSndCurrSeqNo)) <= 0
  <2>1. At(currBlock) \in Numbers /\ Pos(At(currBlock)) = currBlock
    BY Where, NumberAt
  <2> QED
    BY <1>a, <2>1, Where, Chain, Compare
<1>c. IsNewer(m.ack) <=> Pos(m.ack) >= Pos(m_iSndLastAck)
  BY <1>a, Compare DEF Order, IsNewer
<1>d. seqoff(m_iSndLastDataAck, m.ack) = Pos(m.ack) - firstBlock
  BY <1>a, Where, Compare
<1>e. /\ sndState' = sndState
      /\ m_iFlowWindowSize' \in {m_iFlowWindowSize, m.window}
      /\ m_iSndLastAck' = IF Pos(m.ack) >= Pos(m_iSndLastAck) THEN m.ack ELSE m_iSndLastAck
  BY <1>b, <1>c DEF RecvAck
<1>f. /\ firstBlock' = IF Pos(m.ack) > firstBlock THEN Pos(m.ack) ELSE firstBlock
      /\ m_iSndLastDataAck' = IF Pos(m.ack) > firstBlock THEN m.ack ELSE m_iSndLastDataAck
      /\ \A s \in m_pSndLossList' : /\ s \in m_pSndLossList
                                    /\ Pos(m.ack) > firstBlock => seqcmp(s, m.ack) >= 0
  <2>1. PICK o \in Int : o = seqoff(m_iSndLastDataAck, m.ack) /\ o = Pos(m.ack) - firstBlock
    BY <1>a, <1>d, Chain
  <2>2. /\ firstBlock' = IF o > 0 THEN firstBlock + o ELSE firstBlock
        /\ m_iSndLastDataAck' = IF o > 0 THEN m.ack ELSE m_iSndLastDataAck
        /\ m_pSndLossList' = IF o > 0 THEN {s \in m_pSndLossList : seqcmp(s, m.ack) >= 0}
                             ELSE m_pSndLossList
    BY <1>b, <2>1 DEF RecvAck
  <2>3. (o > 0) <=> (Pos(m.ack) > firstBlock)
    BY <1>a, <2>1, Chain
  <2>4. firstBlock' = IF Pos(m.ack) > firstBlock THEN Pos(m.ack) ELSE firstBlock
    BY <1>a, <2>1, <2>2, <2>3, Chain
  <2> QED
    BY <2>2, <2>3, <2>4
<1>g. /\ firstBlock' \in Positions /\ firstBlock' \in Int /\ firstBlock <= firstBlock'
      /\ Pos(m.ack) <= firstBlock' /\ firstBlock' <= lastBlock
      /\ firstBlock' <= Pos(m_iRcvLastAck) /\ firstBlock' <= Pos(m_iSndLastAck')
      /\ m_iSndLastDataAck' = At(firstBlock') /\ m_iSndLastAck' \in Numbers
      /\ Pos(m_iSndLastAck') \in Int /\ Pos(m_iSndLastAck) <= Pos(m_iSndLastAck')
      /\ Pos(m_iSndLastAck') <= Missing
  <2>1. m.ack = At(Pos(m.ack)) /\ m_iSndLastDataAck = At(firstBlock)
    BY <1>a, PositionOf DEF Order
  <2>2. m_iSndLastAck' \in Numbers
    BY <1>a, <1>e DEF Order
  <2> QED
    BY <1>a, <1>e, <1>f, <2>1, <2>2, Chain, Where
<1>1. RcvLosses' /\ Hand' /\ Ring'
  BY DEF RecvAck, ToRcv, ToSnd, SndListens, IsNewer, RcvLosses, Hand, Ring, RcvNext,
         Missing, NRead, AckNumber, Dist, Have
<1>2. Order'
  <2>1. lastBlock - firstBlock' <= SndBufSize
    <3>1. lastBlock - firstBlock <= SndBufSize
      BY DEF Order
    <3> QED
      BY <1>g, <3>1, Chain, Constants
  <2>2. Pos(m_iRcvLastAckAck) <= firstBlock'
    BY <1>g, Chain
  <2> QED
    BY <1>g, <2>1, <2>2 DEF RecvAck, Order, RcvNext, Missing, AckNumber
<1>3. SndLosses'
  <2> SUFFICES ASSUME NEW s \in m_pSndLossList'
               PROVE  /\ s \in Numbers /\ firstBlock' <= Pos(s) /\ Pos(s) < currBlock
                      /\ currBlock - Pos(s) <= PeerWindow
    BY DEF RecvAck, SndLosses
  <2>1. s \in m_pSndLossList /\ (Pos(m.ack) > firstBlock => seqcmp(s, m.ack) >= 0)
    BY <1>f
  <2>2. /\ s \in Numbers /\ firstBlock <= Pos(s) /\ Pos(s) < currBlock
        /\ currBlock - Pos(s) <= PeerWindow
    BY <2>1 DEF SndLosses
  <2>3. Pos(m.ack) > firstBlock => Pos(s) >= Pos(m.ack)
    BY <1>a, <2>1, <2>2, Compare
  <2> QED
    BY <1>f, <2>2, <2>3
<1>4. Window'
  BY <1>a, <1>e, <1>g, Chain, Constants DEF RecvAck, Window
<1>5. ToRcvOK'
  <2>1. \A x \in toRcv : RcvMsg(x)'
    BY <1>e, <1>g, Chain, ToRcvStays DEF RecvAck
  <2>2. PICK n : n = [type |-> "ack2", ack |-> m.ack] /\ toRcv' \in ToRcv(n)
    BY DEF RecvAck
  <2>3. RcvMsg(n)'
    BY <1>a, <1>g, <2>2 DEF RcvMsg
  <2>4. toRcv' \subseteq toRcv \cup {n}
    BY <2>2, PutAdds DEF ToRcv
  <2> QED
    BY <2>1, <2>3, <2>4 DEF ToRcvOK
<1>6. ToSndOK'
  <2>1. RcvNext' = RcvNext /\ Missing' = Missing
    BY DEF RecvAck, RcvNext, Missing, AckNumber
  <2>2. \A x \in toSnd : SndMsg(x)'
    BY <2>1, Chain, ToSndStays DEF RecvAck
  <2>3. toSnd' \subseteq toSnd
    BY TakenLeaves DEF RecvAck
  <2> QED
    BY <2>2, <2>3 DEF ToSndOK
<1>7. Ends'
  <2>1. sndState' = "up" /\ sndState = "up" /\ ackPc' \in {"idle", "update"}
    BY <1>a, <1>e DEF SndListens, RecvAck
  <2> QED
    BY <2>1 DEF RecvAck, Ends
<1> QED
  BY <1>1, <1>2, <1>3, <1>4, <1>5, <1>6, <1>7

LEMMA RecvNakKeeps ==
  ASSUME UdtInv, NEW m, RecvNak(m)
  PROVE  UdtInv'
<1> USE DEF UdtInv, appVars, sndVars, netVars, rcvVars
<1>a. /\ SndListens /\ m \in toSnd /\ m.lo \in Numbers /\ m.hi \in Numbers
      /\ Pos(m.lo) \in Int /\ Pos(m.hi) \in Int
      /\ Pos(m.lo) <= Pos(m.hi) /\ Pos(m.hi) < RcvNext
  <2>1. /\ m.lo \in Numbers /\ m.hi \in Numbers
        /\ Pos(m.lo) <= Pos(m.hi) /\ Pos(m.hi) < RcvNext
    BY DEF RecvNak, ToSndOK, SndMsg
  <2> QED
    BY <2>1, PositionOf DEF Positions, RecvNak
<1>b. ~(seqcmp(m.lo, m.hi) > 0) /\ ~(seqcmp(m.hi, m_iSndCurrSeqNo) > 0)
  <2>1. ~(seqcmp(m.lo, m.hi) > 0)
    BY <1>a, Compare
  <2>2. seqcmp(m.hi, Prev(currBlock)) > 0 <=> Pos(m.hi) >= currBlock
    BY <1>a, Where, AgainstLast
  <2> QED
    BY <1>a, <2>1, <2>2, Chain DEF Order
<1>c. /\ sndState' = sndState /\ ackPc' = "update"
      /\ m_pSndLossList' = m_pSndLossList \cup SeqRange(FirstToResend(m.lo), m.hi)
  BY <1>b DEF RecvNak
<1>1. Order' /\ RcvLosses' /\ Window' /\ Hand' /\ Ring'
  BY DEF RecvNak, SndListens, FirstToResend, Order, RcvLosses, Window, Hand, Ring, RcvNext,
         Missing, NRead, AckNumber, Dist, Have
<1>2. SndLosses'
  <2>1. FirstToResend(m.lo) \in Numbers /\ Pos(FirstToResend(m.lo)) >= Pos(m_iSndLastAck)
    <3>1. m_iSndLastAck \in Numbers
      BY DEF Order
    <3>2. seqcmp(m.lo, m_iSndLastAck) >= 0 <=> Pos(m.lo) >= Pos(m_iSndLastAck)
      BY <1>a, <3>1, Compare
    <3> QED
      BY <1>a, <3>1, <3>2, Chain DEF FirstToResend
  <2>2. PICK lo : lo = FirstToResend(m.lo) /\ lo \in Numbers /\ Pos(lo) >= Pos(m_iSndLastAck)
                  /\ Pos(lo) \in Int
    BY <2>1, PositionOf DEF Positions
  <2>3. ASSUME NEW s \in SeqRange(lo, m.hi)
        PROVE  /\ s \in Numbers /\ firstBlock <= Pos(s) /\ Pos(s) < currBlock
               /\ currBlock - Pos(s) <= PeerWindow
    <3>1. s \in Numbers /\ Pos(lo) <= Pos(s) /\ Pos(s) <= Pos(m.hi) /\ Pos(s) \in Int
      BY <1>a, <2>2, <2>3, RangeOf, PositionOf DEF Positions
    <3> QED
      BY <1>a, <2>2, <3>1, Chain, Constants DEF Window
  <2> QED
    BY <1>c, <2>2, <2>3 DEF SndLosses, RecvNak
<1>3. ToRcvOK'
  BY Where, Constants DEF RecvNak, SndListens, FirstToResend, ToRcvOK, RcvMsg, RcvNext,
         Missing, NRead, AckNumber, SndMsg, Positions
<1>4. ToSndOK'
  <2>1. RcvNext' = RcvNext /\ Missing' = Missing
    BY DEF RecvNak, RcvNext, Missing, AckNumber
  <2>2. \A x \in toSnd : SndMsg(x)'
    BY <2>1, Chain, ToSndStays DEF RecvNak
  <2>3. toSnd' \subseteq toSnd
    BY TakenLeaves DEF RecvNak
  <2> QED
    BY <2>2, <2>3 DEF ToSndOK
<1>5. Ends'
  BY <1>a, <1>c DEF SndListens, RecvNak, Ends
<1> QED
  BY <1>1, <1>2, <1>3, <1>4, <1>5

LEMMA AckUpdateKeeps ==
  ASSUME UdtInv, AckUpdate
  PROVE  UdtInv'
<1> USE DEF UdtInv, appVars, sndVars, netVars, rcvVars
<1>1. Order' /\ SndLosses' /\ RcvLosses' /\ Window' /\ Hand' /\ ToRcvOK' /\ ToSndOK' /\ Ring'
  BY DEF AckUpdate, Order, SndLosses, RcvLosses, Window, Hand, ToRcvOK, ToSndOK, Ring,
         RcvNext, Missing, NRead, AckNumber, RcvMsg, SndMsg, Dist, Have
<1>2. Ends'
  BY Where, Constants DEF AckUpdate, Ends, Positions
<1> QED
  BY <1>1, <1>2

LEMMA ExpTimerKeeps ==
  ASSUME UdtInv, ExpTimer
  PROVE  UdtInv'
<1> USE DEF UdtInv, appVars, sndVars, netVars, rcvVars
<1>1. Order' /\ RcvLosses' /\ Window' /\ Hand' /\ ToRcvOK' /\ ToSndOK' /\ Ring'
  BY DEF ExpTimer, CurrBufSize, SndListens, Order, RcvLosses, Window, Hand, ToRcvOK,
         ToSndOK, Ring, RcvNext, Missing, NRead, AckNumber, RcvMsg, SndMsg, Dist, Have
<1>2. SndLosses'
  <2>1. CASE incseq(m_iSndCurrSeqNo) # m_iSndLastAck /\ m_pSndLossList = {}
    <3>1. At(currBlock) \in Numbers /\ Pos(At(currBlock)) = currBlock /\ m_iSndLastAck \in Numbers
      BY Where, NumberAt DEF Order
    <3>2. currBlock > 0
      BY <2>1, <3>1, Where, Chain, Compare
    <3>3. m_iSndCurrSeqNo \in Numbers /\ Pos(m_iSndCurrSeqNo) = currBlock - 1
      <4>1. m_iSndCurrSeqNo = At(currBlock - 1) /\ currBlock - 1 \in Positions
        BY <3>2, Chain, Constants DEF Order, Prev, Positions
      <4> QED
        BY <4>1, NumberAt
    <3>4. ASSUME NEW s \in SeqRange(m_iSndLastAck, m_iSndCurrSeqNo)
          PROVE  /\ s \in Numbers /\ firstBlock <= Pos(s) /\ Pos(s) < currBlock
                 /\ currBlock - Pos(s) <= PeerWindow
      <4>1. /\ s \in Numbers /\ Pos(m_iSndLastAck) <= Pos(s) /\ Pos(s) <= currBlock - 1
            /\ Pos(s) \in Int
        BY <3>1, <3>3, <3>4, RangeOf, PositionOf DEF Positions
      <4> QED
        BY <4>1, Chain, Constants DEF Window
    <3> QED
      BY <2>1, <3>4 DEF SndLosses, ExpTimer
  <2>2. CASE ~(incseq(m_iSndCurrSeqNo) # m_iSndLastAck /\ m_pSndLossList = {})
    BY <2>2 DEF SndLosses, ExpTimer
  <2> QED
    BY <2>1, <2>2
<1>3. Ends'
  BY Where, Constants DEF ExpTimer, CurrBufSize, SndListens, Ends, Positions
<1> QED
  BY <1>1, <1>2, <1>3

LEMMA SndGiveUpKeeps ==
  ASSUME UdtInv, SndGiveUp
  PROVE  UdtInv'
<1> USE DEF UdtInv, appVars, sndVars, netVars, rcvVars
<1>1. Order' /\ SndLosses' /\ RcvLosses' /\ Window' /\ Hand' /\ Ring'
  BY DEF SndGiveUp, SndListens, Order, SndLosses, RcvLosses, Window, Hand, Ring, RcvNext,
         Missing, NRead, AckNumber, Dist, Have
<1>2. ToRcvOK'
  BY Where, Constants DEF SndGiveUp, SndListens, ToRcvOK, RcvMsg, RcvNext, Missing, NRead,
         AckNumber, SndMsg, Positions
<1>3. ToSndOK'
  BY Where, Constants DEF SndGiveUp, SndListens, ToSndOK, SndMsg, RcvNext, Missing, NRead,
         AckNumber, RcvMsg, Positions
<1>4. Ends'
  BY Where, Constants DEF SndGiveUp, SndListens, Ends, Positions
<1> QED
  BY <1>1, <1>2, <1>3, <1>4

LEMMA RecvDataKeeps ==
  ASSUME UdtInv, NEW m, RecvData(m)
  PROVE  UdtInv'
<1> USE DEF UdtInv, appVars, sndVars, netVars, rcvVars
<1>a. PICK p, a, r, e, pos, off :
        /\ p = Pos(m.seq) /\ a = Pos(m_iRcvLastAck) /\ r = NRead /\ e = RcvNext
        /\ off = seqoff(m_iRcvLastAck, m.seq) /\ pos = (m_iLastAckPos + off) % RcvBufSize
  OBVIOUS
<1>b. /\ m.seq \in Numbers /\ m.seq = At(p) /\ p \in Nat /\ p < currBlock
      /\ m.data = p + 1 \/ p < a
      /\ off = p - a /\ a \in Int /\ r \in Nat /\ r <= a /\ e \in Positions /\ e \in Int
      /\ a <= Missing /\ Missing <= e /\ e <= currBlock /\ currBlock <= NBlocks
      /\ Missing \in Int /\ currBlock \in Int
  <2>1. /\ m.seq \in Numbers /\ Pos(m.seq) < currBlock
        /\ m.data = Pos(m.seq) + 1 \/ Pos(m.seq) < Pos(m_iRcvLastAck)
    BY DEF RecvData, ToRcvOK, RcvMsg
  <2>2. Pos(m.seq) \in Nat /\ At(Pos(m.seq)) = m.seq
    BY <2>1, PositionOf DEF Positions
  <2>3. seqoff(m_iRcvLastAck, m.seq) = Pos(m.seq) - Pos(m_iRcvLastAck)
    BY <2>1, Compare DEF Order
  <2>4. NRead \in Nat /\ NRead <= Pos(m_iRcvLastAck)
    BY LenProperties DEF Ring, NRead
  <2>5. RcvNext \in Positions
    BY Where
  <2>6. /\ Pos(m_iRcvLastAck) \in Int /\ RcvNext \in Int /\ Missing \in Int /\ currBlock \in Int
        /\ Pos(m_iRcvLastAck) <= Missing /\ Missing <= RcvNext /\ RcvNext <= currBlock
        /\ currBlock <= NBlocks
    BY Chain, Constants
  <2> QED
    BY <1>a, <2>1, <2>2, <2>3, <2>4, <2>5, <2>6
<1>c. PICK kept \in BOOLEAN :
        kept = (off >= 0 /\ off < getAvailBufSize /\ m_pUnit[pos] = NoBlock)
  OBVIOUS
<1>d. ASSUME kept
      PROVE  /\ p >= a /\ p < r + RcvBufSize - 1 /\ m.data = p + 1
             /\ pos \in Slots /\ r + Dist(pos) = p /\ ~Have(p)
  <2>1. getRcvDataSize = a - r
    <3>1. Dist(m_iLastAckPos) = a - r /\ m_iLastAckPos \in Slots /\ m_iStartPos \in Slots
      BY <1>a DEF Ring
    <3> QED
      BY <3>1, Constants DEF getRcvDataSize, Dist, Slots
  <2>2. off \in Nat /\ a - r + off <= RcvBufSize - 1 /\ p >= a /\ p < r + RcvBufSize - 1
    <3>1. off >= 0 /\ off < RcvBufSize - (a - r) - 1
      BY <1>c, <1>d, <2>1 DEF getAvailBufSize
    <3> QED
      BY <1>b, <3>1, Constants
  <2>3. pos \in Slots /\ r + Dist(pos) = p
    BY <1>a, <1>b, <2>2, RingStep
  <2>4. m_pUnit[pos] = NoBlock
    BY <1>c, <1>d
  <2>5. ~Have(p)
    <3>1. m_pUnit[pos] = IF Have(NRead + Dist(pos)) THEN NRead + Dist(pos) + 1 ELSE NoBlock
      BY <2>3 DEF Ring
    <3> QED
      BY <1>a, <1>b, <2>3, <2>4, <3>1 DEF NoBlock
  <2> QED
    BY <1>b, <2>2, <2>3, <2>5
<1>e. /\ seqcmp(m.seq, m_iRcvCurrSeqNo) > 0 <=> p >= e
      /\ seqcmp(m.seq, incseq(m_iRcvCurrSeqNo)) > 0 <=> p > e
      /\ incseq(m_iRcvCurrSeqNo) = At(e)
  <2>1. m_iRcvCurrSeqNo = Prev(e) /\ incseq(m_iRcvCurrSeqNo) = At(e)
    BY <1>a, Where DEF Order
  <2>2. At(e) \in Numbers /\ Pos(At(e)) = e
    BY <1>b, NumberAt
  <2>3. seqcmp(m.seq, Prev(e)) > 0 <=> p >= e
    BY <1>a, <1>b, AgainstLast
  <2>4. seqcmp(m.seq, At(e)) > 0 <=> p > e
    BY <1>a, <1>b, <2>2, Compare
  <2> QED
    BY <2>1, <2>3, <2>4
<1>f. kept /\ p > e => decseq(m.seq) = At(p - 1) /\ p - 1 \in Positions
  BY <1>b, NextOf, Constants DEF Positions
<1>g. /\ m_pUnit' = IF kept THEN [m_pUnit EXCEPT ![pos] = p + 1] ELSE m_pUnit
      /\ m_iRcvCurrSeqNo' = IF kept /\ p >= e THEN At(p) ELSE m_iRcvCurrSeqNo
      /\ m_pRcvLossList' = IF kept /\ p > e THEN m_pRcvLossList \cup SeqRange(At(e), At(p - 1))
                           ELSE IF kept THEN m_pRcvLossList \ {At(p)} ELSE m_pRcvLossList
  <2>1. m_pUnit' = IF kept THEN [m_pUnit EXCEPT ![pos] = m.data] ELSE m_pUnit
    BY <1>a, <1>c DEF RecvData
  <2>2. m_iRcvCurrSeqNo' = IF kept /\ seqcmp(m.seq, m_iRcvCurrSeqNo) > 0
                           THEN m.seq ELSE m_iRcvCurrSeqNo
    BY <1>a, <1>c DEF RecvData
  <2>3. m_pRcvLossList' = IF kept /\ seqcmp(m.seq, incseq(m_iRcvCurrSeqNo)) > 0
                          THEN m_pRcvLossList \cup SeqRange(incseq(m_iRcvCurrSeqNo), decseq(m.seq))
                          ELSE IF kept THEN m_pRcvLossList \ {m.seq} ELSE m_pRcvLossList
    BY <1>a, <1>c DEF RecvData
  <2> QED
    BY <1>b, <1>d, <1>e, <1>f, <2>1, <2>2, <2>3
<1>h. /\ RcvNext' = IF kept /\ p >= e THEN p + 1 ELSE e
      /\ m_iRcvCurrSeqNo' = Prev(RcvNext')
  <2>1. CASE kept /\ p >= e
    <3>1. p + 1 \in Positions /\ Prev(p + 1) = At(p)
      BY <1>b, Constants DEF Positions, Prev
    <3>2. incseq(At(p)) = At(p + 1) /\ Pos(At(p + 1)) = p + 1
      BY <3>1, NextOf, NumberAt
    <3> QED
      BY <1>g, <2>1, <3>1, <3>2 DEF RcvNext
  <2>2. CASE ~(kept /\ p >= e)
    BY <1>a, <1>g, <2>2 DEF RcvNext, Order
  <2> QED
    BY <2>1, <2>2
<1>i. \A s \in m_pRcvLossList : s \in Numbers /\ a <= Pos(s) /\ Pos(s) < e /\ Missing <= Pos(s)
  BY <1>a, Where DEF RcvLosses
<1>j. \A s : s \in m_pRcvLossList' <=>
              \/ s \in m_pRcvLossList /\ ~(kept /\ s = At(p))
              \/ s \in Numbers /\ kept /\ e <= Pos(s) /\ Pos(s) < p
  <2>1. m.seq = At(p) /\ m.seq \in Numbers /\ Pos(m.seq) = p
    BY <1>a, <1>b
  <2>2. CASE kept /\ p > e
    <3>1. /\ At(e) \in Numbers /\ Pos(At(e)) = e
          /\ At(p - 1) \in Numbers /\ Pos(At(p - 1)) = p - 1
      BY <1>b, <1>f, <2>2, NumberAt
    <3>2. /\ SeqRange(At(e), At(p - 1)) \subseteq Numbers
          /\ \A s \in Numbers : s \in SeqRange(At(e), At(p - 1)) <=> e <= Pos(s) /\ Pos(s) <= p - 1
      BY <3>1, RangeOf
    <3>3. \A s \in Numbers : Pos(s) \in Int
      BY PositionOf DEF Positions
    <3>4. \A s \in m_pRcvLossList : s # At(p)
      BY <1>b, <1>i, <2>1, <2>2, <3>3
    <3>5. \A s \in Numbers : Pos(s) <= p - 1 <=> Pos(s) < p
      BY <1>b, <3>3
    <3>6. m_pRcvLossList' = m_pRcvLossList \cup SeqRange(At(e), At(p - 1))
      BY <1>g, <2>2
    <3> QED
      BY <2>2, <3>2, <3>4, <3>5, <3>6
  <2>3. CASE kept /\ ~(p > e)
    <3>1. \A s \in Numbers : ~(e <= Pos(s) /\ Pos(s) < p)
      BY <1>b, <2>3, PositionOf DEF Positions
    <3>2. m_pRcvLossList' = m_pRcvLossList \ {At(p)}
      BY <1>g, <2>3
    <3> QED
      BY <2>3, <3>1, <3>2
  <2>4. CASE ~kept
    BY <1>g, <2>4
  <2> QED
    BY <2>2, <2>3, <2>4
<1>k. PICK f, loss, ack : f = RcvNext' /\ loss = m_pRcvLossList' /\ ack = AckNumber'
  OBVIOUS
<1>l. /\ f \in Int /\ f \in Positions /\ e <= f /\ f <= currBlock
      /\ \A s \in loss : s \in Numbers /\ Pos(s) \in Int /\ Pos(s) < f /\ Missing <= Pos(s)
  <2>1. f \in Int /\ e <= f /\ f <= currBlock /\ (kept => p < f)
    BY <1>b, <1>h, <1>k
  <2>2. f \in Positions
    BY <1>b, <2>1, Constants DEF Positions
  <2>3. ASSUME NEW s \in loss
        PROVE  s \in Numbers /\ Pos(s) \in Int /\ Pos(s) < f /\ Missing <= Pos(s)
    <3>1. s \in Numbers
      BY <1>i, <1>j, <1>k, <2>3
    <3>2. Pos(s) \in Int
      BY <3>1, PositionOf DEF Positions
    <3>3. CASE s \in m_pRcvLossList
      BY <1>b, <1>i, <2>1, <3>1, <3>2, <3>3
    <3>4. CASE kept /\ e <= Pos(s) /\ Pos(s) < p
      BY <1>b, <2>1, <3>1, <3>2, <3>4
    <3> QED
      BY <1>j, <1>k, <2>3, <3>3, <3>4
  <2> QED
    BY <2>1, <2>2, <2>3
<1>m. /\ ack \in Numbers /\ Pos(ack) \in Int /\ Pos(ack) <= f /\ Missing <= Pos(ack)
      /\ Missing' = Pos(ack)
  <2>1. PICK curr : curr = m_iRcvCurrSeqNo' /\ curr = Prev(f)
    BY <1>h, <1>k
  <2>2. ack = IF loss = {} THEN incseq(curr) ELSE FirstSeq(loss)
    BY <1>k, <2>1 DEF AckNumber
  <2>3. /\ ack \in Numbers /\ Pos(ack) <= f
        /\ loss = {} => Pos(ack) = f
        /\ loss # {} => ack \in loss
    BY <1>l, <2>1, <2>2, FirstMissing
  <2>4. Pos(ack) \in Int /\ Missing <= Pos(ack)
    BY <1>b, <1>l, <2>3, PositionOf DEF Positions
  <2> QED
    BY <1>k, <2>3, <2>4 DEF Missing
<1>1. Window' /\ Hand' /\ Ends'
  BY DEF RecvData, AckNumber, ToSnd, getAvailBufSize, getRcvDataSize, Window, Hand, Ends
<1>2. Order'
  <2>1. /\ RcvNext' \in 0 .. currBlock
        /\ Pos(m_iSndLastAck) <= Missing' /\ Pos(m_iRcvLastAck) <= Missing'
    BY <1>k, <1>l, <1>m, Chain, Constants DEF Positions
  <2> QED
    BY <1>h, <2>1 DEF RecvData, Order
<1>3. SndLosses'
  BY Where, Constants DEF RecvData, AckNumber, ToSnd, getAvailBufSize, getRcvDataSize,
         SndLosses, RcvNext, Missing, NRead, Positions
<1>4. RcvLosses'
  <2>1. \A s \in loss : s \in Numbers /\ Pos(m_iRcvLastAck) <= Pos(s) /\ Pos(s) < f
    BY <1>l, Chain
  <2> QED
    BY <1>k, <2>1 DEF RecvData, RcvLosses
<1>5. ToRcvOK'
  <2>1. \A x \in toRcv : RcvMsg(x)'
    BY Chain, ToRcvStays DEF RecvData
  <2>2. toRcv' \subseteq toRcv
    BY TakenLeaves DEF RecvData
  <2> QED
    BY <2>1, <2>2 DEF ToRcvOK
<1>6. ToSndOK'
  <2>1. \A x \in toSnd : SndMsg(x)'
    <3>1. m_iRcvLastAck' = m_iRcvLastAck /\ Pos(m_iRcvLastAck') \in Int
      BY Chain DEF RecvData
    <3>2. Missing' \in Int /\ RcvNext' \in Int /\ Missing <= Missing' /\ RcvNext <= RcvNext'
      BY <1>a, <1>k, <1>l, <1>m
    <3> QED
      BY <3>1, <3>2, Chain, ToSndStays
  <2>2. PICK nak, lite :
          /\ nak = [type |-> "nak", lo |-> incseq(m_iRcvCurrSeqNo), hi |-> decseq(m.seq)]
          /\ lite = [type |-> "lite", ack |-> ack]
    OBVIOUS
  <2>3. PICK naks : /\ naks = IF kept /\ seqcmp(m.seq, incseq(m_iRcvCurrSeqNo)) > 0
                              THEN ToSnd(toSnd, nak) ELSE {toSnd}
                    /\ \/ toSnd' \in naks
                       \/ \E nk \in naks : toSnd' \in ToSnd(nk, lite)
    BY <1>a, <1>c, <1>k, <2>2 DEF RecvData
  <2>4. \A nk \in naks : \A x \in nk : x \in toSnd \/ (kept /\ p > e /\ x = nak)
    BY <1>e, <2>3, PutAdds DEF ToSnd
  <2>5. \A x \in toSnd' : \/ x \in toSnd
                          \/ kept /\ p > e /\ x = nak
                          \/ x = lite
    BY <2>3, <2>4, PutAdds DEF ToSnd
  <2>6. SndMsg(lite)'
    BY <1>m, <2>2 DEF SndMsg
  <2>7. kept /\ p > e => SndMsg(nak)'
    <3>1. SUFFICES ASSUME kept /\ p > e PROVE SndMsg(nak)'
      OBVIOUS
    <3>2. /\ nak.type = "nak" /\ nak.lo \in Numbers /\ nak.hi \in Numbers
          /\ Pos(nak.lo) = e /\ Pos(nak.hi) = p - 1
      BY <1>b, <1>e, <1>f, <2>2, <3>1, NumberAt
    <3>3. RcvNext' = p + 1
      BY <1>b, <1>h, <3>1
    <3> QED
      BY <1>b, <3>1, <3>2, <3>3 DEF SndMsg
  <2> QED
    BY <2>1, <2>5, <2>6, <2>7 DEF ToSndOK
<1>7. Ring'
  <2>1. /\ NRead' = r /\ m_iRcvLastAck' = m_iRcvLastAck /\ m_iStartPos' = m_iStartPos
        /\ m_iLastAckPos' = m_iLastAckPos /\ readBlocks' = readBlocks
    BY <1>a DEF RecvData, NRead
  <2>2. \A q : Dist(q)' = Dist(q)
    BY <2>1 DEF Dist
  <2>3. ASSUME NEW y \in Nat PROVE Have(y)' <=> Have(y) \/ (kept /\ y = p)
    <3>1. Have(y) <=> y < e /\ At(y) \notin m_pRcvLossList
      BY <1>a DEF Have
    <3>2. Have(y)' <=> y < f /\ At(y) \notin loss
      BY <1>k DEF Have
    <3>3. f = IF kept /\ p >= e THEN p + 1 ELSE e
      BY <1>h, <1>k
    <3>4. CASE y < f
      <4>1. y \in Positions
        BY <1>l, <3>4, Constants DEF Positions
      <4>2. At(y) \in Numbers /\ Pos(At(y)) = y
        BY <4>1, NumberAt
      <4>3. At(y) = At(p) <=> y = p
        BY <1>a, <1>b, <4>2
      <4>4. At(y) \in loss <=> \/ At(y) \in m_pRcvLossList /\ ~(kept /\ y = p)
                               \/ kept /\ e <= y /\ y < p
        BY <1>j, <1>k, <4>2, <4>3
      <4> QED
        BY <1>b, <3>1, <3>2, <3>3, <3>4, <4>4
    <3>5. CASE ~(y < f)
      BY <1>b, <3>1, <3>2, <3>3, <3>5
    <3> QED
      BY <3>4, <3>5
  <2>4. ASSUME NEW q \in Slots
        PROVE  m_pUnit'[q] = IF Have(r + Dist(q))' THEN r + Dist(q) + 1 ELSE NoBlock
    <3>1. /\ m_pUnit \in [Slots -> Nat]
          /\ m_pUnit[q] = IF Have(r + Dist(q)) THEN r + Dist(q) + 1 ELSE NoBlock
      BY <1>a DEF Ring
    <3>2. PICK y \in Nat : y = r + Dist(q)
      BY <1>b, DistApart, Constants
    <3>3. Have(y)' <=> Have(y) \/ (kept /\ y = p)
      BY <2>3, <3>2
    <3>4. Have(r + Dist(q))' <=> Have(y)'
      BY <2>1, <2>2, <3>2
    <3>5. CASE kept /\ y = p
      <4>1. q = pos
        <5>1. pos \in Slots /\ r + Dist(pos) = p
          BY <1>d, <3>5
        <5>2. Dist(pos) \in Int /\ Dist(q) \in Int
          BY <5>1, DistApart, Constants
        <5>3. Dist(q) = Dist(pos)
          BY <1>b, <3>2, <3>5, <5>1, <5>2
        <5> QED
          BY <5>1, <5>3, DistApart
      <4> QED
        BY <1>g, <3>1, <3>2, <3>3, <3>4, <3>5, <4>1
    <3>6. CASE ~(kept /\ y = p)
      <4>1. kept => q # pos
        BY <1>d, <3>2, <3>6
      <4> QED
        BY <1>g, <3>1, <3>2, <3>3, <3>4, <3>6, <4>1
    <3> QED
      BY <3>5, <3>6
  <2>5. m_pUnit' \in [Slots -> Nat]
    <3>1. m_pUnit \in [Slots -> Nat]
      BY DEF Ring
    <3>2. p + 1 \in Nat
      BY <1>b
    <3>3. [m_pUnit EXCEPT ![pos] = p + 1] \in [Slots -> Nat]
      BY <3>1, <3>2
    <3> QED
      BY <1>g, <3>1, <3>3
  <2>6. RcvNext' <= r + RcvBufSize - 1
    <3>1. e <= r + RcvBufSize - 1
      BY <1>a DEF Ring
    <3>2. kept => p + 1 <= r + RcvBufSize - 1
      BY <1>b, <1>d, Constants
    <3> QED
      BY <1>h, <3>1, <3>2
  <2>7. /\ m_iStartPos \in Slots /\ m_iLastAckPos \in Slots
        /\ r <= Pos(m_iRcvLastAck) /\ Dist(m_iLastAckPos) = Pos(m_iRcvLastAck) - r
        /\ readBlocks \in Seq(Nat) /\ \A i \in 1 .. NRead : readBlocks[i] = i
    BY <1>a DEF Ring
  <2>8. Dist(m_iLastAckPos)' = Dist(m_iLastAckPos)
    BY <2>1 DEF Dist
  <2>9. \A q \in Slots :
          m_pUnit'[q] = IF Have(NRead + Dist(q))' THEN NRead' + Dist(q)' + 1 ELSE NoBlock
    <3> SUFFICES ASSUME NEW q \in Slots
                 PROVE  m_pUnit'[q] = IF Have(NRead + Dist(q))' THEN r + Dist(q) + 1 ELSE NoBlock
      BY <2>1, <2>2
    <3>1. Have(NRead + Dist(q))' <=> Have(r + Dist(q))'
      BY <2>1, <2>2 DEF Have
    <3> QED
      BY <2>4, <3>1
  <2> QED
    BY <1>a, <2>1, <2>5, <2>6, <2>7, <2>8, <2>9 DEF Ring
<1> QED
  BY <1>1, <1>2, <1>3, <1>4, <1>5, <1>6, <1>7

LEMMA RecvAck2Keeps ==
  ASSUME UdtInv, NEW m, RecvAck2(m)
  PROVE  UdtInv'
<1> USE DEF UdtInv, appVars, sndVars, netVars, rcvVars
<1>a. m.ack \in Numbers /\ Pos(m.ack) \in Int /\ Pos(m.ack) <= firstBlock
  <2>1. m.ack \in Numbers /\ Pos(m.ack) <= firstBlock
    BY DEF RecvAck2, ToRcvOK, RcvMsg
  <2> QED
    BY <2>1, PositionOf DEF Positions
<1>1. SndLosses' /\ RcvLosses' /\ Window' /\ Hand' /\ Ring' /\ Ends'
  BY DEF RecvAck2, SndLosses, RcvLosses, Window, Hand, Ring, Ends, RcvNext, Missing, NRead,
         AckNumber, Dist, Have
<1>2. Order'
  <2>1. m_iRcvLastAckAck' \in Numbers /\ Pos(m_iRcvLastAckAck') <= firstBlock
    BY <1>a DEF RecvAck2, Order
  <2> QED
    BY <2>1 DEF RecvAck2, Order, RcvNext, Missing, AckNumber
<1>3. ToRcvOK'
  <2>1. \A x \in toRcv : RcvMsg(x)'
    BY Chain, ToRcvStays DEF RecvAck2
  <2>2. toRcv' \subseteq toRcv
    BY TakenLeaves DEF RecvAck2
  <2> QED
    BY <2>1, <2>2 DEF ToRcvOK
<1>4. ToSndOK'
  BY Where, Constants DEF RecvAck2, ToSndOK, SndMsg, RcvNext, Missing, NRead, AckNumber,
         RcvMsg, Positions
<1> QED
  BY <1>1, <1>2, <1>3, <1>4

LEMMA RecvShutdownKeeps ==
  ASSUME UdtInv, NEW m, RecvShutdown(m)
  PROVE  UdtInv'
<1> USE DEF UdtInv, appVars, sndVars, netVars, rcvVars
<1>1. Order' /\ SndLosses' /\ RcvLosses' /\ Window' /\ Hand' /\ Ring'
  BY DEF RecvShutdown, Order, SndLosses, RcvLosses, Window, Hand, Ring, RcvNext, Missing,
         NRead, AckNumber, Dist, Have
<1>2. ToRcvOK'
  BY Where, Constants DEF RecvShutdown, ToRcvOK, RcvMsg, RcvNext, Missing, NRead, AckNumber,
         SndMsg, Positions
<1>3. ToSndOK'
  BY Where, Constants DEF RecvShutdown, ToSndOK, SndMsg, RcvNext, Missing, NRead, AckNumber,
         RcvMsg, Positions
<1>4. Ends'
  <2>1. sndState = "closed"
    BY DEF RecvShutdown, ToRcvOK, RcvMsg
  <2> QED
    BY <2>1 DEF RecvShutdown, Ends
<1> QED
  BY <1>1, <1>2, <1>3, <1>4

LEMMA AckTimerKeeps ==
  ASSUME UdtInv, AckTimer
  PROVE  UdtInv'
<1> USE DEF UdtInv, appVars, sndVars, netVars, rcvVars
<1>a. /\ RcvNext' = RcvNext /\ Missing' = Missing /\ NRead' = NRead
      /\ m_iRcvLastAck' = AckNumber /\ Pos(m_iRcvLastAck') = Missing
  BY DEF AckTimer, RcvNext, Missing, AckNumber, NRead
<1>b. /\ m_iLastAckPos' \in Slots
      /\ NRead + Dist(m_iLastAckPos') = Missing /\ m_iLastAckPos' \in Nat
  <2>1. seqoff(m_iRcvLastAck, AckNumber) = Missing - Pos(m_iRcvLastAck)
    BY Where, Compare DEF Order, Missing
  <2>2. PICK k \in Nat : k = Missing - Pos(m_iRcvLastAck)
    BY Chain
  <2>3. NRead \in Nat /\ RcvNext <= NRead + RcvBufSize - 1
    BY LenProperties DEF Ring, NRead
  <2>4. Pos(m_iRcvLastAck) - NRead + k <= RcvBufSize - 1
    BY <2>2, <2>3, Chain, Constants
  <2>5. m_iLastAckPos' = (m_iLastAckPos + k) % RcvBufSize
    BY <2>1, <2>2 DEF AckTimer
  <2>6. m_iLastAckPos' \in Slots /\ NRead + Dist(m_iLastAckPos') = Pos(m_iRcvLastAck) + k
    BY <2>4, <2>5, RingStep
  <2> QED
    BY <2>2, <2>6, Chain, Constants DEF Slots
<1>1. Window' /\ Hand' /\ Ends'
  BY DEF AckTimer, AckNumber, ToSnd, Window, Hand, Ends
<1>2. Order'
  BY Where, Constants DEF AckTimer, AckNumber, ToSnd, Order, RcvNext, Missing, NRead,
         Positions
<1>3. SndLosses'
  BY Where, Constants DEF AckTimer, AckNumber, ToSnd, SndLosses, RcvNext, Missing, NRead,
         Positions
<1>4. RcvLosses'
  BY Where, Constants DEF AckTimer, AckNumber, ToSnd, RcvLosses, RcvNext, Missing, NRead,
         Positions
<1>5. ToRcvOK'
  <2>1. \A x \in toRcv : RcvMsg(x)'
    BY <1>a, Chain, ToRcvStays DEF AckTimer
  <2> QED
    BY <2>1 DEF ToRcvOK, AckTimer
<1>6. ToSndOK'
  <2>1. \A x \in toSnd : SndMsg(x)'
    BY <1>a, Chain, ToSndStays
  <2>2. PICK n : /\ n = [type |-> "ack", ack |-> m_iRcvLastAck',
                         window |-> AckWindow(m_iLastAckPos')]
                 /\ toSnd' \in IF seqcmp(m_iRcvLastAck', m_iRcvLastAckAck) > 0
                               THEN ToSnd(toSnd, n) ELSE {toSnd}
    BY DEF AckTimer
  <2>3. AckWindow(m_iLastAckPos') \in Int /\ AckWindow(m_iLastAckPos') <= PeerWindow
    <3>1. PICK x \in Nat : x = m_iLastAckPos' - m_iStartPos + RcvBufSize /\ x < 2 * RcvBufSize
      <4>1. m_iStartPos \in Slots
        BY DEF Ring
      <4>2. PICK l, s, size : l = m_iLastAckPos' /\ s = m_iStartPos /\ size = RcvBufSize
        OBVIOUS
      <4>3. l \in 0 .. size - 1 /\ s \in 0 .. size - 1 /\ size \in Nat
        BY <1>b, <4>1, <4>2, Constants DEF Slots
      <4>4. l - s + size \in Nat /\ l - s + size < 2 * size
        BY <4>3
      <4> QED
        BY <4>2, <4>4
    <3>2. x % RcvBufSize \in Nat
      BY <3>1, Constants, Wrap
    <3> QED
      BY <3>1, <3>2, Constants DEF AckWindow
  <2>4. SndMsg(n)'
    <3>1. /\ n.type = "ack" /\ n.ack = AckNumber /\ n.ack \in Numbers /\ Pos(n.ack) = Missing
          /\ n.window \in Int /\ n.window <= PeerWindow
      BY <1>a, <2>2, <2>3, Where DEF Missing
    <3> QED
      BY <1>a, <3>1, Chain DEF SndMsg
  <2>5. toSnd' \subseteq toSnd \cup {n}
    BY <2>2, PutAdds DEF ToSnd
  <2> QED
    BY <2>1, <2>4, <2>5 DEF ToSndOK
<1>7. Ring'
  <2>1. \A q \in Slots : Dist(q)' = Dist(q) /\ Have(NRead + Dist(q))' = Have(NRead + Dist(q))
    BY <1>a DEF AckTimer, Dist, Have
  <2>2. NRead <= Missing /\ Dist(m_iLastAckPos)' = Missing - NRead
    <3>1. Dist(m_iLastAckPos)' = Dist(m_iLastAckPos')
      BY DEF AckTimer, Dist
    <3>2. Dist(m_iLastAckPos') \in Int /\ NRead \in Nat
      BY <1>b, LenProperties, Constants DEF Dist, Slots, Ring, NRead
    <3>3. NRead <= Pos(m_iRcvLastAck)
      BY DEF Ring
    <3> QED
      BY <1>b, <3>1, <3>2, <3>3, Chain
  <2> QED
    BY <1>a, <1>b, <2>1, <2>2 DEF Ring, AckTimer
<1> QED
  BY <1>1, <1>2, <1>3, <1>4, <1>5, <1>6, <1>7

LEMMA RcvGiveUpKeeps ==
  ASSUME UdtInv, RcvGiveUp
  PROVE  UdtInv'
<1> USE DEF UdtInv, appVars, sndVars, netVars, rcvVars
<1>1. Order' /\ SndLosses' /\ RcvLosses' /\ Window' /\ Hand' /\ Ring'
  BY DEF RcvGiveUp, Order, SndLosses, RcvLosses, Window, Hand, Ring, RcvNext, Missing,
         NRead, AckNumber, Dist, Have
<1>2. ToRcvOK'
  BY Where, Constants DEF RcvGiveUp, ToRcvOK, RcvMsg, RcvNext, Missing, NRead, AckNumber,
         SndMsg, Positions
<1>3. ToSndOK'
  BY Where, Constants DEF RcvGiveUp, ToSndOK, SndMsg, RcvNext, Missing, NRead, AckNumber,
         RcvMsg, Positions
<1>4. Ends'
  BY Where, Constants DEF RcvGiveUp, Ends, Positions
<1> QED
  BY <1>1, <1>2, <1>3, <1>4

LEMMA AppReadKeeps ==
  ASSUME UdtInv, AppRead
  PROVE  UdtInv'
<1> USE DEF UdtInv, appVars, sndVars, netVars, rcvVars
<1>1. Window' /\ Hand' /\ Ends'
  BY DEF AppRead, getRcvDataSize, Window, Hand, Ends
<1>2. Order'
  BY Where, Constants DEF AppRead, getRcvDataSize, Order, RcvNext, Missing, NRead,
         AckNumber, Positions
<1>3. SndLosses'
  BY Where, Constants DEF AppRead, getRcvDataSize, SndLosses, RcvNext, Missing, NRead,
         AckNumber, Positions
<1>4. RcvLosses'
  BY Where, Constants DEF AppRead, getRcvDataSize, RcvLosses, RcvNext, Missing, NRead,
         AckNumber, Positions
<1>5. ToRcvOK'
  BY Where, Constants DEF AppRead, getRcvDataSize, ToRcvOK, RcvMsg, RcvNext, Missing, NRead,
         AckNumber, SndMsg, Positions
<1>6. ToSndOK'
  BY Where, Constants DEF AppRead, getRcvDataSize, ToSndOK, SndMsg, RcvNext, Missing, NRead,
         AckNumber, RcvMsg, Positions
<1>7. Ring'
  <2>1. PICK s, r, n : s = m_iStartPos /\ r = NRead /\ n = RcvBufSize
    OBVIOUS
  <2>2. s \in 0 .. n - 1 /\ r \in Nat /\ n \in Nat /\ n > 1
    BY <2>1, LenProperties, Constants DEF Ring, Slots, NRead
  <2>3. r < Pos(m_iRcvLastAck) /\ Dist(s) = 0
    BY <2>1, ReadsNext
  <2>4. readBlocks' = Append(readBlocks, r + 1) /\ NRead' = r + 1
    BY <2>1, ReadsNext
  <2>5. readBlocks' \in Seq(Nat) /\ \A i \in 1 .. NRead' : readBlocks'[i] = i
    BY <2>1, <2>2, <2>4, AppendProperties DEF Ring, NRead
  <2>6. m_iStartPos' \in Slots /\ m_iStartPos' = IF s + 1 < n THEN s + 1 ELSE 0
    <3>1. PICK x \in Nat : x = s + 1 /\ x < 2 * n
      BY <2>2
    <3>2. x % n = IF x < n THEN x ELSE x - n
      BY <2>2, <3>1, Wrap
    <3> QED
      BY <2>1, <2>2, <3>1, <3>2 DEF AppRead, Slots
  <2>7. ASSUME NEW q \in Slots
        PROVE  /\ NRead' + Dist(q)' = IF q = s THEN r + n ELSE r + Dist(q)
               /\ Dist(q) \in Nat /\ Dist(q)' \in Nat
    BY <2>1, <2>2, <2>4, <2>6 DEF Dist, Slots
  <2>8. RcvNext <= r + n - 1 /\ ~Have(r + n) /\ RcvNext \in Int
    <3>1. RcvNext <= r + n - 1
      BY <2>1 DEF Ring
    <3> QED
      BY <2>2, <3>1, Chain DEF Have
  <2>9. ASSUME NEW q \in Slots
         PROVE  m_pUnit'[q] = IF Have(NRead' + Dist(q)') THEN NRead' + Dist(q)' + 1 ELSE NoBlock
    <3>1. m_pUnit' = [m_pUnit EXCEPT ![s] = NoBlock]
      BY <2>1 DEF AppRead
    <3>2. /\ m_pUnit \in [Slots -> Nat]
          /\ m_pUnit[q] = IF Have(r + Dist(q)) THEN r + Dist(q) + 1 ELSE NoBlock
      BY <2>1 DEF Ring
    <3> QED
      BY <2>7, <2>8, <3>1, <3>2
  <2>10. /\ RcvNext' = RcvNext /\ m_iRcvLastAck' = m_iRcvLastAck /\ m_iLastAckPos' = m_iLastAckPos
         /\ m_pRcvLossList' = m_pRcvLossList
    BY DEF AppRead, RcvNext
  <2>11. \A y : Have(y)' <=> Have(y)
    BY <2>10 DEF Have
  <2>12. m_pUnit' \in [Slots -> Nat]
    BY <2>1 DEF AppRead, Ring, NoBlock
  <2>13. /\ m_iLastAckPos \in Slots /\ Dist(m_iLastAckPos) = Pos(m_iRcvLastAck) - r
         /\ m_iLastAckPos # s
    BY <2>1, <2>2, <2>3, Chain DEF Ring
  <2>14. Dist(m_iLastAckPos)' = Pos(m_iRcvLastAck) - NRead' /\ NRead' <= Pos(m_iRcvLastAck)
    <3>1. PICK l \in Slots : l = m_iLastAckPos
      BY <2>13
    <3>2. Dist(m_iLastAckPos)' = Dist(l)' /\ Dist(l) = Pos(m_iRcvLastAck) - r
      BY <2>10, <2>13, <3>1 DEF Dist
    <3>3. NRead' + Dist(l)' = r + Dist(l) /\ Dist(l)' \in Nat
      BY <2>7, <2>13, <3>1
    <3>4. PICK d, p \in Int : d = Dist(l)' /\ p = Pos(m_iRcvLastAck)
      BY <3>3, Chain
    <3>5. r + 1 + d = r + (p - r) /\ d \in Int /\ r < p
      BY <2>1, <2>3, <2>4, <3>2, <3>3, <3>4
    <3>6. d = p - (r + 1) /\ r + 1 <= p
      BY <2>2, <3>4, <3>5
    <3>7. Pos(m_iRcvLastAck') = p
      BY <2>10, <3>4
    <3> QED
      BY <2>4, <3>2, <3>4, <3>6, <3>7
  <2>15. RcvNext <= NRead' + RcvBufSize - 1
    BY <2>1, <2>2, <2>4, <2>8
  <2>16. \A q \in Slots :
           m_pUnit'[q] = IF Have(NRead + Dist(q))' THEN NRead' + Dist(q)' + 1 ELSE NoBlock
    BY <2>9, <2>11
  <2> QED
    BY <2>5, <2>6, <2>10, <2>12, <2>13, <2>14, <2>15, <2>16 DEF Ring
<1> QED
  BY <1>1, <1>2, <1>3, <1>4, <1>5, <1>6, <1>7

LEMMA AppEofKeeps ==
  ASSUME UdtInv, AppEof
  PROVE  UdtInv'
<1> USE DEF UdtInv, appVars, sndVars, netVars, rcvVars
<1>1. Order' /\ SndLosses' /\ RcvLosses' /\ Window' /\ Hand' /\ ToRcvOK' /\ ToSndOK' /\ Ring'
  BY DEF AppEof, getRcvDataSize, Order, SndLosses, RcvLosses, Window, Hand, ToRcvOK,
         ToSndOK, Ring, RcvNext, Missing, NRead, AckNumber, RcvMsg, SndMsg, Dist, Have
<1>2. Ends'
  BY Where, Constants DEF AppEof, getRcvDataSize, Ends, Positions
<1> QED
  BY <1>1, <1>2

\* A step that changes nothing keeps it too.
LEMMA StutterKeeps ==
  ASSUME UdtInv, UNCHANGED vars
  PROVE  UdtInv'
<1> USE DEF UdtInv, vars, appVars, sndVars, netVars, rcvVars
<1>1. RcvNext' = RcvNext /\ Missing' = Missing /\ NRead' = NRead
  BY DEF RcvNext, Missing, NRead, AckNumber
<1>2. Order' /\ SndLosses' /\ RcvLosses' /\ Window' /\ Hand'
  BY <1>1 DEF Order, SndLosses, RcvLosses, Window, Hand
<1>3. ToRcvOK' /\ ToSndOK'
  BY <1>1 DEF ToRcvOK, ToSndOK, RcvMsg, SndMsg
<1>4. \A q : Dist(q)' = Dist(q) /\ Have(q)' = Have(q)
  BY <1>1 DEF Dist, Have
<1>5. Ring'
  <2>1. \A q : Have(NRead + Dist(q))' = Have(NRead + Dist(q)) /\ Dist(q)' = Dist(q)
    BY <1>1, <1>4 DEF Have
  <2>2. Dist(m_iLastAckPos)' = Dist(m_iLastAckPos)
    BY DEF Dist
  <2> QED
    BY <1>1, <2>1, <2>2 DEF Ring
<1>6. Ends'
  BY DEF Ends
<1> QED
  BY <1>2, <1>3, <1>5, <1>6

LEMMA NextKeeps == UdtInv /\ [Next]_vars => UdtInv'
<1> SUFFICES ASSUME UdtInv, [Next]_vars PROVE UdtInv'
  OBVIOUS
<1>1. CASE SndAppNext
  BY <1>1, SendKeeps, SendUpdateKeeps, CloseKeeps DEF SndAppNext
<1>2. CASE SndQueueNext
  BY <1>2, PopLostKeeps, PackLostKeeps, PopNewKeeps, PopNothingKeeps, SendToKeeps
     DEF SndQueueNext
<1>3. CASE SndSideNext
  BY <1>3, RecvLiteKeeps, RecvAckKeeps, RecvNakKeeps, AckUpdateKeeps, ExpTimerKeeps,
     SndGiveUpKeeps DEF SndSideNext
<1>4. CASE RcvSideNext
  BY <1>4, RecvDataKeeps, RecvAck2Keeps, RecvShutdownKeeps, AckTimerKeeps, RcvGiveUpKeeps
     DEF RcvSideNext
<1>5. CASE RcvAppNext
  BY <1>5, AppReadKeeps, AppEofKeeps DEF RcvAppNext
<1>6. CASE UNCHANGED vars
  BY <1>6, StutterKeeps
<1> QED
  BY <1>1, <1>2, <1>3, <1>4, <1>5, <1>6 DEF Next, Terminated

\* A connection that connect() has set up.
LEMMA InitUdt == Init => UdtInv
<1> SUFFICES ASSUME Init PROVE UdtInv
  OBVIOUS
<1> USE DEF Init
<1>1. 0 \in Positions /\ At(0) \in Numbers /\ Pos(At(0)) = 0 /\ Prev(0) = ISN - 1
  BY NumberAt, Constants DEF Positions, Prev
<1>2. At(0) = ISN /\ incseq(ISN - 1) = At(0)
  <2>1. At(0) = ISN
    BY Constants, SeqNoAssumption DEF At, incseqBy, SeqNumbers
  <2> QED
    BY <1>1, <2>1, NextOf
<1>3. RcvNext = 0 /\ AckNumber = ISN /\ Missing = 0 /\ NRead = 0
  BY <1>1, <1>2 DEF RcvNext, AckNumber, Missing, NRead
<1>4. Order
  BY <1>1, <1>2, <1>3, Constants DEF Order
<1>5. SndLosses /\ RcvLosses /\ Hand /\ ToRcvOK /\ ToSndOK /\ Ends
  BY DEF SndLosses, RcvLosses, Hand, ToRcvOK, ToSndOK, Ends
<1>6. Window
  BY <1>1, <1>2, Constants DEF Window
<1>7. Ring
  <2>1. /\ m_iStartPos \in Slots /\ m_iLastAckPos \in Slots /\ Dist(m_iLastAckPos) = 0
        /\ Pos(m_iRcvLastAck) = 0 /\ 0 <= RcvBufSize - 1
    BY <1>1, <1>2, Constants DEF Slots, Dist
  <2>2. m_pUnit \in [Slots -> Nat] /\ \A q \in Slots : m_pUnit[q] = NoBlock
    BY DEF Slots, NoBlock
  <2>3. \A q \in Slots : Dist(q) \in Nat
    BY Constants DEF Slots, Dist
  <2>4. \A q \in Slots : ~Have(NRead + Dist(q))
    BY <1>3, <2>3 DEF Have
  <2>5. readBlocks \in Seq(Nat) /\ \A i \in 1 .. NRead : readBlocks[i] = i
    BY <1>3, EmptySeq
  <2>6. /\ NRead <= Pos(m_iRcvLastAck) /\ RcvNext <= NRead + RcvBufSize - 1
        /\ Dist(m_iLastAckPos) = Pos(m_iRcvLastAck) - NRead
    BY <1>3, <2>1, Constants
  <2> QED
    BY <2>1, <2>2, <2>4, <2>5, <2>6 DEF Ring
<1> QED
  BY <1>4, <1>5, <1>6, <1>7 DEF UdtInv

\* The inductive invariant holds for every transfer of fewer than half as many blocks as there
\* are numbers, from any initial number.
THEOREM UdtInvariant == Spec => []UdtInv
<1> QED
  BY InitUdt, NextKeeps, PTL DEF Spec

-------------------------------------------------------------------------------
(* The types, the order of both sides, and the loss lists.                 *)

LEMMA PrevIsNumber ==
  ASSUME NEW p \in Positions
  PROVE  Prev(p) \in SeqNumbers \cup {-1}
<1>1. At(p) \in Numbers
  BY NumberAt
<1> QED
  BY <1>1, AgainstLast

\* The types, and the blocks of the buffers in their bounds.
THEOREM TypeCorrect == Spec => []TypeOK
<1>1. ASSUME UdtInv PROVE TypeOK
  <2> USE <1>1 DEF UdtInv
  <2>1. lastBlock \in 0 .. NBlocks /\ firstBlock \in 0 .. lastBlock /\ currBlock \in 0 .. lastBlock
    BY Chain DEF Order
  <2>2. /\ m_iSndLastAck \in SeqNumbers /\ m_iSndLastDataAck \in SeqNumbers
        /\ m_iRcvLastAck \in SeqNumbers /\ m_iRcvLastAckAck \in SeqNumbers
    BY Where, PositionOf DEF Order
  <2>3. m_iSndCurrSeqNo \in SeqNumbers \cup {-1} /\ m_iRcvCurrSeqNo \in SeqNumbers \cup {-1}
    BY Where, PrevIsNumber DEF Order
  <2>4. m_pSndLossList \subseteq SeqNumbers /\ m_pRcvLossList \subseteq SeqNumbers
    BY PositionOf DEF SndLosses, RcvLosses
  <2>5. ASSUME NEW q \in Slots PROVE m_pUnit[q] \in Blocks \cup {NoBlock}
    <3>1. PICK y \in Int : y = NRead + Dist(q) /\ y >= 0
      BY DistApart, LenProperties, Constants DEF Ring, NRead
    <3>2. m_pUnit[q] = IF Have(y) THEN y + 1 ELSE NoBlock
      BY <3>1 DEF Ring
    <3>3. Have(y) => y + 1 \in Blocks
      BY <3>1, Chain, Constants DEF Have, Blocks
    <3> QED
      BY <3>2, <3>3
  <2>6. m_pUnit \in [0 .. RcvBufSize - 1 -> Blocks \cup {NoBlock}]
    BY <2>5 DEF Ring, Slots
  <2>7. m_iStartPos \in 0 .. RcvBufSize - 1 /\ m_iLastAckPos \in 0 .. RcvBufSize - 1
    BY DEF Ring, Slots
  <2> QED
    BY <2>1, <2>2, <2>3, <2>4, <2>6, <2>7 DEF TypeOK
<1> QED
  BY <1>1, UdtInvariant, PTL

\* Where both sides think the transfer stands is ordered along the stream, and the checks of
\* core.cpp:1990 and 2155 never fire, with any window and any wrap of the numbers.
THEOREM AckOrderHolds == Spec => []AckOrder
<1>1. ASSUME UdtInv PROVE AckOrder
  <2> USE <1>1 DEF UdtInv
  <2>1. At(currBlock) \in Numbers /\ Pos(At(currBlock)) = currBlock
    BY Where, NumberAt
  <2>2. At(RcvNext) \in Numbers /\ Pos(At(RcvNext)) = RcvNext
    BY Where, NumberAt
  <2>3. /\ m_iSndLastAck \in Numbers /\ m_iSndLastDataAck \in Numbers
        /\ m_iRcvLastAck \in Numbers /\ m_iRcvLastAckAck \in Numbers
        /\ AckNumber \in Numbers /\ Pos(AckNumber) = Missing
        /\ Pos(m_iSndLastDataAck) = firstBlock
    BY Where DEF Order, Missing
  <2>4. /\ seqcmp(m_iRcvLastAckAck, m_iSndLastDataAck) <= 0
        /\ seqcmp(m_iSndLastDataAck, m_iSndLastAck) <= 0
        /\ seqcmp(m_iSndLastDataAck, m_iRcvLastAck) <= 0
    BY <2>3, Chain, Compare
  <2>5. /\ seqcmp(m_iSndLastAck, AckNumber) <= 0
        /\ seqcmp(m_iRcvLastAck, AckNumber) <= 0
    BY <2>3, Chain, Compare
  <2>6. /\ seqcmp(AckNumber, At(RcvNext)) <= 0
        /\ seqcmp(At(RcvNext), At(currBlock)) <= 0
    BY <2>1, <2>2, <2>3, Chain, Compare
  <2>7. incseq(m_iSndCurrSeqNo) = At(currBlock) /\ incseq(m_iRcvCurrSeqNo) = At(RcvNext)
    BY Where
  <2>8. m_iSndLastDataAck = SeqOf(firstBlock + 1) /\ At(currBlock) = SeqOf(currBlock + 1)
    <3>1. ASSUME NEW n \in Int PROVE SeqOf(n + 1) = At(n)
      <4>1. n + 1 - 1 = n
        OBVIOUS
      <4> QED
        BY <4>1 DEF SeqOf, At
    <3>2. SeqOf(firstBlock + 1) = At(firstBlock) /\ SeqOf(currBlock + 1) = At(currBlock)
      BY <3>1, Chain
    <3> QED
      BY <3>2 DEF Order
  <2>9. sndState # "invalid"
    BY DEF Ends
  <2> QED
    BY <2>4, <2>5, <2>6, <2>7, <2>8, <2>9 DEF AckOrder
<1> QED
  BY <1>1, UdtInvariant, PTL

\* How far the numbers of a set reach.
LEMMA SpanOf ==
  ASSUME NEW S, S \subseteq Numbers, S # {}
  PROVE  \E s \in S, t \in S : Pos(s) <= Pos(t) /\ Span(S) = Pos(t) - Pos(s) + 1
<1>1. \A s \in S : Pos(s) \in Positions /\ Pos(s) \in Int /\ NBlocks - Pos(s) \in Nat
  BY PositionOf, Constants DEF Positions
<1>2. PICK t \in S : \A s \in S : Pos(s) <= Pos(t)
  <2> DEFINE P == {NBlocks - Pos(s) : s \in S}
  <2>1. P \subseteq Nat /\ P # {} /\ \A s \in S : NBlocks - Pos(s) \in P
    BY <1>1
  <2>2. \A p \in P : \E s \in S : NBlocks - Pos(s) = p
    OBVIOUS
  <2> HIDE DEF P
  <2>3. PICK p \in P : \A q \in P : p <= q
    BY <2>1, Least
  <2>4. PICK u \in S : NBlocks - Pos(u) = p
    BY <2>2
  <2>5. \A s \in S : NBlocks - Pos(u) <= NBlocks - Pos(s)
    BY <2>1, <2>3, <2>4
  <2>6. \A s \in S : Pos(s) <= Pos(u)
    BY <1>1, <2>5, Constants
  <2> QED
    BY <2>6
<1>3. \E u \in S : \A s \in S : seqcmp(s, u) <= 0
  BY <1>2, Compare
<1>4. PICK u \in S : /\ u = CHOOSE x \in S : \A s \in S : seqcmp(s, x) <= 0
                     /\ \A s \in S : seqcmp(s, u) <= 0
  BY <1>3
<1>5. FirstSeq(S) \in S /\ \A s \in S : Pos(FirstSeq(S)) <= Pos(s)
  BY FirstOf
<1>6. seqlen(FirstSeq(S), u) = Pos(u) - Pos(FirstSeq(S)) + 1
  BY <1>5, LengthOf
<1>7. Span(S) = seqlen(FirstSeq(S), u)
  BY <1>4 DEF Span
<1> QED
  BY <1>5, <1>6, <1>7

\* A loss list holds only what is outstanding, and its array is large enough.
THEOREM LossListsFitHolds == Spec => []LossListsFit
<1>1. ASSUME UdtInv PROVE LossListsFit
  <2> USE <1>1 DEF UdtInv
  <2>1. m_pSndLossList \subseteq SeqRange(m_iSndLastDataAck, m_iSndCurrSeqNo)
    <3> SUFFICES ASSUME NEW s \in m_pSndLossList
                 PROVE  s \in SeqRange(m_iSndLastDataAck, m_iSndCurrSeqNo)
      OBVIOUS
    <3>1. s \in Numbers /\ firstBlock <= Pos(s) /\ Pos(s) < currBlock /\ Pos(s) \in Int
      BY PositionOf DEF SndLosses, Positions
    <3>2. currBlock > 0 /\ currBlock - 1 \in Positions
      BY <3>1, Chain, Constants DEF Positions
    <3>3. m_iSndCurrSeqNo \in Numbers /\ Pos(m_iSndCurrSeqNo) = currBlock - 1
      BY <3>2, Chain, NumberAt DEF Order, Prev
    <3>4. Pos(s) <= Pos(m_iSndCurrSeqNo)
      BY <3>1, <3>3, Chain
    <3> QED
      BY <3>1, <3>3, <3>4, Where, RangeOf
  <2>2. m_pRcvLossList \subseteq SeqRange(m_iRcvLastAck, m_iRcvCurrSeqNo)
    <3> SUFFICES ASSUME NEW s \in m_pRcvLossList
                 PROVE  s \in SeqRange(m_iRcvLastAck, m_iRcvCurrSeqNo)
      OBVIOUS
    <3>1. s \in Numbers /\ Pos(m_iRcvLastAck) <= Pos(s) /\ Pos(s) < RcvNext /\ Pos(s) \in Int
      BY PositionOf DEF RcvLosses, Positions
    <3>2. RcvNext > 0 /\ RcvNext - 1 \in Positions
      BY <3>1, Chain, Constants DEF Positions
    <3>3. m_iRcvCurrSeqNo \in Numbers /\ Pos(m_iRcvCurrSeqNo) = RcvNext - 1
      BY <3>2, Chain, NumberAt DEF Order, Prev
    <3>4. Pos(s) <= Pos(m_iRcvCurrSeqNo) /\ m_iRcvLastAck \in Numbers
      BY <3>1, <3>3, Chain DEF Order
    <3> QED
      BY <3>1, <3>3, <3>4, RangeOf
  <2>3. Span(m_pSndLossList) <= 2 * PeerWindow
    <3>1. CASE m_pSndLossList = {}
      BY <3>1, Constants DEF Span
    <3>2. CASE m_pSndLossList # {}
      <4>1. PICK s \in m_pSndLossList, t \in m_pSndLossList :
              Pos(s) <= Pos(t) /\ Span(m_pSndLossList) = Pos(t) - Pos(s) + 1
        BY <3>2, SpanOf DEF SndLosses
      <4>2. /\ Pos(s) \in Int /\ Pos(t) \in Int
            /\ Pos(t) < currBlock /\ currBlock - Pos(s) <= PeerWindow
        BY PositionOf DEF SndLosses, Positions
      <4> QED
        BY <4>1, <4>2, Chain, Constants
    <3> QED
      BY <3>1, <3>2
  <2>4. Span(m_pRcvLossList) < RcvBufSize
    <3>1. CASE m_pRcvLossList = {}
      BY <3>1, Constants DEF Span
    <3>2. CASE m_pRcvLossList # {}
      <4>1. PICK s \in m_pRcvLossList, t \in m_pRcvLossList :
              Pos(s) <= Pos(t) /\ Span(m_pRcvLossList) = Pos(t) - Pos(s) + 1
        BY <3>2, SpanOf DEF RcvLosses
      <4>2. /\ Pos(s) \in Int /\ Pos(t) \in Int
            /\ Pos(t) < RcvNext /\ Pos(m_iRcvLastAck) <= Pos(s)
        BY PositionOf DEF RcvLosses, Positions
      <4>3. /\ NRead \in Int /\ NRead <= Pos(m_iRcvLastAck)
            /\ RcvNext <= NRead + RcvBufSize - 1
        BY LenProperties DEF Ring, NRead
      <4> QED
        BY <4>1, <4>2, <4>3, Chain, Constants
    <3> QED
      BY <3>1, <3>2
  <2> QED
    BY <2>1, <2>2, <2>3, <2>4 DEF LossListsFit
<1> QED
  BY <1>1, UdtInvariant, PTL

-------------------------------------------------------------------------------
(* The abstract specification: what Stream promises.                       *)

\* The blocks from the one after r up to the n-th after it: the queue of Stream.
Coming(r, n) == [i \in 1 .. n |-> r + i]

LEMMA ComingIsSeq ==
  ASSUME NEW r \in Nat, NEW n \in Nat
  PROVE  /\ Coming(r, n) \in Seq(Nat) /\ Len(Coming(r, n)) = n
         /\ \A i \in 1 .. n : Coming(r, n)[i] = r + i
         /\ Coming(r, n) = <<>> <=> n = 0
<1>1. Coming(r, n) \in [1 .. n -> Nat]
  BY DEF Coming
<1>2. Coming(r, n) \in Seq(Nat)
  BY <1>1, SeqDef
<1>3. Len(Coming(r, n)) = n
  BY <1>2 DEF Coming
<1>4. Coming(r, n) # <<>> => n \in Nat \ {0}
  BY <1>2, <1>3, EmptySeq
<1>5. Coming(r, n) = <<>> => n = 0
  BY <1>3, EmptySeq
<1> QED
  BY <1>2, <1>3, <1>4, <1>5 DEF Coming

\* Writing lengthens it by one, reading takes its first.
LEMMA ComingWritten ==
  ASSUME NEW r \in Nat, NEW n \in Nat
  PROVE  Coming(r, n + 1) = Append(Coming(r, n), r + n + 1)
<1>1. PICK s, q, t, k, e : /\ s = Coming(r, k) /\ k = n + 1 /\ e = r + n + 1
                           /\ q = Coming(r, n) /\ t = Append(q, e)
  OBVIOUS
<1>2. k \in Nat /\ s \in Seq(Nat) /\ Len(s) = k /\ \A i \in 1 .. k : s[i] = r + i
  <2>1. k \in Nat
    BY <1>1
  <2> QED
    BY <1>1, <2>1, ComingIsSeq
<1>3. q \in Seq(Nat) /\ Len(q) = n /\ (\A i \in 1 .. n : q[i] = r + i) /\ e \in Nat
  <2>1. e \in Nat
    BY <1>1
  <2>2. q \in Seq(Nat) /\ Len(q) = n /\ (\A i \in 1 .. n : q[i] = r + i)
    BY <1>1, ComingIsSeq, Zenon
  <2> QED
    BY <2>1, <2>2
<1>4. /\ t \in Seq(Nat) /\ Len(t) = n + 1
      /\ \A i \in 1 .. n : t[i] = r + i
      /\ t[n + 1] = e
  BY <1>1, <1>3, AppendProperties
<1>5. \A i \in 1 .. n + 1 : s[i] = t[i]
  <2> SUFFICES ASSUME NEW i \in 1 .. n + 1 PROVE s[i] = t[i]
    OBVIOUS
  <2>1. s[i] = r + i
    BY <1>1, <1>2
  <2>2. CASE i \in 1 .. n
    BY <1>4, <2>1, <2>2
  <2>3. CASE i = n + 1
    <3>1. e = r + i
      BY <1>1, <2>3
    <3> QED
      BY <1>4, <2>1, <2>3, <3>1
  <2> QED
    BY <2>2, <2>3
<1>6. s = t
  BY <1>1, <1>2, <1>4, <1>5, SeqEqual
<1> QED
  BY <1>1, <1>6

LEMMA ComingRead ==
  ASSUME NEW r \in Nat, NEW n \in Nat, n > 0
  PROVE  /\ Coming(r, n) # <<>> /\ Head(Coming(r, n)) = r + 1
         /\ Coming(r + 1, n - 1) = Tail(Coming(r, n))
<1>1. PICK s, t, q, e, k : /\ s = Coming(e, k) /\ e = r + 1 /\ k = n - 1
                           /\ q = Coming(r, n) /\ t = Tail(q)
  OBVIOUS
<1>2. s \in Seq(Nat) /\ Len(s) = n - 1 /\ \A i \in 1 .. n - 1 : s[i] = r + 1 + i
  <2>1. e \in Nat /\ k \in Nat
    BY <1>1
  <2>2. s \in Seq(Nat) /\ Len(s) = k /\ \A i \in 1 .. k : s[i] = e + i
    BY <1>1, <2>1, ComingIsSeq
  <2> QED
    BY <1>1, <2>2
<1>3. q \in Seq(Nat) /\ Len(q) = n /\ q # <<>> /\ \A i \in 1 .. n : q[i] = r + i
  <2>1. q \in Seq(Nat) /\ Len(q) = n /\ (\A i \in 1 .. n : q[i] = r + i)
    BY <1>1, ComingIsSeq, Zenon
  <2>2. q # <<>>
    BY <2>1, EmptySeq
  <2> QED
    BY <2>1, <2>2
<1>4. t \in Seq(Nat) /\ Len(t) = n - 1 /\ \A i \in 1 .. n - 1 : t[i] = q[i + 1]
  BY <1>1, <1>3, HeadTailProperties
<1>5. \A i \in 1 .. n - 1 : s[i] = t[i]
  BY <1>2, <1>3, <1>4
<1>6. Head(q) = r + 1
  BY <1>3
<1> QED
  BY <1>1, <1>2, <1>3, <1>4, <1>5, <1>6, SeqEqual

\* How far the reader is behind the writer.
Behind == lastBlock - NRead

LEMMA BehindIs ==
  ASSUME UdtInv
  PROVE  /\ Behind \in Nat /\ NRead \in Nat /\ lastBlock = NRead + Behind
         /\ NRead <= Pos(m_iRcvLastAck)
<1> USE DEF UdtInv
<1>1. NRead \in Nat /\ NRead <= Pos(m_iRcvLastAck)
  BY LenProperties DEF Ring, NRead
<1> QED
  BY <1>1, Chain DEF Behind

\* What the two applications see does not change: a stutter of Stream.
LEMMA SameView ==
  ASSUME lastBlock' = lastBlock, readBlocks' = readBlocks, eof' = eof, Status' = Status
  PROVE  UNCHANGED AsStream!streamVars
  BY DEF AsStream!streamVars

\* A stream is written to as long as it is not closed.
LEMMA SendWrites ==
  ASSUME UdtInv, Send
  PROVE  \E b \in Blocks : AsStream!Write(b)
<1>1. PICK r, n : r = NRead /\ n = Behind /\ r \in Nat /\ n \in Nat /\ lastBlock = r + n
  BY BehindIs
<1>2. lastBlock' = r + n + 1 /\ r + n + 1 \in Blocks /\ NRead' = r /\ readBlocks' = readBlocks
  BY <1>1, Constants DEF Send, Blocks, NRead, rcvVars
<1>3. Status # "closed" /\ Status' = Status /\ eof' = eof
  BY DEF Send, Status, sndVars, rcvVars
<1>4. [i \in 1 .. lastBlock - Len(readBlocks) |-> Len(readBlocks) + i] = Coming(r, n)
  BY <1>1 DEF Coming, NRead, Behind
<1>5. [i \in 1 .. lastBlock - Len(readBlocks) |-> Len(readBlocks) + i]' = Coming(r, n + 1)
  <2>1. lastBlock' - Len(readBlocks') = n + 1 /\ Len(readBlocks') = r
    BY <1>1, <1>2 DEF NRead
  <2> QED
    BY <2>1 DEF Coming
<1>6. Coming(r, n + 1) = Append(Coming(r, n), r + n + 1)
  BY <1>1, ComingWritten
<1>7. AsStream!Write(r + n + 1)
  BY <1>2, <1>3, <1>4, <1>5, <1>6 DEF AsStream!Write
<1> QED
  BY <1>2, <1>7

\* What is read is what was written first.
LEMMA AppReadReads ==
  ASSUME UdtInv, AppRead
  PROVE  AsStream!Read
<1>1. PICK r, n : r = NRead /\ n = Behind /\ r \in Nat /\ n \in Nat /\ lastBlock = r + n
  BY BehindIs
<1>2. n > 0 /\ readBlocks' = Append(readBlocks, r + 1) /\ NRead' = r + 1 /\ lastBlock' = r + n
  <2>1. r < Pos(m_iRcvLastAck) /\ readBlocks' = Append(readBlocks, r + 1) /\ NRead' = r + 1
    BY <1>1, ReadsNext DEF UdtInv
  <2> QED
    BY <1>1, <2>1, Chain DEF UdtInv, AppRead, appVars
<1>3. Status' = Status /\ eof' = eof /\ ~eof
  BY DEF AppRead, Status, sndVars
<1>4. [i \in 1 .. lastBlock - Len(readBlocks) |-> Len(readBlocks) + i] = Coming(r, n)
  BY <1>1 DEF Coming, NRead, Behind
<1>5. [i \in 1 .. lastBlock - Len(readBlocks) |-> Len(readBlocks) + i]' = Coming(r + 1, n - 1)
  <2>1. lastBlock' - Len(readBlocks') = n - 1 /\ Len(readBlocks') = r + 1
    BY <1>1, <1>2 DEF NRead
  <2> QED
    BY <2>1 DEF Coming
<1>6. /\ Coming(r, n) # <<>> /\ Head(Coming(r, n)) = r + 1
      /\ Coming(r + 1, n - 1) = Tail(Coming(r, n))
  BY <1>1, <1>2, ComingRead
<1> QED
  BY <1>2, <1>3, <1>4, <1>5, <1>6 DEF AsStream!Read

\* The reader is told of the end early only if the stream was cut.
LEMMA AppEofEnds ==
  ASSUME UdtInv, AppEof
  PROVE  AsStream!End
<1> USE DEF UdtInv
<1>1. PICK r, n : /\ r = NRead /\ n = Behind /\ r \in Nat /\ n \in Nat /\ lastBlock = r + n
                  /\ r <= Pos(m_iRcvLastAck)
  BY BehindIs
<1>2. Pos(m_iRcvLastAck) = r
  <2>1. Dist(m_iLastAckPos) = 0
    BY Constants DEF AppEof, getRcvDataSize, Dist, Ring, Slots
  <2> QED
    BY <1>1, <2>1, Chain DEF Ring
<1>3. \/ Status = "cut"
      \/ Status = "closed" /\ firstBlock = lastBlock
  BY DEF AppEof, Ends, Status
<1>4. firstBlock = lastBlock => n = 0
  BY <1>1, <1>2, Chain
<1>5. n = 0 => [i \in 1 .. lastBlock - Len(readBlocks) |-> Len(readBlocks) + i] = <<>>
  <2>1. Coming(r, n) = [i \in 1 .. lastBlock - Len(readBlocks) |-> Len(readBlocks) + i]
    BY <1>1 DEF Coming, NRead, Behind
  <2> QED
    BY <1>1, <2>1, ComingIsSeq
<1>6. /\ lastBlock' = lastBlock /\ readBlocks' = readBlocks /\ Status' = Status /\ eof' = TRUE
  BY DEF AppEof, Status, appVars, sndVars
<1> QED
  BY <1>3, <1>4, <1>5, <1>6 DEF AsStream!End

\* What ends the connection cuts the stream, unless close() waited until all was taken.
LEMMA EndsOrCuts ==
  ASSUME UdtInv, Close \/ SndGiveUp \/ RcvGiveUp
  PROVE  AsStream!Close \/ AsStream!Cut \/ UNCHANGED AsStream!streamVars
<1> USE DEF UdtInv
<1>1. lastBlock' = lastBlock /\ readBlocks' = readBlocks /\ eof' = eof
  BY DEF Close, SndGiveUp, RcvGiveUp, appVars, rcvVars
<1>2. \/ Status' = Status
      \/ Status = "open" /\ Status' = "closed"
      \/ Status # "cut" /\ Status' = "cut"
  <2>1. CASE Close
    BY <2>1 DEF Close, Status, Ends, rcvVars
  <2>2. CASE SndGiveUp
    BY <2>2 DEF SndGiveUp, SndListens, Status, Ends, rcvVars
  <2>3. CASE RcvGiveUp
    BY <2>3 DEF RcvGiveUp, Status, Ends, sndVars
  <2> QED
    BY <2>1, <2>2, <2>3
<1> QED
  BY <1>1, <1>2 DEF AsStream!Close, AsStream!Cut, AsStream!streamVars

LEMMA StreamStep == UdtInv /\ [Next]_vars => [AsStream!StreamNext]_AsStream!streamVars
<1> SUFFICES ASSUME UdtInv, [Next]_vars
             PROVE  AsStream!StreamNext \/ UNCHANGED AsStream!streamVars
  OBVIOUS
<1>1. ASSUME \/ SendUpdate \/ SndQueueNext \/ AckUpdate \/ ExpTimer \/ AckTimer
             \/ \E m \in toSnd : RecvLite(m)
             \/ \E m \in toRcv : RecvData(m) \/ RecvAck2(m) \/ RecvShutdown(m)
             \/ UNCHANGED vars
      PROVE  UNCHANGED AsStream!streamVars
  <2> USE DEF appVars, sndVars, netVars, rcvVars, vars
  <2>1. lastBlock' = lastBlock /\ readBlocks' = readBlocks /\ eof' = eof
    BY <1>1 DEF SendUpdate, SndQueueNext, AckUpdate, ExpTimer, AckTimer, RecvLite, RecvData,
                RecvAck2, RecvShutdown, PopLost, PackLost, PopNew, PopNothing, SendTo
  <2>2. sndState' = sndState /\ lingered' = lingered /\ rcvGaveUp' = rcvGaveUp
    BY <1>1 DEF SendUpdate, SndQueueNext, AckUpdate, ExpTimer, AckTimer, RecvLite, RecvData,
                RecvAck2, RecvShutdown, PopLost, PackLost, PopNew, PopNothing, SendTo
  <2> QED
    BY <2>1, <2>2, SameView DEF Status
<1>2. ASSUME NEW m \in toSnd, RecvAck(m) \/ RecvNak(m)
      PROVE  UNCHANGED AsStream!streamVars
  <2>1. UdtInv'
    BY <1>2, RecvAckKeeps, RecvNakKeeps
  <2>2. sndState = "up" /\ sndState' \in {"up", "invalid"}
    BY <1>2 DEF RecvAck, RecvNak, SndListens
  <2>3. sndState' = sndState
    BY <2>1, <2>2 DEF UdtInv, Ends
  <2>4. /\ lastBlock' = lastBlock /\ readBlocks' = readBlocks /\ eof' = eof
        /\ lingered' = lingered /\ rcvGaveUp' = rcvGaveUp
    BY <1>2 DEF RecvAck, RecvNak, appVars, rcvVars
  <2> QED
    BY <2>3, <2>4, SameView DEF Status
<1>3. ASSUME Close \/ SndGiveUp \/ RcvGiveUp
      PROVE  AsStream!StreamNext \/ UNCHANGED AsStream!streamVars
  BY <1>3, EndsOrCuts DEF AsStream!StreamNext
<1>4. ASSUME Send PROVE AsStream!StreamNext
  BY <1>4, SendWrites DEF AsStream!StreamNext
<1>5. ASSUME AppRead \/ AppEof PROVE AsStream!StreamNext
  BY <1>5, AppReadReads, AppEofEnds DEF AsStream!StreamNext
<1> QED
  BY <1>1, <1>2, <1>3, <1>4, <1>5
     DEF Next, SndAppNext, SndSideNext, RcvSideNext, RcvAppNext, Terminated

\* The two sides of a connection are a stream: the reader gets what send() took, once and in
\* order, whatever the network loses, repeats and reorders, for buffers and windows of any
\* size and any wrap of the numbers, and is told of the end early only if one side gave up.
THEOREM StreamRefined == Spec => StreamSpec
<1>1. Init => AsStream!StreamInit
  <2> SUFFICES ASSUME Init PROVE AsStream!StreamInit
    OBVIOUS
  <2>1. lastBlock - Len(readBlocks) = 0 /\ Len(readBlocks) = 0
    <3>1. readBlocks = <<>> /\ lastBlock = 0
      BY DEF Init
    <3>2. Len(readBlocks) = 0
      BY <3>1, EmptySeq
    <3>3. 0 - 0 = 0
      OBVIOUS
    <3> QED
      BY <3>1, <3>2, <3>3
  <2>2. [i \in 1 .. lastBlock - Len(readBlocks) |-> Len(readBlocks) + i] = Coming(0, 0)
    BY <2>1 DEF Coming
  <2>3. Coming(0, 0) = <<>>
    BY ComingIsSeq
  <2> QED
    BY <2>2, <2>3 DEF Init, Status, AsStream!StreamInit
<1> QED
  BY <1>1, StreamStep, UdtInvariant, PTL DEF Spec, StreamSpec, AsStream!StreamSpec
==============================================================================
