--------------------------- MODULE FramingProofs ---------------------------
(***************************************************************************)
(* Machine-checked proofs about Framing, for any number of packs of any    *)
(* length, headers and buffers of any size, and any way in which TCP cuts  *)
(* the stream.                                                             *)
(***************************************************************************)
EXTENDS Framing, SequenceTheorems, TLAPS

-----------------------------------------------------------------------------
(* The invariant.                                                          *)

Ends(p) == p.at + HeadSize + p.len

\* The packs lie in the stream one behind the other.
SentOK ==
  /\ sent \in Seq([at : Nat, len : 1..MaxLen])
  /\ Len(sent) <= NPacks
  /\ \A i \in 1..Len(sent) : Ends(sent[i]) = Start(i + 1) /\ Ends(sent[i]) <= StreamLen
  /\ \A i, j \in 1..Len(sent) : i < j => Ends(sent[i]) <= sent[j].at
  /\ Start(1) = 0

\* What has been read is part of the stream, and the loop stands in it.
ReadOK ==
  /\ taken \in Nat /\ left \in Nat /\ left <= taken /\ taken <= StreamLen
  /\ remain \in Nat /\ packlen \in Nat
  /\ side \in {"server", "client"} /\ state \in {"reads", "stopped", "wild"}

\* The packs handed on are the first ones of those sent.
HandedOK ==
  /\ handed \in Seq([len : Nat, data : Seq(Nat)])
  /\ Len(handed) <= Len(sent)
  /\ \A i \in 1..Len(handed) : handed[i] = [len |-> sent[i].len, data |-> Payload(i)]

\* The loop stands where a header begins, or in the pack after those handed on; then data has
\* the bytes of this pack before that place.
AtOK ==
  LET k == Len(handed) + 1
  IN  /\ remain = 0 => data = <<>> /\ Pos = Start(k)
      /\ remain > 0 => /\ k <= Len(sent)
                       /\ packlen = sent[k].len /\ remain <= packlen
                       /\ Pos = Start(k) + HeadSize + packlen - remain
                       /\ data = Bytes(Start(k) + HeadSize, packlen - remain)

\* It has stopped only in front of a header of which a part was read.
CutOK == state # "reads" => remain = 0 /\ left \in 1..HeadSize - 1

FramingInv == SentOK /\ ReadOK /\ HandedOK /\ AtOK /\ CutOK

-----------------------------------------------------------------------------
(* Bytes of the stream.                                                    *)

LEMMA BytesType ==
  ASSUME NEW p \in Nat, NEW n \in Nat
  PROVE  Bytes(p, n) \in Seq(Nat) /\ Len(Bytes(p, n)) = n
         /\ \A k \in 1..n : Bytes(p, n)[k] = p + k
<1>1. \A k \in 1..n : p + k \in Nat
  OBVIOUS
<1> QED BY <1>1 DEF Bytes

LEMMA NoBytes == ASSUME NEW p \in Nat PROVE Bytes(p, 0) = <<>>
<1>1. Bytes(p, 0) \in Seq(Nat) /\ Len(Bytes(p, 0)) = 0
  BY BytesType
<1> QED BY <1>1

\* Bytes that follow one another are bytes in a row.
LEMMA BytesJoin ==
  ASSUME NEW p \in Nat, NEW m \in Nat, NEW n \in Nat
  PROVE  Bytes(p, m) \o Bytes(p + m, n) = Bytes(p, m + n)
<1> DEFINE a == Bytes(p, m)
           b == Bytes(p + m, n)
           c == Bytes(p, m + n)
<1>1. /\ a \in Seq(Nat) /\ Len(a) = m /\ \A k \in 1..m : a[k] = p + k
      /\ b \in Seq(Nat) /\ Len(b) = n /\ \A k \in 1..n : b[k] = p + m + k
      /\ c \in Seq(Nat) /\ Len(c) = m + n /\ \A k \in 1..(m + n) : c[k] = p + k
  BY BytesType, p + m \in Nat, m + n \in Nat
<1> HIDE DEF a, b, c
<1>2. /\ a \o b \in Seq(Nat) /\ Len(a \o b) = m + n
      /\ \A k \in 1..(m + n) : (a \o b)[k] = IF k <= m THEN a[k] ELSE b[k - m]
  BY <1>1, ConcatProperties
<1>3. ASSUME NEW k \in 1..(m + n) PROVE (a \o b)[k] = p + k
  <2>1. CASE k <= m
    BY <2>1, <1>1, <1>2
  <2>2. CASE k > m
    <3>1. (a \o b)[k] = b[k - m] /\ k - m \in 1..n
      BY <2>2, <1>2
    <3>2. b[k - m] = p + m + (k - m)
      BY <3>1, <1>1
    <3> QED BY <3>1, <3>2
  <2>3. k <= m \/ k > m
    OBVIOUS
  <2> QED BY <2>1, <2>2, <2>3, Zenon
<1>4. a \o b = c
  <2>1. Len(a \o b) = Len(c) /\ \A k \in 1..Len(a \o b) : (a \o b)[k] = c[k]
    BY <1>1, <1>2, <1>3
  <2> QED BY <2>1, <1>1, <1>2, SeqEqual, Zenon
<1> QED BY <1>4 DEF a, b, c

-----------------------------------------------------------------------------
(* The packs in the stream.                                                *)

LEMMA StartType ==
  ASSUME FramingAssumption, SentOK
  PROVE  /\ StreamLen \in Nat
         /\ \A i \in Int : Start(i) \in Nat
         /\ \A i \in 1..Len(sent) : /\ sent[i].at \in Nat /\ sent[i].len \in Nat \ {0}
                                    /\ Start(i) = sent[i].at
         /\ Start(Len(sent) + 1) = StreamLen /\ Len(sent) \in Nat
<1>1. sent \in Seq([at : Nat, len : 1..MaxLen]) /\ HeadSize \in Nat
  BY DEF SentOK, FramingAssumption
<1>2. /\ \A i \in 1..Len(sent) : sent[i].at \in Nat /\ sent[i].len \in Nat \ {0}
      /\ Len(sent) \in Nat
  <2>1. \A i \in 1..Len(sent) : sent[i] \in [at : Nat, len : 1..MaxLen]
    BY <1>1, ElementOfSeq
  <2> QED BY <2>1, <1>1, LenProperties DEF FramingAssumption
<1>3. StreamLen \in Nat
  <2>1. CASE sent = <<>>
    BY <2>1 DEF StreamLen
  <2>2. CASE sent # <<>>
    <3>1. Len(sent) \in 1..Len(sent)
      BY <2>2, <1>1, EmptySeq
    <3> QED BY <2>2, <3>1, <1>1, <1>2 DEF StreamLen
  <2> QED BY <2>1, <2>2
<1> QED BY <1>2, <1>3 DEF Start

\* A place in the stream is the beginning of one pack at most, and what a header there says is
\* the length of this pack.
LEMMA LengthThere ==
  ASSUME FramingAssumption, SentOK, NEW i \in 1..Len(sent)
  PROVE  LengthAt(sent[i].at) = sent[i].len
<1>1. \A j \in 1..Len(sent) : sent[j].at = sent[i].at => j = i
  <2> SUFFICES ASSUME NEW j \in 1..Len(sent), sent[j].at = sent[i].at, j # i PROVE FALSE
    OBVIOUS
  <2>0. /\ sent[i].at \in Nat /\ sent[i].len \in Nat
        /\ sent[j].at \in Nat /\ sent[j].len \in Nat
        /\ HeadSize \in Nat \ {0}
    BY StartType DEF FramingAssumption
  <2>1. Ends(sent[i]) > sent[i].at /\ Ends(sent[j]) > sent[j].at
    BY <2>0 DEF Ends
  <2>2. /\ sent[i].at \in Nat /\ sent[j].at \in Nat
        /\ Ends(sent[i]) \in Int /\ Ends(sent[j]) \in Int
    BY <2>0 DEF Ends
  <2>3. Len(sent) \in Nat
    BY StartType
  <2>4. (i < j => Ends(sent[i]) <= sent[j].at) /\ (j < i => Ends(sent[j]) <= sent[i].at)
    BY DEF SentOK
  <2> QED BY <2>1, <2>2, <2>3, <2>4
<1>2. (CHOOSE k \in 1..Len(sent) : sent[k].at = sent[i].at) = i
  BY <1>1
<1> QED BY <1>2 DEF LengthAt

\* What the peer sends changes nothing of the packs before.
LEMMA SendStep ==
  ASSUME FramingAssumption, SentOK, NEW len \in 1..MaxLen, Send(len)
  PROVE  /\ SentOK'
         /\ Len(sent)' = Len(sent) + 1
         /\ StreamLen' \in Nat /\ StreamLen' >= StreamLen
         /\ \A i \in 1..Len(sent) : sent'[i] = sent[i] /\ Payload(i)' = Payload(i)
         /\ \A i \in 1..(Len(sent) + 1) : Start(i)' = Start(i)
<1> DEFINE n == Len(sent)
           new == [at |-> StreamLen, len |-> len]
<1>0. /\ n \in Nat /\ StreamLen \in Nat /\ Start(n + 1) = StreamLen
      /\ \A i \in 1..n : sent[i].at \in Nat /\ sent[i].len \in Nat \ {0} /\ Start(i) = sent[i].at
  BY StartType
<1>1. /\ sent' = Append(sent, new) /\ sent \in Seq([at : Nat, len : 1..MaxLen])
      /\ new \in [at : Nat, len : 1..MaxLen] /\ n < NPacks
  BY <1>0 DEF Send, SentOK
<1>2. /\ sent' \in Seq([at : Nat, len : 1..MaxLen]) /\ Len(sent') = n + 1
      /\ \A i \in 1..n : sent'[i] = sent[i]
      /\ sent'[n + 1] = new
  BY <1>1
<1>3. StreamLen' = StreamLen + HeadSize + len
  BY <1>0, <1>2 DEF StreamLen
<1>4. HeadSize \in Nat /\ len \in Nat
  BY DEF FramingAssumption
<1>5. StreamLen' \in Nat /\ StreamLen' >= StreamLen
  BY <1>0, <1>3, <1>4
<1>6. \A i \in 1..(n + 1) : Start(i)' = Start(i)
  <2> TAKE i \in 1..(n + 1)
  <2>1. CASE i <= n
    BY <2>1, <1>0, <1>2 DEF Start
  <2>2. CASE i = n + 1
    BY <2>2, <1>0, <1>2 DEF Start
  <2> QED BY <2>1, <2>2, <1>0
<1>7. \A i \in 1..n : Payload(i)' = Payload(i)
  BY <1>2, <1>6, <1>0 DEF Payload, Bytes
<1>8. SentOK'
  <2>1. Start(n + 2)' = StreamLen'
    BY <1>2, <1>0 DEF Start
  <2>2. /\ \A i \in 1..n : Ends(sent[i]) = Start(i + 1) /\ Ends(sent[i]) <= StreamLen
        /\ \A i, j \in 1..n : i < j => Ends(sent[i]) <= sent[j].at
    BY DEF SentOK
  <2>3. Ends(new) = StreamLen'
    BY <1>3 DEF Ends
  <2>4. \A i \in 1..n : Ends(sent[i]) \in Int
    BY <1>0, <1>4 DEF Ends
  <2>5. ASSUME NEW i \in 1..(n + 1)
        PROVE  Ends(sent'[i]) = Start(i + 1)' /\ Ends(sent'[i]) <= StreamLen'
    <3>1. CASE i <= n
      <4>1. i \in 1..n /\ i + 1 \in 1..(n + 1)
        BY <3>1, <1>0
      <4>2. sent'[i] = sent[i] /\ Start(i + 1)' = Start(i + 1)
        BY <4>1, <1>2, <1>6
      <4>3. Ends(sent[i]) = Start(i + 1) /\ Ends(sent[i]) <= StreamLen /\ Ends(sent[i]) \in Int
        BY <4>1, <2>2, <2>4
      <4> HIDE DEF n
      <4> QED BY <4>2, <4>3, <1>0, <1>3, <1>4
    <3>2. CASE i = n + 1
      <4>1. i + 1 = n + 2
        BY <3>2, <1>0
      <4>2. Ends(sent'[i]) = StreamLen'
        BY <3>2, <1>2, <2>3
      <4>3. StreamLen' \in Nat
        BY <1>0, <1>3, <1>4
      <4>4. Start(i + 1)' = StreamLen'
        BY <4>1, <1>2, <1>0 DEF Start
      <4> QED BY <4>2, <4>3, <4>4
    <3> QED BY <3>1, <3>2, <1>0
  <2>6. ASSUME NEW i \in 1..(n + 1), NEW j \in 1..(n + 1), i < j
        PROVE  Ends(sent'[i]) <= sent'[j].at
    <3>1. i \in 1..n
      BY <2>6, <1>0
    <3>2. CASE j <= n
      <4>1. j \in 1..n
        BY <3>2, <1>0
      <4> QED BY <3>1, <4>1, <2>6, <2>2, <1>2
    <3>3. CASE j = n + 1
      BY <3>1, <3>3, <1>0, <1>2, <2>2
    <3> QED BY <3>2, <3>3, <1>0
  <2>7. Start(1)' = 0
    BY <1>6, <1>0 DEF SentOK
  <2>8. Len(sent') <= NPacks
    BY <1>1, <1>2, <1>0 DEF FramingAssumption
  <2>9. \A i \in 1..Len(sent') : Ends(sent'[i]) = Start(i + 1)' /\ Ends(sent'[i]) <= StreamLen'
    BY <2>5, <1>2
  <2>10. \A i, j \in 1..Len(sent') : i < j => Ends(sent'[i]) <= sent'[j].at
    BY <2>6, <1>2
  <2> HIDE DEF n, new
  <2> QED BY <2>7, <2>8, <2>9, <2>10, <1>2 DEF SentOK, Ends
<1> QED BY <1>2, <1>5, <1>6, <1>7, <1>8

-----------------------------------------------------------------------------
(* The invariant holds.                                                    *)

LEMMA FramingStart == FramingAssumption /\ Init => FramingInv
<1> SUFFICES ASSUME FramingAssumption, Init PROVE FramingInv
  OBVIOUS
<1>1. Len(sent) = 0 /\ Len(handed) = 0 /\ StreamLen = 0 /\ Start(1) = 0
  BY DEF Init, StreamLen, Start
<1>2. SentOK
  BY <1>1, EmptySeq DEF Init, SentOK, FramingAssumption
<1>3. ReadOK
  BY <1>1 DEF Init, ReadOK
<1>4. HandedOK
  BY <1>1, EmptySeq DEF Init, HandedOK
<1>5. AtOK
  BY <1>1 DEF Init, AtOK, Pos
<1>6. CutOK
  BY DEF Init, CutOK
<1> QED BY <1>2, <1>3, <1>4, <1>5, <1>6 DEF FramingInv

\* A step that sends nothing leaves the packs where they are.
LEMMA SentSame ==
  ASSUME sent' = sent
  PROVE  /\ SentOK => SentOK'
         /\ StreamLen' = StreamLen
         /\ \A i : Start(i)' = Start(i) /\ Payload(i)' = Payload(i)
<1>1. StreamLen' = StreamLen
  BY DEF StreamLen
<1>2. \A i : Start(i)' = Start(i)
  BY <1>1 DEF Start
<1> QED BY <1>1, <1>2 DEF Payload, SentOK, Bytes

\* Where the loop is, in the packs of the peer.
LEMMA WhereItIs ==
  ASSUME FramingAssumption, FramingInv
  PROVE  /\ Len(handed) \in Nat /\ Len(sent) \in Nat /\ Len(handed) <= Len(sent)
         /\ StreamLen \in Nat /\ Pos \in Nat /\ Pos + left = taken
         /\ Start(Len(handed) + 1) \in Nat
         /\ Len(handed) + 1 <= Len(sent) =>
               LET k == Len(handed) + 1
               IN  /\ sent[k].at = Start(k) /\ sent[k].len \in Nat \ {0}
                   /\ Start(k) + HeadSize + sent[k].len = Start(k + 1)
                   /\ Start(k + 1) <= StreamLen
         /\ ~(Len(handed) + 1 <= Len(sent)) => Start(Len(handed) + 1) = StreamLen
<1> DEFINE k == Len(handed) + 1
<1>0. SentOK /\ ReadOK /\ HandedOK
  BY DEF FramingInv
<1>1. /\ StreamLen \in Nat /\ Len(sent) \in Nat /\ Start(Len(sent) + 1) = StreamLen
      /\ \A i \in Int : Start(i) \in Nat
      /\ \A i \in 1..Len(sent) : sent[i].len \in Nat \ {0} /\ Start(i) = sent[i].at
  BY <1>0, StartType
<1>2. Len(handed) \in Nat /\ Len(handed) <= Len(sent)
  BY <1>0, LenProperties DEF HandedOK
<1>3. Pos \in Nat /\ Pos + left = taken
  BY <1>0 DEF ReadOK, Pos
<1>4. ASSUME k <= Len(sent)
      PROVE  /\ sent[k].at = Start(k) /\ sent[k].len \in Nat \ {0}
             /\ Start(k) + HeadSize + sent[k].len = Start(k + 1)
             /\ Start(k + 1) <= StreamLen
  <2>1. k \in 1..Len(sent)
    BY <1>4, <1>2
  <2>2. Ends(sent[k]) = Start(k + 1) /\ Ends(sent[k]) <= StreamLen
    BY <2>1, <1>0 DEF SentOK
  <2>3. sent[k].at = Start(k) /\ sent[k].len \in Nat \ {0}
    BY <2>1, <1>1
  <2> QED BY <2>2, <2>3 DEF Ends
<1>5. ~(k <= Len(sent)) => k = Len(sent) + 1
  BY <1>1, <1>2
<1>6. Start(k) \in Nat
  BY <1>1, <1>2
<1> QED BY <1>1, <1>2, <1>3, <1>4, <1>5, <1>6

LEMMA SendKeeps ==
  ASSUME FramingAssumption, FramingInv, NEW len \in 1..MaxLen, Send(len)
  PROVE  FramingInv'
<1> PICK k : k = Len(handed) + 1
  OBVIOUS
<1>0. SentOK /\ ReadOK /\ HandedOK /\ AtOK /\ CutOK
  BY DEF FramingInv
<1>1. /\ SentOK' /\ Len(sent)' = Len(sent) + 1 /\ StreamLen' \in Nat /\ StreamLen' >= StreamLen
      /\ \A i \in 1..Len(sent) : sent'[i] = sent[i] /\ Payload(i)' = Payload(i)
      /\ \A i \in 1..(Len(sent) + 1) : Start(i)' = Start(i)
  BY <1>0, SendStep
<1>2. UNCHANGED <<side, taken, left, remain, packlen, data, handed, state>>
  BY DEF Send
<1>3. /\ Len(handed) \in Nat /\ Len(sent) \in Nat /\ Len(handed) <= Len(sent)
      /\ StreamLen \in Nat
  BY WhereItIs
<1>5. ReadOK'
  BY <1>0, <1>1, <1>2, <1>3 DEF ReadOK
<1>6. HandedOK'
  <2>1. \A i \in 1..Len(handed) : i \in 1..Len(sent)
    BY <1>3
  <2>2. \A i \in 1..Len(handed) : handed[i] = [len |-> sent'[i].len, data |-> Payload(i)']
    BY <2>1, <1>0, <1>1 DEF HandedOK
  <2>3. Len(handed) <= Len(sent)'
    BY <1>1, <1>3
  <2> QED BY <2>2, <2>3, <1>0, <1>2 DEF HandedOK
<1>7. AtOK'
  <2>1. Pos' = Pos
    BY <1>2 DEF Pos
  <2>2. k \in 1..(Len(sent) + 1) /\ Len(handed)' + 1 = k
    BY <1>2, <1>3
  <2>3. Start(k)' = Start(k)
    BY <2>2, <1>1
  <2>4. remain > 0 => k \in 1..Len(sent) /\ sent'[k] = sent[k] /\ k <= Len(sent)'
    BY <2>2, <1>0, <1>1, <1>3 DEF AtOK
  <2>5. /\ remain = 0 => data = <<>> /\ Pos = Start(k)
        /\ remain > 0 => /\ k <= Len(sent)
                         /\ packlen = sent[k].len /\ remain <= packlen
                         /\ Pos = Start(k) + HeadSize + packlen - remain
                         /\ data = Bytes(Start(k) + HeadSize, packlen - remain)
    BY <1>0 DEF AtOK
  <2> QED BY <2>1, <2>2, <2>3, <2>4, <2>5, <1>2 DEF AtOK, Bytes
<1>8. CutOK'
  BY <1>0, <1>2 DEF CutOK
<1> QED BY <1>1, <1>5, <1>6, <1>7, <1>8 DEF FramingInv

LEMMA ReadKeeps ==
  ASSUME FramingAssumption, FramingInv, NEW n \in 1..BufSize, Read(n)
  PROVE  FramingInv'
<1>0. SentOK /\ ReadOK /\ HandedOK /\ AtOK /\ CutOK
  BY DEF FramingInv
<1>1. /\ state = "reads" /\ left = 0 /\ taken + n <= StreamLen
      /\ taken' = taken + n /\ left' = n
      /\ UNCHANGED <<side, sent, remain, packlen, data, handed, state>>
  BY DEF Read
<1>2. n \in Nat
  BY DEF FramingAssumption
<1>3. /\ SentOK' /\ StreamLen' = StreamLen
      /\ \A i : Start(i)' = Start(i) /\ Payload(i)' = Payload(i)
  BY <1>0, <1>1, SentSame
<1>4. Pos' = Pos
  BY <1>0, <1>1, <1>2 DEF Pos, ReadOK
<1>5. ReadOK'
  BY <1>0, <1>1, <1>2, <1>3 DEF ReadOK
<1>6. HandedOK'
  BY <1>0, <1>1, <1>3 DEF HandedOK
<1>7. AtOK'
  BY <1>0, <1>1, <1>3, <1>4 DEF AtOK, Bytes
<1>8. CutOK'
  BY <1>0, <1>1 DEF CutOK
<1> QED BY <1>3, <1>5, <1>6, <1>7, <1>8 DEF FramingInv

\* A turn of the loop that leaves the pack behind len - rest of its bytes: it is handed on if
\* rest is none.
LEMMA TurnKeeps ==
  ASSUME FramingAssumption, FramingInv, Len(handed) + 1 <= Len(sent),
         NEW rest \in Nat, NEW len, NEW bytes, NEW got \in Nat,
         len = sent[Len(handed) + 1].len, rest <= len,
         bytes = Bytes(Start(Len(handed) + 1) + HeadSize, len - rest),
         HandOn(rest, len, bytes),
         got <= left, left' = left - got,
         Pos + got = Start(Len(handed) + 1) + HeadSize + len - rest,
         state = "reads", UNCHANGED <<side, sent, taken, state>>
  PROVE  FramingInv'
<1>0. SentOK /\ ReadOK /\ HandedOK /\ AtOK /\ CutOK
  BY DEF FramingInv
<1> PICK k : k = Len(handed) + 1
  OBVIOUS
<1>1. /\ SentOK' /\ StreamLen' = StreamLen
      /\ \A i : Start(i)' = Start(i) /\ Payload(i)' = Payload(i)
  BY <1>0, SentSame
<1>2. /\ Len(handed) \in Nat /\ Len(sent) \in Nat /\ k \in 1..Len(sent)
      /\ Pos \in Nat /\ Start(k) \in Nat /\ sent[k].at = Start(k) /\ sent[k].len \in Nat \ {0}
      /\ Start(k) + HeadSize + sent[k].len = Start(k + 1)
      /\ HeadSize \in Nat
  BY WhereItIs DEF FramingAssumption
<1>3. /\ remain' = rest /\ packlen' = len
      /\ data' = (IF rest > 0 THEN bytes ELSE <<>>)
      /\ handed' = (IF rest > 0 THEN handed ELSE Append(handed, [len |-> len, data |-> bytes]))
  BY DEF HandOn
<1>4. /\ len = sent[k].len /\ len \in Nat
      /\ bytes = Bytes(Start(k) + HeadSize, len - rest) /\ bytes \in Seq(Nat)
  <2>1. len = sent[k].len /\ bytes = Bytes(Start(k) + HeadSize, len - rest)
    OBVIOUS
  <2>2. len \in Nat
    BY <2>1, <1>2
  <2>3. len - rest \in Nat
    BY <2>2
  <2>4. Start(k) + HeadSize \in Nat
    <3>1. Start(k) \in Nat /\ HeadSize \in Nat
      BY <1>2
    <3> QED BY <3>1
  <2> QED BY <2>1, <2>2, <2>3, <2>4, BytesType
<1>5. Pos' = Pos + got
  BY <1>0 DEF Pos, ReadOK
<1>6. ReadOK'
  BY <1>0, <1>1, <1>3, <1>4 DEF ReadOK
<1>7. CutOK'
  BY DEF CutOK
<1>8. CASE rest > 0
  <2>1. handed' = handed /\ data' = bytes
    BY <1>3, <1>8
  <2>2. HandedOK'
    BY <2>1, <1>0, <1>1 DEF HandedOK
  <2>3. AtOK'
    BY <2>1, <1>1, <1>2, <1>3, <1>4, <1>5, <1>8 DEF AtOK, Bytes
  <2> QED BY <2>2, <2>3, <1>1, <1>6, <1>7 DEF FramingInv
<1>9. CASE rest = 0
  <2> DEFINE p == [len |-> len, data |-> bytes]
  <2>1. handed' = Append(handed, p) /\ data' = <<>> /\ remain' = 0
    BY <1>3, <1>9
  <2>2. p = [len |-> sent[k].len, data |-> Payload(k)] /\ p \in [len : Nat, data : Seq(Nat)]
    BY <1>2, <1>4, <1>9 DEF Payload
  <2>3. handed \in Seq([len : Nat, data : Seq(Nat)])
    BY <1>0 DEF HandedOK
  <2> HIDE DEF p
  <2>4. /\ handed' \in Seq([len : Nat, data : Seq(Nat)]) /\ Len(handed') = k
        /\ \A i \in 1..Len(handed) : handed'[i] = handed[i]
        /\ handed'[k] = p
    BY <2>1, <2>2, <2>3, <1>2
  <2>5. HandedOK'
    <3>1. ASSUME NEW i \in 1..k
          PROVE  handed'[i] = [len |-> sent[i].len, data |-> Payload(i)]
      <4>1. CASE i = k
        BY <4>1, <2>2, <2>4
      <4>2. CASE i # k
        <5>1. i \in 1..Len(handed)
          BY <4>2, <1>2
        <5> QED BY <5>1, <2>4, <1>0 DEF HandedOK
      <4> QED BY <4>1, <4>2
    <3> QED BY <3>1, <2>4, <1>1, <1>2 DEF HandedOK
  <2>6. AtOK'
    <3>1. Pos' = Start(k + 1)
      BY <1>2, <1>4, <1>5, <1>9
    <3> QED BY <3>1, <2>1, <2>4, <1>1 DEF AtOK
  <2> QED BY <2>5, <2>6, <1>1, <1>6, <1>7 DEF FramingInv
<1> QED BY <1>8, <1>9

LEMMA NewPackKeeps ==
  ASSUME FramingAssumption, FramingInv, NewPack
  PROVE  FramingInv'
<1> DEFINE k == Len(handed) + 1
           len == LengthAt(Pos)
           over == left - HeadSize - len
           rest == IF over < 0 THEN -over ELSE 0
           got == len - rest
<1>0. ReadOK /\ AtOK /\ SentOK
  BY DEF FramingInv
<1>1. /\ state = "reads" /\ remain = 0 /\ left >= HeadSize
      /\ HandOn(rest, len, Bytes(Pos + HeadSize, got))
      /\ left' = left - HeadSize - got
      /\ UNCHANGED <<side, sent, taken, state>>
  BY DEF NewPack
<1>2. Pos = Start(k)
  BY <1>0, <1>1 DEF AtOK
<1>3. HeadSize \in Nat \ {0} /\ left \in Nat
  BY <1>0 DEF FramingAssumption, ReadOK
<1>4. k <= Len(sent)
  \* otherwise nothing would be left of the stream
  <2>1. Pos + HeadSize <= StreamLen
    BY <1>0, <1>1, <1>3, WhereItIs DEF ReadOK
  <2> QED BY <2>1, <1>2, <1>3, WhereItIs
<1>5. /\ Len(handed) \in Nat /\ Pos \in Nat /\ sent[k].at = Start(k) /\ sent[k].len \in Nat \ {0}
      /\ Len(sent) \in Nat
  BY <1>4, WhereItIs
<1>6. len = sent[k].len
  <2>1. k \in 1..Len(sent)
    BY <1>4, <1>5
  <2> QED BY <2>1, <1>0, <1>2, <1>5, LengthThere
<1> HIDE DEF len
<1>7. /\ len \in Nat /\ rest \in Nat /\ rest <= len /\ got \in Nat /\ got = len - rest
      /\ HeadSize + got \in Nat /\ HeadSize + got <= left
      /\ left' = left - (HeadSize + got)
      /\ Pos + (HeadSize + got) = Start(k) + HeadSize + len - rest
  <2>1. len \in Nat
    BY <1>5, <1>6
  <2>2. rest = (IF left - HeadSize < len THEN len - (left - HeadSize) ELSE 0)
    BY <2>1, <1>3
  <2>3. /\ rest \in Nat /\ rest <= len /\ got \in Nat /\ got = len - rest
        /\ HeadSize + got \in Nat /\ HeadSize + got <= left
    BY <2>1, <2>2, <1>1, <1>3
  <2> HIDE DEF rest, over
  <2>4. left' = left - (HeadSize + got)
    BY <2>3, <1>1, <1>3
  <2>5. Pos + (HeadSize + got) = Pos + HeadSize + len - rest
    BY <2>1, <2>3, <1>3, <1>5
  <2> QED BY <2>1, <2>3, <2>4, <2>5, <1>2
<1>8. HandOn(rest, len, Bytes(Start(k) + HeadSize, len - rest))
  BY <1>1, <1>2
<1> HIDE DEF rest, over, got
<1>9. PICK r \in Nat, l \in Nat, g \in Nat : r = rest /\ l = len /\ g = HeadSize + got
  BY <1>7
<1> QED BY <1>1, <1>4, <1>6, <1>7, <1>8, <1>9, TurnKeeps

LEMMA MorePackKeeps ==
  ASSUME FramingAssumption, FramingInv, MorePack
  PROVE  FramingInv'
<1> DEFINE k == Len(handed) + 1
           got == IF remain - left <= 0 THEN remain ELSE left
<1>0. ReadOK /\ AtOK /\ SentOK
  BY DEF FramingInv
<1>1. /\ state = "reads" /\ remain > 0 /\ left > 0
      /\ HandOn(remain - got, packlen, data \o Bytes(Pos, got))
      /\ left' = left - got
      /\ UNCHANGED <<side, sent, taken, state>>
  BY DEF MorePack
<1>2. /\ k <= Len(sent) /\ packlen = sent[k].len /\ remain <= packlen
      /\ Pos = Start(k) + HeadSize + packlen - remain
      /\ data = Bytes(Start(k) + HeadSize, packlen - remain)
  BY <1>0, <1>1 DEF AtOK
<1>3. remain \in Nat /\ left \in Nat /\ packlen \in Nat /\ HeadSize \in Nat
  BY <1>0 DEF ReadOK, FramingAssumption
<1>4. Start(k) \in Nat /\ Len(handed) \in Nat
  BY WhereItIs
<1>5. /\ got \in Nat /\ got <= left /\ got <= remain /\ remain - got \in Nat
      /\ remain - got <= packlen /\ packlen - remain \in Nat
      /\ Pos + got = Start(k) + HeadSize + packlen - (remain - got)
      /\ (packlen - remain) + got = packlen - (remain - got)
  <2>1. /\ got \in Nat /\ got <= left /\ got <= remain
    BY <1>3
  <2> HIDE DEF got
  <2>2. PICK a \in Nat : a = Start(k) + HeadSize
    BY <1>3, <1>4
  <2>3. Pos = a + packlen - remain
    BY <1>2, <2>2
  <2>4. remain - got \in Nat /\ remain - got <= packlen /\ packlen - remain \in Nat
        /\ Pos + got = a + packlen - (remain - got)
        /\ (packlen - remain) + got = packlen - (remain - got)
    <3>1. remain <= packlen
      BY <1>2
    <3> QED BY <3>1, <2>1, <2>2, <2>3, <1>3
  <2> QED BY <2>1, <2>2, <2>4
<1> HIDE DEF got
<1>6. data \o Bytes(Pos, got) = Bytes(Start(k) + HeadSize, packlen - (remain - got))
  <2>1. Pos = (Start(k) + HeadSize) + (packlen - remain) /\ Start(k) + HeadSize \in Nat
    BY <1>2, <1>3, <1>4
  <2>2. PICK a \in Nat, b \in Nat, c \in Nat :
            a = Start(k) + HeadSize /\ b = packlen - remain /\ c = got
    BY <2>1, <1>5
  <2>3. Bytes(a, b) \o Bytes(a + b, c) = Bytes(a, b + c)
    BY BytesJoin
  <2>4. Pos = a + b /\ b + c = packlen - (remain - got)
    BY <2>1, <2>2, <1>5
  <2> QED BY <2>2, <2>3, <2>4, <1>2
<1>7. PICK r \in Nat, g \in Nat : r = remain - got /\ g = got
  BY <1>5
<1> QED BY <1>1, <1>2, <1>5, <1>6, <1>7, TurnKeeps

LEMMA HeadCutKeeps ==
  ASSUME FramingAssumption, FramingInv, HeadCut
  PROVE  FramingInv'
<1>0. SentOK /\ ReadOK /\ HandedOK /\ AtOK
  BY DEF FramingInv
<1>1. /\ remain = 0 /\ left \in 1..HeadSize - 1
      /\ state' = (IF side = "server" THEN "stopped" ELSE "wild")
      /\ UNCHANGED <<side, sent, taken, left, remain, packlen, data, handed>>
  BY DEF HeadCut
<1>2. /\ SentOK' /\ StreamLen' = StreamLen /\ Pos' = Pos
      /\ \A i : Start(i)' = Start(i) /\ Payload(i)' = Payload(i)
  BY <1>0, <1>1, SentSame DEF Pos
<1>3. ReadOK'
  BY <1>0, <1>1, <1>2 DEF ReadOK
<1>4. HandedOK'
  BY <1>0, <1>1, <1>2 DEF HandedOK
<1>5. AtOK'
  BY <1>0, <1>1, <1>2 DEF AtOK, Bytes
<1>6. CutOK'
  BY <1>1 DEF CutOK
<1> QED BY <1>2, <1>3, <1>4, <1>5, <1>6 DEF FramingInv

LEMMA FramingStep == FramingAssumption /\ FramingInv /\ [Next]_vars => FramingInv'
<1> SUFFICES ASSUME FramingAssumption, FramingInv, [Next]_vars PROVE FramingInv'
  OBVIOUS
<1>1. CASE \E len \in 1..MaxLen : Send(len)
  BY <1>1, SendKeeps
<1>2. CASE \E n \in 1..BufSize : Read(n)
  BY <1>2, ReadKeeps
<1>3. CASE NewPack
  BY <1>3, NewPackKeeps
<1>4. CASE MorePack
  BY <1>4, MorePackKeeps
<1>5. CASE HeadCut
  BY <1>5, HeadCutKeeps
<1>6. CASE UNCHANGED vars
  <2>1. UNCHANGED <<side, sent, taken, left, remain, packlen, data, handed, state>>
    BY <1>6 DEF vars
  <2>2. /\ SentOK => SentOK' /\ StreamLen' = StreamLen /\ Pos' = Pos
        /\ \A i : Start(i)' = Start(i) /\ Payload(i)' = Payload(i)
    BY <2>1, SentSame DEF Pos
  <2>3. ReadOK' /\ HandedOK'
    BY <2>1, <2>2 DEF FramingInv, ReadOK, HandedOK
  <2>4. AtOK' /\ CutOK'
    BY <2>1, <2>2 DEF FramingInv, AtOK, CutOK, Bytes
  <2> QED BY <2>2, <2>3, <2>4 DEF FramingInv
<1> QED BY <1>1, <1>2, <1>3, <1>4, <1>5, <1>6 DEF Next, Done

\* Between its steps, the connection is where the invariant says: in front of a header, or
\* in the pack after the ones it has handed on.
THEOREM FramingCorrect == Spec => []FramingInv
<1>0. FramingAssumption
  BY FramingAssumption
<1>1. Init => FramingInv
  BY <1>0, FramingStart
<1>2. FramingInv /\ [Next]_vars => FramingInv'
  BY <1>0, FramingStep
<1> QED BY <1>1, <1>2, PTL DEF Spec

-----------------------------------------------------------------------------
(* What follows.                                                           *)

LEMMA AsSent == FramingAssumption /\ FramingInv => PacksAsSent
<1> SUFFICES ASSUME FramingAssumption, FramingInv PROVE PacksAsSent
  OBVIOUS
<1> DEFINE k == Len(handed) + 1
<1>1. HandedOK
  BY DEF FramingInv
<1>2. ASSUME state = "reads", left = 0
      PROVE  Len(handed) = Len(sent) \/ taken < Start(Len(handed) + 2)
  <2> SUFFICES ASSUME Len(handed) # Len(sent) PROVE taken < Start(Len(handed) + 2)
    OBVIOUS
  <2>1. k <= Len(sent) /\ Len(handed) + 2 = k + 1
    BY WhereItIs
  <2>2. /\ Start(k) \in Nat /\ sent[k].len \in Nat \ {0}
        /\ Start(k) + HeadSize + sent[k].len = Start(k + 1)
        /\ Pos = taken
    BY <1>2, <2>1, WhereItIs
  <2>3. HeadSize \in Nat /\ remain \in Nat
    BY DEF FramingAssumption, FramingInv, ReadOK
  <2>4. CASE remain = 0
    <3>1. taken = Start(k)
      BY <2>2, <2>4 DEF FramingInv, AtOK
    <3> QED BY <3>1, <2>1, <2>2, <2>3
  <2>5. CASE remain > 0
    <3>1. packlen = sent[k].len /\ taken = Start(k) + HeadSize + packlen - remain
      BY <2>2, <2>5 DEF FramingInv, AtOK
    <3> QED BY <3>1, <2>1, <2>2, <2>3, <2>5
  <2> QED BY <2>3, <2>4, <2>5
<1> QED BY <1>1, <1>2 DEF HandedOK, PacksAsSent

\* However the stream is cut, the server's and the client's packs are the packs as sent, whole,
\* once and in order, and none whose last byte has been read is kept back.
THEOREM PacksAsSentHolds == Spec => []PacksAsSent
<1>0. FramingAssumption
  BY FramingAssumption
<1> QED BY <1>0, FramingCorrect, AsSent, PTL

LEMMA CutsStop == FramingAssumption /\ FramingInv => OnlyCutHeadersStop
<1> SUFFICES ASSUME FramingAssumption, FramingInv PROVE OnlyCutHeadersStop
  OBVIOUS
<1> DEFINE next == Start(Len(handed) + 1)
<1>1. /\ next \in Nat /\ Pos \in Nat /\ Pos + left = taken
      /\ HeadSize \in Nat /\ remain \in Nat /\ left \in Nat /\ taken \in Nat /\ packlen \in Nat
  BY WhereItIs DEF FramingAssumption, FramingInv, ReadOK
<1>2. CASE state # "reads"
  <2>1. remain = 0 /\ left \in 1..HeadSize - 1 /\ Pos = next
    BY <1>2 DEF FramingInv, CutOK, AtOK
  <2>2. next < taken /\ taken < next + HeadSize
    BY <2>1, <1>1
  <2> QED BY <2>2, <1>2 DEF OnlyCutHeadersStop
<1>3. CASE state = "reads" /\ left = 0
  <2>1. remain = 0 => Pos = next
    BY DEF FramingInv, AtOK
  <2>2. remain > 0 => remain <= packlen /\ Pos = next + HeadSize + packlen - remain
    BY DEF FramingInv, AtOK
  <2>3. \/ taken = next
        \/ taken >= next + HeadSize /\ remain = next + HeadSize + packlen - taken
    BY <2>1, <2>2, <1>1, <1>3
  <2> QED BY <2>3, <1>3 DEF OnlyCutHeadersStop
<1> QED BY <1>2, <1>3 DEF OnlyCutHeadersStop

\* Only a header that a read has cut ends the reading: the server's "invalid client", and the
\* client's copy of what it has not read.
THEOREM OnlyCutHeadersStopHolds == Spec => []OnlyCutHeadersStop
<1>0. FramingAssumption
  BY FramingAssumption
<1> QED BY <1>0, FramingCorrect, CutsStop, PTL

=============================================================================
