-------------------------------- MODULE Framing --------------------------------
(***************************************************************************)
(* How the two ends of a TCP connection make packs of the bytes they read: *)
(* the loops over the read buffer in IOCPSockSrv.cpp (the server) and      *)
(* AsynSock.cpp (the client).  The peer sends packs one after the other,   *)
(* each a header, which gives the length, and that many bytes; TCP keeps   *)
(* their order and may hand them over cut anywhere.  A turn of the loop is *)
(* a step: the peer may send while the loop runs.                          *)
(*                                                                         *)
(* A byte is its position in the stream.  What matters of a header is that *)
(* it is read where one begins.                                            *)
(***************************************************************************)
EXTENDS Integers, Sequences

CONSTANTS
    NPacks,         \* how many packs the peer sends
    MaxLen,         \* how long they are at most
    HeadSize,       \* sizeof(PACKHEAD)
    BufSize         \* MAX_BUFFER_SIZE

FramingAssumption ==
    /\ NPacks \in Nat /\ MaxLen \in Nat \ {0}
    /\ HeadSize \in Nat \ {0} /\ BufSize \in Nat /\ HeadSize < BufSize
ASSUME FramingAssumption

VARIABLES
    side,           \* "server" or "client": who reads
    sent,           \* the packs of the peer: their lengths, and where they begin
    taken,          \* how many bytes have been read
    left,           \* dwProcRemain, lRemainProc: how many of them the loop has yet to look at
    remain,         \* dwRecvRemain, lremain: how many bytes the pack still lacks
    packlen,        \* dwRecvPacklen, lpacklen
    data,           \* Recvdatapack, pdata: the bytes of the pack so far
    handed,         \* the packs given to NotifyRecvPack(), recvAdoData()
    state           \* "reads", "stopped" without a read outstanding, or "wild": it copied
                    \* from outside what it has read

vars == <<side, sent, taken, left, remain, packlen, data, handed, state>>

Packs == 1 .. NPacks

\* Where the pack after the last one begins, as the number of bytes before it.
StreamLen == IF sent = <<>> THEN 0 ELSE sent[Len(sent)].at + HeadSize + sent[Len(sent)].len

\* Where the header of pack i begins.
Start(i) == IF i \in 1 .. Len(sent) THEN sent[i].at ELSE StreamLen

\* Bytes p + 1 to p + n of the stream.
Bytes(p, n) == [k \in 1 .. n |-> p + k]

\* Pack i as sent.
Payload(i) == Bytes(Start(i) + HeadSize, sent[i].len)

Init ==
    /\ side \in {"server", "client"}
    /\ sent = <<>>
    /\ taken = 0 /\ left = 0 /\ remain = 0 /\ packlen = 0 /\ data = <<>>
    /\ handed = <<>>
    /\ state = "reads"

-------------------------------------------------------------------------------
(* The peer *)

\* SendData(), SendPack(): the header, and the bytes behind it.  Neither end sends an empty pack.
Send(len) ==
    /\ Len(sent) < NPacks
    /\ sent' = Append(sent, [at |-> StreamLen, len |-> len])
    /\ UNCHANGED <<side, taken, left, remain, packlen, data, handed, state>>

-------------------------------------------------------------------------------
(* The loop over the buffer *)

\* pvist, as the number of the bytes before it
Pos == taken - left

\* A read brings n bytes.
Read(n) ==
    /\ state = "reads" /\ left = 0
    /\ taken + n <= StreamLen
    /\ taken' = taken + n
    /\ left' = n
    /\ UNCHANGED <<side, sent, remain, packlen, data, handed, state>>

\* What a header read at p says; a length that makes no sense if none begins there.
LengthAt(p) == IF \E i \in 1 .. Len(sent) : sent[i].at = p
               THEN sent[CHOOSE i \in 1 .. Len(sent) : sent[i].at = p].len ELSE 0

\* The end of every turn: a pack of which nothing is lacking is given away.
HandOn(rest, len, bytes) ==
    /\ remain' = rest /\ packlen' = len
    /\ data' = IF rest > 0 THEN bytes ELSE <<>>
    /\ handed' = IF rest > 0 THEN handed ELSE Append(handed, [len |-> len, data |-> bytes])

\* Mutant: the rest is counted as if the header belonged to the pack.
NewPack_HeadCounted ==
    LET len  == LengthAt(Pos)
        rest == IF left < len THEN len - left ELSE 0
        got  == IF left - HeadSize < len THEN left - HeadSize ELSE len
    IN  /\ state = "reads" /\ remain = 0 /\ left >= HeadSize
        /\ HandOn(rest, len, Bytes(Pos + HeadSize, got))
        /\ left' = left - HeadSize - got
        /\ UNCHANGED <<side, sent, taken, state>>

\* A new pack: what of it is in the buffer is copied.
NewPack ==
    LET len  == LengthAt(Pos)
        over == left - HeadSize - len
        rest == IF over < 0 THEN -over ELSE 0
        got  == len - rest
    IN  /\ state = "reads" /\ remain = 0 /\ left >= HeadSize
        /\ HandOn(rest, len, Bytes(Pos + HeadSize, got))
        /\ left' = left - HeadSize - got
        /\ UNCHANGED <<side, sent, taken, state>>

\* Mutant: what is left of the buffer is taken to belong to the pack.
MorePack_All ==
    /\ state = "reads" /\ remain > 0 /\ left > 0
    /\ HandOn(IF remain > left THEN remain - left ELSE 0, packlen, data \o Bytes(Pos, left))
    /\ left' = 0
    /\ UNCHANGED <<side, sent, taken, state>>

\* The rest of a pack, or a part of it.
MorePack ==
    LET got == IF remain - left <= 0 THEN remain ELSE left
    IN  /\ state = "reads" /\ remain > 0 /\ left > 0
        /\ HandOn(remain - got, packlen, data \o Bytes(Pos, got))
        /\ left' = left - got
        /\ UNCHANGED <<side, sent, taken, state>>

\* The server refuses a header that is not whole, and stops; the client does not look.
HeadCut ==
    /\ state = "reads" /\ remain = 0 /\ left \in 1 .. HeadSize - 1
    /\ state' = IF side = "server" THEN "stopped" ELSE "wild"
    /\ UNCHANGED <<side, sent, taken, left, remain, packlen, data, handed>>

\* Everything sent has been read, or nothing is read any more.
Done ==
    /\ state # "reads" \/ (Len(sent) = NPacks /\ taken = StreamLen /\ left = 0)
    /\ UNCHANGED vars

Next ==
    \/ \E len \in 1 .. MaxLen : Send(len)
    \/ \E n \in 1 .. BufSize : Read(n)
    \/ NewPack \/ MorePack \/ HeadCut
    \/ Done

Spec == Init /\ [][Next]_vars

-------------------------------------------------------------------------------
(* Properties *)

\* However the stream is cut, what is handed on is the packs as sent, each whole, once, in
\* their order and with nothing of its neighbours; and when the loop is over, every pack
\* has been handed on whose last byte is there.
PacksAsSent ==
    state # "wild" =>
        /\ Len(handed) <= Len(sent)
        /\ \A i \in 1 .. Len(handed) : handed[i] = [len |-> sent[i].len, data |-> Payload(i)]
        /\ state = "reads" /\ left = 0 =>
               Len(handed) = Len(sent) \/ taken < Start(Len(handed) + 2)

\* The reading stops for one reason only, a header of which a part was read; when the loop
\* is over, the connection never is in the middle of a header.
OnlyCutHeadersStop ==
    LET next == Start(Len(handed) + 1)
    IN  IF state # "reads" THEN next < taken /\ taken < next + HeadSize
        ELSE left = 0 => \/ taken = next
                         \/ taken >= next + HeadSize /\ remain = next + HeadSize + packlen - taken
===============================================================================
