------------------------------- MODULE UdtStream -------------------------------
(***************************************************************************)
(* One direction of a UDT stream connection (src/udt/core.cpp, buffer.cpp  *)
(* and queue.cpp) over a network that loses, delays, reorders and repeats  *)
(* datagrams: the application that sends, the thread of CSndQueue, the     *)
(* thread of CRcvQueue at the sender's side, and the thread of CRcvQueue   *)
(* and the application at the receiver's.  The server of                   *)
(* src/common/UDTExpand.cpp and its peers exchange their packs so.         *)
(*                                                                         *)
(* A block is what fits in one packet; block n is the n-th that the        *)
(* application gives to send().  Congestion control is left out: its       *)
(* window never is below 16 packets, and the flow window that the models   *)
(* use is smaller.  Time is left out: a timer may fire at any time.  The   *)
(* congestion-control class, the statistics, RTT, message mode and files   *)
(* are not modelled.                                                       *)
(***************************************************************************)
EXTENDS SeqNo, Sequences, FiniteSets

CONSTANTS
    ISN,            \* m_iISN, the initial sequence number
    NBlocks,        \* how many blocks the application sends
    SndBufSize,     \* m_iSndBufSize: how many blocks wait in the send buffer
    RcvBufSize,     \* m_iRcvBufSize = m_iSize of CRcvBuffer
    FlightFlag,     \* m_iFlightFlagSize, UDT_FC
    PeerWindow,     \* the flow window that the peer's handshake names
    MaxInNet,       \* how many datagrams are under way in a direction at most
    Conditions      \* what may happen, of "load": so many packets come that light ACKs are
                    \* sent, "repeat": the network repeats datagrams, "linger": close()
                    \* stops waiting, and "dead": the network is out for so long that a
                    \* side gives up

\* The answer of the peer's connect() names the smaller of its receive buffer and its
\* m_iFlightFlagSize, the repeated answer of processCtrl() the latter.
UdtAssumption ==
    /\ ISN \in SeqNumbers
    /\ NBlocks \in Nat /\ NBlocks < m_iSeqNoTH - 1
    /\ SndBufSize \in Nat \ {0}
    /\ RcvBufSize \in Nat \ {0, 1}
    /\ FlightFlag \in Nat /\ RcvBufSize <= FlightFlag /\ FlightFlag < m_iSeqNoTH
    /\ PeerWindow \in {RcvBufSize, FlightFlag}
    /\ MaxInNet \in Nat \ {0}
    /\ Conditions \subseteq {"load", "repeat", "linger", "dead"}
ASSUME UdtAssumption

NoBlock == 0
Blocks == 1 .. NBlocks

-------------------------------------------------------------------------------
(* The sending application, CSndBuffer, and the sender *)

VARIABLES
    lastBlock,          \* m_pLastBlock: blocks written so far
    appPc               \* "idle", or "update" between addBuffer and the send list

appVars == <<lastBlock, appPc>>

VARIABLES
    firstBlock,         \* m_pFirstBlock: blocks acknowledged so far
    currBlock,          \* m_pCurrBlock: blocks packed for the first time so far
    m_iSndCurrSeqNo, m_iSndLastAck, m_iSndLastDataAck, m_iFlowWindowSize,
    m_pSndLossList,     \* the set of the numbers on it
    onSndUList,         \* the socket is on CSndUList
    hand,               \* what the thread of CSndQueue has in hand
    ackPc,              \* "idle", or "update": the CRcvQueue thread is about to put
                        \* the socket on the send list
    sndState,           \* "up", "broken", "invalid" (m_bBroken), or "closed"
    lingered            \* close() gave up waiting for the send buffer to empty

\* m_iCount, getCurrBufSize
CurrBufSize == lastBlock - firstBlock

\* The send buffer is a ring of memory blocks, one more than it may hold: what the
\* memory of the n-th block holds now.
RingSize == SndBufSize + 1
Memory(n) == IF n > lastBlock THEN NoBlock
             ELSE CHOOSE b \in (lastBlock - RingSize + 1) .. lastBlock : (b - n) % RingSize = 0

\* CSndUList::update and remove wait for the list lock, which pop() holds while it packs.
ListFree == hand.pc # "lost"

sndVars == <<firstBlock, currBlock, m_iSndCurrSeqNo, m_iSndLastAck, m_iSndLastDataAck,
             m_iFlowWindowSize, m_pSndLossList, onSndUList, hand, ackPc, sndState, lingered>>

-------------------------------------------------------------------------------
(* The receiver, CRcvBuffer, and the receiving application *)

VARIABLES
    m_iRcvCurrSeqNo, m_iRcvLastAck, m_iRcvLastAckAck, m_pRcvLossList,
    m_pUnit, m_iStartPos, m_iLastAckPos,
    rcvBroken,          \* m_bBroken and m_bClosing
    rcvGaveUp,          \* it gave up although the sender had not
    readBlocks,         \* what recv() has returned
    eof                 \* recv() has thrown

getRcvDataSize ==
    IF m_iLastAckPos >= m_iStartPos THEN m_iLastAckPos - m_iStartPos
    ELSE RcvBufSize + m_iLastAckPos - m_iStartPos

getAvailBufSize == RcvBufSize - getRcvDataSize - 1

rcvVars == <<m_iRcvCurrSeqNo, m_iRcvLastAck, m_iRcvLastAckAck, m_pRcvLossList,
             m_pUnit, m_iStartPos, m_iLastAckPos, rcvBroken, rcvGaveUp, readBlocks, eof>>

-------------------------------------------------------------------------------
(* The network *)

VARIABLES toRcv, toSnd  \* the datagrams under way in each direction

\* A datagram is sent into the network, which may lose it, and does lose what it cannot hold
\* and what comes for a side that is gone.
Put(net, there, m) ==
    {net} \cup (IF there /\ Cardinality(net) < MaxInNet THEN {net \cup {m}} ELSE {})
ToRcv(m) == Put(toRcv, ~rcvBroken, m)
ToSnd(net, m) == Put(net, sndState = "up", m)

\* A datagram that arrives is gone from the network, or is to arrive once more.
Taken(net, m) == {net \ {m}} \cup (IF "repeat" \in Conditions THEN {net} ELSE {})

netVars == <<toRcv, toSnd>>
vars == <<appVars, sndVars, netVars, rcvVars>>

\* Both sides as connect() leaves them.  ISN - 1 is what the code writes, also for 0.
Init ==
    /\ lastBlock = 0 /\ firstBlock = 0 /\ currBlock = 0
    /\ appPc = "idle"
    /\ m_iSndCurrSeqNo = ISN - 1
    /\ m_iSndLastAck = ISN /\ m_iSndLastDataAck = ISN
    /\ m_iFlowWindowSize = PeerWindow
    /\ m_pSndLossList = {} /\ onSndUList = FALSE
    /\ hand = [pc |-> "none"] /\ ackPc = "idle"
    /\ sndState = "up" /\ lingered = FALSE
    /\ toRcv = {} /\ toSnd = {}
    /\ m_iRcvCurrSeqNo = ISN - 1
    /\ m_iRcvLastAck = ISN /\ m_iRcvLastAckAck = ISN
    /\ m_pRcvLossList = {}
    /\ m_pUnit = [p \in 0 .. RcvBufSize - 1 |-> NoBlock]
    /\ m_iStartPos = 0 /\ m_iLastAckPos = 0
    /\ rcvBroken = FALSE /\ rcvGaveUp = FALSE
    /\ readBlocks = <<>> /\ eof = FALSE

-------------------------------------------------------------------------------
(* The sending application *)

\* send(): addBuffer.  A caller that finds the buffer full waits for room.
Send ==
    /\ appPc = "idle" /\ sndState = "up"
    /\ lastBlock < NBlocks
    /\ CurrBufSize < SndBufSize
    /\ lastBlock' = lastBlock + 1
    /\ appPc' = "update"
    /\ UNCHANGED <<sndVars, netVars, rcvVars>>

\* ... and the socket is put on the send list
SendUpdate ==
    /\ appPc = "update" /\ ListFree
    /\ onSndUList' = TRUE
    /\ appPc' = "idle"
    /\ UNCHANGED <<lastBlock, firstBlock, currBlock, m_iSndCurrSeqNo, m_iSndLastAck,
                   m_iSndLastDataAck, m_iFlowWindowSize, m_pSndLossList, hand, ackPc, sndState,
                   lingered, netVars, rcvVars>>

\* close(), from the end of the wait for the send buffer to empty.
Close ==
    /\ appPc = "idle" /\ sndState # "closed" /\ ListFree
    /\ CurrBufSize = 0 \/ sndState # "up" \/ "linger" \in Conditions
    /\ sndState' = "closed"
    /\ lingered' = (CurrBufSize > 0 \/ sndState # "up")
    /\ onSndUList' = FALSE
    /\ toRcv' \in ToRcv([type |-> "shutdown"])
    /\ toSnd' = {}
    /\ UNCHANGED <<appVars, firstBlock, currBlock, m_iSndCurrSeqNo, m_iSndLastAck,
                   m_iSndLastDataAck, m_iFlowWindowSize, m_pSndLossList, hand, ackPc, rcvVars>>

-------------------------------------------------------------------------------
(* The thread of CSndQueue *)

\* pop(): the socket leaves the list; the first lost packet is to be sent again.
PopLost ==
    /\ hand.pc = "none" /\ onSndUList
    /\ sndState = "up" /\ m_pSndLossList # {}
    /\ hand' = [pc |-> "lost", seq |-> FirstSeq(m_pSndLossList)]
    /\ m_pSndLossList' = m_pSndLossList \ {hand'.seq}
    /\ onSndUList' = FALSE
    /\ UNCHANGED <<appVars, firstBlock, currBlock, m_iSndCurrSeqNo, m_iSndLastAck,
                   m_iSndLastDataAck, m_iFlowWindowSize, ackPc, sndState, lingered, netVars, rcvVars>>

\* packData(), under m_AckLock: where the lost packet's block is now.
PackLost ==
    /\ hand.pc = "lost"
    /\ LET offset == seqoff(m_iSndLastDataAck, hand.seq)
       IN  IF offset < 0
           THEN hand' = [pc |-> "none"] /\ UNCHANGED onSndUList
           ELSE /\ hand' = [pc |-> "packed", seq |-> hand.seq, block |-> firstBlock + offset + 1]
                /\ onSndUList' = TRUE
    /\ UNCHANGED <<appVars, firstBlock, currBlock, m_iSndCurrSeqNo, m_iSndLastAck,
                   m_iSndLastDataAck, m_iFlowWindowSize, m_pSndLossList, ackPc, sndState, lingered,
                   netVars, rcvVars>>

WindowOpen == m_iFlowWindowSize >= seqlen(m_iSndLastAck, incseq(m_iSndCurrSeqNo))

\* pop(), packData(): nothing is lost, and a new packet may be sent.
PopNew ==
    /\ hand.pc = "none" /\ onSndUList
    /\ sndState = "up" /\ m_pSndLossList = {}
    /\ WindowOpen /\ currBlock # lastBlock
    /\ currBlock' = currBlock + 1
    /\ m_iSndCurrSeqNo' = incseq(m_iSndCurrSeqNo)
    /\ hand' = [pc |-> "packed", seq |-> m_iSndCurrSeqNo', block |-> currBlock']
    /\ UNCHANGED <<appVars, firstBlock, m_iSndLastAck, m_iSndLastDataAck, m_iFlowWindowSize,
                   m_pSndLossList, onSndUList, ackPc, sndState, lingered, netVars, rcvVars>>

\* pop(): there is nothing to send, or the window is shut, or the connection is broken; the
\* socket is not put back.
PopNothing ==
    /\ hand.pc = "none" /\ onSndUList
    /\ sndState # "up" \/ (m_pSndLossList = {} /\ ~(WindowOpen /\ currBlock # lastBlock))
    /\ onSndUList' = FALSE
    /\ UNCHANGED <<appVars, firstBlock, currBlock, m_iSndCurrSeqNo, m_iSndLastAck,
                   m_iSndLastDataAck, m_iFlowWindowSize, m_pSndLossList, hand, ackPc, sndState,
                   lingered, netVars, rcvVars>>

\* CSndQueue::worker: the datagram goes out, with what the block's memory holds by now.
SendTo ==
    /\ hand.pc = "packed"
    /\ toRcv' \in ToRcv([type |-> "data", seq |-> hand.seq, data |-> Memory(hand.block)])
    /\ hand' = [pc |-> "none"]
    /\ UNCHANGED <<appVars, firstBlock, currBlock, m_iSndCurrSeqNo, m_iSndLastAck,
                   m_iSndLastDataAck, m_iFlowWindowSize, m_pSndLossList, onSndUList, ackPc,
                   sndState, lingered, toSnd, rcvVars>>

-------------------------------------------------------------------------------
(* The thread of CRcvQueue at the receiver's side.  What arrives for a socket that is
   broken or closed is never looked at. *)

\* Mutant: the losses are forgotten.
AckNumber_Latest == incseq(m_iRcvCurrSeqNo)

\* sendCtrl(2): what an ACK of the receiver says
AckNumber == IF m_pRcvLossList = {} THEN incseq(m_iRcvCurrSeqNo) ELSE FirstSeq(m_pRcvLossList)

\* processData(), and the light ACK of checkTimers() if many packets came since the last ACK:
\* the count of packets grows here only, and checkTimers() follows at once.
RecvData(m) ==
    /\ ~rcvBroken /\ m \in toRcv /\ m.type = "data"
    /\ toRcv' \in Taken(toRcv, m)
    /\ LET offset == seqoff(m_iRcvLastAck, m.seq)
           pos    == (m_iLastAckPos + offset) % RcvBufSize
           kept   == offset >= 0 /\ offset < getAvailBufSize /\ m_pUnit[pos] = NoBlock
           isNew  == kept /\ seqcmp(m.seq, m_iRcvCurrSeqNo) > 0
           isGap  == kept /\ seqcmp(m.seq, incseq(m_iRcvCurrSeqNo)) > 0
           gap    == [type |-> "nak", lo |-> incseq(m_iRcvCurrSeqNo), hi |-> decseq(m.seq)]
           naks   == IF isGap THEN ToSnd(toSnd, gap) ELSE {toSnd}
       IN  /\ m_pUnit' = IF kept THEN [m_pUnit EXCEPT ![pos] = m.data] ELSE m_pUnit
           /\ m_iRcvCurrSeqNo' = IF isNew THEN m.seq ELSE m_iRcvCurrSeqNo
           /\ m_pRcvLossList' = IF isGap THEN m_pRcvLossList \cup SeqRange(gap.lo, gap.hi)
                                ELSE IF kept THEN m_pRcvLossList \ {m.seq} ELSE m_pRcvLossList
           /\ \/ toSnd' \in naks
              \/ /\ "load" \in Conditions /\ AckNumber' # m_iRcvLastAckAck
                 /\ \E nak \in naks : toSnd' \in ToSnd(nak, [type |-> "lite", ack |-> AckNumber'])
    /\ UNCHANGED <<appVars, sndVars, m_iRcvLastAck, m_iRcvLastAckAck, m_iStartPos,
                   m_iLastAckPos, rcvBroken, rcvGaveUp, readBlocks, eof>>

\* processCtrl(), acknowledgement of acknowledgement.  The datagram names the number of the
\* ACK, which m_pACKWindow translates back to what was acknowledged.
RecvAck2(m) ==
    /\ ~rcvBroken /\ m \in toRcv /\ m.type = "ack2"
    /\ toRcv' \in Taken(toRcv, m)
    /\ m_iRcvLastAckAck' = IF seqcmp(m.ack, m_iRcvLastAckAck) > 0 THEN m.ack ELSE m_iRcvLastAckAck
    /\ UNCHANGED <<appVars, sndVars, toSnd, m_iRcvCurrSeqNo, m_iRcvLastAck,
                   m_pRcvLossList, m_pUnit, m_iStartPos, m_iLastAckPos, rcvBroken, rcvGaveUp,
                   readBlocks, eof>>

\* processCtrl(), shutdown
RecvShutdown(m) ==
    /\ ~rcvBroken /\ m \in toRcv /\ m.type = "shutdown"
    /\ toRcv' = {}
    /\ rcvBroken' = TRUE
    /\ UNCHANGED <<appVars, sndVars, toSnd, m_iRcvCurrSeqNo, m_iRcvLastAck,
                   m_iRcvLastAckAck, m_pRcvLossList, m_pUnit, m_iStartPos, m_iLastAckPos,
                   rcvGaveUp, readBlocks, eof>>

\* The slots that are free, but at least 2.
AckWindow(lastAckPos) ==
    LET size  == (lastAckPos - m_iStartPos + RcvBufSize) % RcvBufSize
        avail == RcvBufSize - size - 1
    IN  IF avail < 2 THEN 2 ELSE avail

\* checkTimers(): the timer for ACKs.  The reader may see what has been received in order.
AckTimer ==
    /\ ~rcvBroken
    /\ AckNumber # m_iRcvLastAckAck
    /\ seqcmp(AckNumber, m_iRcvLastAck) >= 0
    /\ m_iRcvLastAck' = AckNumber
    /\ m_iLastAckPos' = (m_iLastAckPos + seqoff(m_iRcvLastAck, AckNumber)) % RcvBufSize
    /\ toSnd' \in IF seqcmp(m_iRcvLastAck', m_iRcvLastAckAck) > 0
                  THEN ToSnd(toSnd, [type |-> "ack", ack |-> m_iRcvLastAck',
                                     window |-> AckWindow(m_iLastAckPos')])
                  ELSE {toSnd}
    /\ UNCHANGED <<appVars, sndVars, toRcv, m_iRcvCurrSeqNo, m_iRcvLastAckAck,
                   m_pRcvLossList, m_pUnit, m_iStartPos, rcvBroken, rcvGaveUp, readBlocks, eof>>

\* checkTimers(): nothing was heard for long.  Either the sender is silent for good, or the
\* network was out for so long.
RcvGiveUp ==
    /\ ~rcvBroken
    /\ sndState # "up" \/ "dead" \in Conditions
    /\ rcvBroken' = TRUE
    /\ toRcv' = {}
    /\ rcvGaveUp' = (sndState = "up")
    /\ UNCHANGED <<appVars, sndVars, toSnd, m_iRcvCurrSeqNo, m_iRcvLastAck,
                   m_iRcvLastAckAck, m_pRcvLossList, m_pUnit, m_iStartPos, m_iLastAckPos,
                   readBlocks, eof>>

-------------------------------------------------------------------------------
(* The receiving application *)

\* Mutant: the position does not wrap.
AppRead_NoWrap ==
    /\ ~eof /\ getRcvDataSize > 0
    /\ readBlocks' = Append(readBlocks, m_pUnit[m_iStartPos])
    /\ m_pUnit' = [m_pUnit EXCEPT ![m_iStartPos] = NoBlock]
    /\ m_iStartPos' = m_iStartPos + 1
    /\ UNCHANGED <<appVars, sndVars, netVars, m_iRcvCurrSeqNo, m_iRcvLastAck,
                   m_iRcvLastAckAck, m_pRcvLossList, m_iLastAckPos, rcvBroken, rcvGaveUp, eof>>

\* recv(): readBuffer, a block at a time.
AppRead ==
    /\ ~eof /\ getRcvDataSize > 0
    /\ readBlocks' = Append(readBlocks, m_pUnit[m_iStartPos])
    /\ m_pUnit' = [m_pUnit EXCEPT ![m_iStartPos] = NoBlock]
    /\ m_iStartPos' = (m_iStartPos + 1) % RcvBufSize
    /\ UNCHANGED <<appVars, sndVars, netVars, m_iRcvCurrSeqNo, m_iRcvLastAck,
                   m_iRcvLastAckAck, m_pRcvLossList, m_iLastAckPos, rcvBroken, rcvGaveUp, eof>>

AppEof ==
    /\ ~eof /\ rcvBroken /\ getRcvDataSize = 0
    /\ eof' = TRUE
    /\ UNCHANGED <<appVars, sndVars, netVars, m_iRcvCurrSeqNo, m_iRcvLastAck,
                   m_iRcvLastAckAck, m_pRcvLossList, m_pUnit, m_iStartPos, m_iLastAckPos,
                   rcvBroken, rcvGaveUp, readBlocks>>

-------------------------------------------------------------------------------
(* The thread of CRcvQueue at the sender's side *)

SndListens == sndState = "up" /\ ackPc = "idle"

\* Mutant: an older number counts too.
RecvLite_Older(m) ==
    /\ SndListens /\ m \in toSnd /\ m.type = "lite"
    /\ toSnd' \in Taken(toSnd, m)
    /\ m_iFlowWindowSize' = m_iFlowWindowSize - seqoff(m_iSndLastAck, m.ack)
    /\ m_iSndLastAck' = m.ack
    /\ UNCHANGED <<appVars, firstBlock, currBlock, m_iSndCurrSeqNo, m_iSndLastDataAck,
                   m_pSndLossList, onSndUList, hand, ackPc, sndState, lingered, toRcv,
                   rcvVars>>

\* processCtrl(), a light ACK
RecvLite(m) ==
    /\ SndListens /\ m \in toSnd /\ m.type = "lite"
    /\ toSnd' \in Taken(toSnd, m)
    /\ IF seqcmp(m.ack, m_iSndLastAck) >= 0
       THEN /\ m_iFlowWindowSize' = m_iFlowWindowSize - seqoff(m_iSndLastAck, m.ack)
            /\ m_iSndLastAck' = m.ack
       ELSE UNCHANGED <<m_iFlowWindowSize, m_iSndLastAck>>
    /\ UNCHANGED <<appVars, firstBlock, currBlock, m_iSndCurrSeqNo, m_iSndLastDataAck,
                   m_pSndLossList, onSndUList, hand, ackPc, sndState, lingered, toRcv,
                   rcvVars>>

\* An ACK may be overtaken by a later one, which then is what counts.
IsNewer(ack) == seqcmp(ack, m_iSndLastAck) >= 0

\* processCtrl(), an ACK: it is acknowledged, at most once in a period or if it is repeated;
\* then the send buffer gives up what the receiver has.
RecvAck(m) ==
    /\ SndListens /\ m \in toSnd /\ m.type = "ack"
    /\ toSnd' \in Taken(toSnd, m)
    /\ toRcv' \in ToRcv([type |-> "ack2", ack |-> m.ack])
    /\ LET valid  == seqcmp(m.ack, incseq(m_iSndCurrSeqNo)) <= 0
           newer  == valid /\ IsNewer(m.ack)
           offset == seqoff(m_iSndLastDataAck, m.ack)
           freed  == valid /\ offset > 0
       IN  /\ sndState' = IF valid THEN sndState ELSE "invalid"
           /\ m_iFlowWindowSize' = IF newer THEN m.window ELSE m_iFlowWindowSize
           /\ m_iSndLastAck' = IF newer THEN m.ack ELSE m_iSndLastAck
           /\ firstBlock' = IF freed THEN firstBlock + offset ELSE firstBlock
           /\ m_iSndLastDataAck' = IF freed THEN m.ack ELSE m_iSndLastDataAck
           /\ m_pSndLossList' = IF freed THEN {s \in m_pSndLossList : seqcmp(s, m.ack) >= 0}
                                ELSE m_pSndLossList
           /\ ackPc' = IF freed THEN "update" ELSE "idle"
    /\ UNCHANGED <<appVars, currBlock, m_iSndCurrSeqNo, onSndUList, hand, lingered, rcvVars>>

\* Mutant: all that is reported is resent.
FirstToResend_All(lo) == lo

\* A loss report may be late, when part of what it reports has arrived.
FirstToResend(lo) == IF seqcmp(lo, m_iSndLastAck) >= 0 THEN lo ELSE m_iSndLastAck

\* processCtrl(), a loss report
RecvNak(m) ==
    /\ SndListens /\ m \in toSnd /\ m.type = "nak"
    /\ toSnd' \in Taken(toSnd, m)
    /\ IF seqcmp(m.lo, m.hi) > 0 \/ seqcmp(m.hi, m_iSndCurrSeqNo) > 0
       THEN sndState' = "invalid" /\ UNCHANGED <<m_pSndLossList, ackPc>>
       ELSE /\ m_pSndLossList' = m_pSndLossList \cup SeqRange(FirstToResend(m.lo), m.hi)
            /\ ackPc' = "update"
            /\ UNCHANGED sndState
    /\ UNCHANGED <<appVars, firstBlock, currBlock, m_iSndCurrSeqNo, m_iSndLastAck,
                   m_iSndLastDataAck, m_iFlowWindowSize, onSndUList, hand, lingered, toRcv,
                   rcvVars>>

\* ... and the socket is put on the send list
AckUpdate ==
    /\ ackPc = "update" /\ ListFree
    /\ onSndUList' = TRUE
    /\ ackPc' = "idle"
    /\ UNCHANGED <<appVars, firstBlock, currBlock, m_iSndCurrSeqNo, m_iSndLastAck,
                   m_iSndLastDataAck, m_iFlowWindowSize, m_pSndLossList, hand, sndState, lingered,
                   netVars, rcvVars>>

\* Mutant: nothing is resent, the receiver is trusted to report its losses.
ExpTimer_NoResend ==
    /\ SndListens /\ CurrBufSize > 0
    /\ ackPc' = "update"
    /\ UNCHANGED <<appVars, firstBlock, currBlock, m_iSndCurrSeqNo, m_iSndLastAck,
                   m_iSndLastDataAck, m_iFlowWindowSize, m_pSndLossList, onSndUList, hand,
                   sndState, lingered, netVars, rcvVars>>

\* checkTimers(): nothing was heard from the receiver for a while.
ExpTimer ==
    /\ SndListens /\ CurrBufSize > 0
    /\ m_pSndLossList' =
          IF incseq(m_iSndCurrSeqNo) # m_iSndLastAck /\ m_pSndLossList = {}
          THEN SeqRange(m_iSndLastAck, m_iSndCurrSeqNo) ELSE m_pSndLossList
    /\ ackPc' = "update"
    /\ UNCHANGED <<appVars, firstBlock, currBlock, m_iSndCurrSeqNo, m_iSndLastAck,
                   m_iSndLastDataAck, m_iFlowWindowSize, onSndUList, hand, sndState, lingered,
                   netVars, rcvVars>>

\* checkTimers(): nothing was heard for so long that the connection counts as broken.
SndGiveUp ==
    /\ SndListens
    /\ rcvBroken \/ "dead" \in Conditions
    /\ sndState' = "broken"
    /\ toSnd' = {}
    /\ ackPc' = "update"
    /\ UNCHANGED <<appVars, firstBlock, currBlock, m_iSndCurrSeqNo, m_iSndLastAck,
                   m_iSndLastDataAck, m_iFlowWindowSize, m_pSndLossList, onSndUList, hand,
                   lingered, toRcv, rcvVars>>

-------------------------------------------------------------------------------
SndAppNext == Send \/ SendUpdate \/ Close
SndQueueNext == PopLost \/ PackLost \/ PopNew \/ PopNothing \/ SendTo
SndSideNext ==
    \/ \E m \in toSnd : RecvLite(m) \/ RecvAck(m) \/ RecvNak(m)
    \/ AckUpdate \/ ExpTimer \/ SndGiveUp
RcvSideNext ==
    \/ \E m \in toRcv : RecvData(m) \/ RecvAck2(m) \/ RecvShutdown(m)
    \/ AckTimer \/ RcvGiveUp
RcvAppNext == AppRead \/ AppEof

Terminated == sndState = "closed" /\ eof /\ UNCHANGED vars

Next == SndAppNext \/ SndQueueNext \/ SndSideNext \/ RcvSideNext \/ RcvAppNext \/ Terminated

Spec == Init /\ [][Next]_vars

\* The n-th block has the number SeqOf(n).
SeqOf(n) == incseqBy(ISN, n - 1)

NumberOf(m) == IF m.type = "data" THEN m.seq ELSE IF m.type = "nak" THEN m.lo ELSE m.ack
ArrivesAtRcv(s) ==
    \E m \in toRcv : m.type # "shutdown" /\ NumberOf(m) = s /\ (RecvData(m) \/ RecvAck2(m))
ArrivesAtSnd(types, s) ==
    \E m \in toSnd : m.type \in types /\ NumberOf(m) = s /\ (RecvAck(m) \/ RecvNak(m) \/ RecvLite(m))

\* Of what is sent again and again, something gets into the network.
GetsThrough(s) == SendTo /\ hand.seq = s /\ toRcv' # toRcv
AckGetsThrough == AckTimer /\ toSnd' # toSnd

\* Every thread runs on, every timer fires again and again, a datagram that is sent again and
\* again is not lost each time, and one that is not lost arrives: the thread of CRcvQueue looks
\* for one in each of its rounds, also between the rounds in which a timer makes it wait for
\* the send list.  Nothing obliges the writer to write, the network to lose, or a side to give
\* up.
FairSpec ==
    /\ Spec
    /\ WF_vars(SendUpdate) /\ WF_vars(SndQueueNext)
    /\ WF_vars(AckUpdate) /\ WF_vars(ExpTimer) /\ WF_vars(AckTimer)
    /\ WF_vars(AppRead) /\ WF_vars(AppEof)
    /\ SF_vars(AckGetsThrough)
    /\ \A s \in {SeqOf(n) : n \in 1 .. NBlocks + 1} :
        /\ SF_vars(GetsThrough(s))
        /\ WF_vars(ArrivesAtRcv(s))
        /\ SF_vars(ArrivesAtSnd({"ack", "nak"}, s))
        /\ SF_vars(ArrivesAtSnd({"lite"}, s))

-------------------------------------------------------------------------------
(* Properties *)

TypeOK ==
    /\ lastBlock \in 0 .. NBlocks /\ firstBlock \in 0 .. lastBlock /\ currBlock \in 0 .. lastBlock
    /\ {m_iSndLastAck, m_iSndLastDataAck, m_iRcvLastAck, m_iRcvLastAckAck} \subseteq SeqNumbers
    /\ {m_iSndCurrSeqNo, m_iRcvCurrSeqNo} \subseteq SeqNumbers \cup {-1}
    /\ m_pSndLossList \subseteq SeqNumbers /\ m_pRcvLossList \subseteq SeqNumbers
    /\ m_pUnit \in [0 .. RcvBufSize - 1 -> Blocks \cup {NoBlock}]
    /\ {m_iStartPos, m_iLastAckPos} \subseteq 0 .. RcvBufSize - 1

\* Where each side thinks the transfer stands is ordered along the stream: what the receiver
\* knows the sender to know, what the sender has been told, what the receiver has in order,
\* what it has at all, what was sent.  And the checks that call a packet of the peer "attack
\* or bug" never fire (core.cpp:1990, 2155).
AckOrder ==
    /\ sndState # "invalid"
    /\ seqcmp(m_iRcvLastAckAck, m_iSndLastDataAck) <= 0
    /\ seqcmp(m_iSndLastDataAck, m_iSndLastAck) <= 0
    /\ seqcmp(m_iSndLastDataAck, m_iRcvLastAck) <= 0
    /\ seqcmp(m_iSndLastAck, AckNumber) <= 0
    /\ seqcmp(m_iRcvLastAck, AckNumber) <= 0
    /\ seqcmp(AckNumber, incseq(m_iRcvCurrSeqNo)) <= 0
    /\ seqcmp(incseq(m_iRcvCurrSeqNo), incseq(m_iSndCurrSeqNo)) <= 0
    /\ m_iSndLastDataAck = SeqOf(firstBlock + 1)
    /\ incseq(m_iSndCurrSeqNo) = SeqOf(currBlock + 1)

\* The numbers from the first to the last of a set.
Span(S) == IF S = {} THEN 0
           ELSE LET last == CHOOSE s \in S : \A t \in S : seqcmp(t, s) <= 0
                IN  seqlen(FirstSeq(S), last)

\* A loss list holds only what is outstanding: the sender's no number that was acknowledged
\* or never sent, the receiver's none that is in order or never seen.  Their arrays, indexed by
\* the offset from the first number on the list (core.cpp:765-766), are large enough for that.
LossListsFit ==
    /\ m_pSndLossList \subseteq SeqRange(m_iSndLastDataAck, m_iSndCurrSeqNo)
    /\ m_pRcvLossList \subseteq SeqRange(m_iRcvLastAck, m_iRcvCurrSeqNo)
    /\ Span(m_pSndLossList) <= 2 * PeerWindow
    /\ Span(m_pRcvLossList) < RcvBufSize

\* What the two applications see.
Status ==
    IF lingered \/ rcvGaveUp \/ sndState \in {"broken", "invalid"} THEN "cut"
    ELSE IF sndState = "closed" THEN "closed" ELSE "open"

AsStream ==
    INSTANCE Stream WITH
        queue  <- [i \in 1 .. lastBlock - Len(readBlocks) |-> Len(readBlocks) + i],
        out    <- readBlocks,
        status <- Status
StreamSpec == AsStream!StreamSpec

\* What send() took is read at the other end, unless one of the sides is gone: as the writer
\* writes no more than NBlocks, it is enough that again and again all is read.
AllDelivered == []<>(Len(readBlocks) = lastBlock \/ sndState # "up" \/ rcvBroken)
===============================================================================
