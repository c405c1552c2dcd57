------------------------------ MODULE UdtLossList ------------------------------
(***************************************************************************)
(* The loss lists of UDT, CSndLossList and CRcvLossList of                 *)
(* src/udt/list.cpp: chains of ranges [data1, data2] kept in arrays, where *)
(* a range is at the place given by the offset of its first number from    *)
(* the head.  UdtStream has sets of numbers instead; here the arrays are   *)
(* shown to be such sets, for any calls that the two sides of a connection *)
(* may make.  The sender's calls hold m_ListLock, and the receiver's come  *)
(* from one thread, so that a call ends before the next one begins; a turn *)
(* of a loop in it is a step of its own.                                   *)
(***************************************************************************)
EXTENDS SeqNo, FiniteSets

CONSTANTS
    m_iSize,        \* the size of the arrays
    Window,         \* how many numbers are outstanding at most
    ISN

LossListAssumption ==
    /\ Window \in Nat \ {0} /\ m_iSize \in Nat /\ Window <= m_iSize
    /\ Window < m_iSeqNoTH
    /\ ISN \in SeqNumbers
ASSUME LossListAssumption

VARIABLES
    side,           \* "snd" or "rcv": whose list it is
    m_piData1, m_piData2, m_piNext, m_piPrior,
    m_iHead, m_iTail, m_iLength, m_iLastInsertPos,
    \* a call that is in a loop: which one, at which node, and the call's arguments
    pc, i, seqno1, seqno2,
    \* the numbers from lo to hi are outstanding
    lo,             \* m_iSndLastDataAck; m_iRcvLastAck
    hi,             \* m_iSndCurrSeqNo; m_iRcvCurrSeqNo
    \* the set that UdtStream has in the list's place, as the call will leave it
    losses

arrays == <<m_piData1, m_piData2, m_piNext, m_piPrior>>
ends == <<m_iHead, m_iTail, m_iLength, m_iLastInsertPos>>
callVars == <<pc, i, seqno1, seqno2>>
window == <<side, lo, hi, losses>>
vars == <<arrays, ends, callVars, window>>

Node == 0 .. m_iSize - 1
None == -1          \* no number, no node
Unset == -2         \* what new int[] leaves in the array

Init ==
    /\ side \in {"snd", "rcv"}
    /\ m_piData1 = [n \in Node |-> None] /\ m_piData2 = [n \in Node |-> None]
    /\ m_piNext = [n \in Node |-> Unset] /\ m_piPrior = [n \in Node |-> Unset]
    /\ m_iHead = None /\ m_iTail = None /\ m_iLength = 0 /\ m_iLastInsertPos = None
    /\ pc = "idle" /\ i = None /\ seqno1 = None /\ seqno2 = None
    /\ lo = ISN /\ hi = ISN - 1
    /\ losses = {}

-------------------------------------------------------------------------------
(* Helpers *)

Place(s) == (m_iHead + seqoff(m_piData1[m_iHead], s) + m_iSize) % m_iSize

After(n) == (n + 1) % m_iSize
Back(n) == (n - 1 + m_iSize) % m_iSize

\* The last number of a range.
End(n) == IF m_piData2[n] = None THEN m_piData1[n] ELSE m_piData2[n]

\* What is written into data2 with the range from a to b: nothing for a single number.  (The
\* insertions test seqno2 != seqno1, which is the same because b is never before a.)
Second(n, a, b) == IF seqcmp(b, a) > 0 THEN b ELSE m_piData2[n]

\* The call goes on with a loop at n, or it is over.
Loop(p, n, a, b) == pc' = p /\ i' = n /\ seqno1' = a /\ seqno2' = b
Over == Loop("idle", None, None, None)

-------------------------------------------------------------------------------
(* CSndLossList::insert() *)

\* A range of its own, at n.
NewRange(n, a, b) ==
    /\ m_piData1' = [m_piData1 EXCEPT ![n] = a]
    /\ m_piData2' = [m_piData2 EXCEPT ![n] = Second(n, a, b)]
    /\ m_iLastInsertPos' = n
    /\ m_iLength' = m_iLength + seqlen(a, b)

InsertFirst(a, b) ==
    /\ m_iLength = 0
    /\ NewRange(0, a, b)
    /\ m_iHead' = 0
    /\ m_piNext' = [m_piNext EXCEPT ![0] = None]
    /\ Over
    /\ UNCHANGED <<m_piPrior, m_iTail>>

\* The new range becomes the head.
InsertBefore(a, b) ==
    LET loc == Place(a)
    IN  /\ m_iLength > 0 /\ seqoff(m_piData1[m_iHead], a) < 0
        /\ NewRange(loc, a, b)
        /\ m_iHead' = loc
        /\ m_piNext' = [m_piNext EXCEPT ![loc] = m_iHead]
        /\ Loop("coalesce", loc, None, None)
        /\ UNCHANGED <<m_piPrior, m_iTail>>

\* The range at n is to go on to b.
Extend(n, b) ==
    /\ m_iLastInsertPos' = n
    /\ IF seqcmp(b, End(n)) > 0
       THEN /\ m_iLength' = m_iLength + seqlen(End(n), b) - 1
            /\ m_piData2' = [m_piData2 EXCEPT ![n] = b]
            /\ Loop("coalesce", n, None, None)
       ELSE UNCHANGED <<m_iLength, m_piData2>> /\ Over
    /\ UNCHANGED <<m_piData1, m_piNext, m_piPrior, m_iHead, m_iTail>>

\* A range begins with a already, the head's or another.
InsertAt(a, b) ==
    /\ m_iLength > 0 /\ seqoff(m_piData1[m_iHead], a) >= 0
    /\ m_piData1[Place(a)] = a
    /\ Extend(Place(a), b)

\* The last node before a is looked for, from the last insertion if that is before a.
InsertSearch(a, b) ==
    /\ m_iLength > 0 /\ seqoff(m_piData1[m_iHead], a) > 0
    /\ m_piData1[Place(a)] # a
    /\ Loop("search", IF m_iLastInsertPos # None /\ seqcmp(m_piData1[m_iLastInsertPos], a) < 0
                      THEN m_iLastInsertPos ELSE m_iHead, a, b)
    /\ UNCHANGED <<arrays, ends>>

Insert(a, b) ==
    InsertFirst(a, b) \/ InsertBefore(a, b) \/ InsertAt(a, b) \/ InsertSearch(a, b)

NextIsBefore(s) == m_piNext[i] # None /\ seqcmp(m_piData1[m_piNext[i]], s) < 0

SearchNext ==
    /\ pc = "search" /\ NextIsBefore(seqno1)
    /\ Loop("search", m_piNext[i], seqno1, seqno2)
    /\ UNCHANGED <<arrays, ends, window>>

\* No overlap with the node found: a new one is linked behind it.
SearchNew ==
    LET loc == Place(seqno1)
    IN  /\ pc = "search" /\ ~NextIsBefore(seqno1) /\ seqcmp(End(i), seqno1) < 0
        /\ NewRange(loc, seqno1, seqno2)
        /\ m_piNext' = [m_piNext EXCEPT ![loc] = m_piNext[i], ![i] = loc]
        /\ Loop("coalesce", loc, None, None)
        /\ UNCHANGED <<m_piPrior, m_iHead, m_iTail, window>>

SearchExtend ==
    /\ pc = "search" /\ ~NextIsBefore(seqno1) /\ seqcmp(End(i), seqno1) >= 0
    /\ Extend(i, seqno2)
    /\ UNCHANGED window

\* The next range begins before the end of this one, or right behind it.
Touches == /\ m_piNext[i] # None /\ m_piData2[i] # None
           /\ seqcmp(m_piData1[m_piNext[i]], incseq(m_piData2[i])) <= 0

\* Mutant: a range that ends later is taken in whole.
Coalesce_Whole ==
    LET x == m_piNext[i]
        longer == seqcmp(End(x), m_piData2[i]) > 0
    IN  /\ pc = "coalesce" /\ Touches
        /\ m_iLength' = m_iLength - (IF longer THEN 0 ELSE seqlen(m_piData1[x], End(x)))
        /\ m_piData1' = [m_piData1 EXCEPT ![x] = None]
        /\ m_piData2' = [m_piData2 EXCEPT ![x] = None, ![i] = IF longer THEN End(x) ELSE @]
        /\ m_piNext' = [m_piNext EXCEPT ![i] = m_piNext[x], ![x] = Unset]
        /\ UNCHANGED <<m_piPrior, m_iHead, m_iTail, m_iLastInsertPos, callVars, window>>

\* [3, 7], ..., [6, 9] becomes [3, 9].  The code leaves the links of a node that goes; that
\* they are not followed from here on is made sure of by taking them away, here and below.
Coalesce ==
    LET x == m_piNext[i]
        longer == seqcmp(End(x), m_piData2[i]) > 0
        overlap == IF seqcmp(m_piData2[i], m_piData1[x]) >= 0 THEN seqlen(m_piData1[x], m_piData2[i])
                   ELSE 0
    IN  /\ pc = "coalesce" /\ Touches
        /\ m_iLength' = m_iLength - (IF longer THEN overlap ELSE seqlen(m_piData1[x], End(x)))
        /\ m_piData1' = [m_piData1 EXCEPT ![x] = None]
        /\ m_piData2' = [m_piData2 EXCEPT ![x] = None, ![i] = IF longer THEN End(x) ELSE @]
        /\ m_piNext' = [m_piNext EXCEPT ![i] = m_piNext[x], ![x] = Unset]
        /\ UNCHANGED <<m_piPrior, m_iHead, m_iTail, m_iLastInsertPos, callVars, window>>

CoalesceDone ==
    /\ pc = "coalesce" /\ ~Touches
    /\ Over
    /\ UNCHANGED <<arrays, ends, window>>

-------------------------------------------------------------------------------
(* CSndLossList::remove(), of everything up to s, and getLostSeq() *)

\* Mutant: the node whose range ends with s, or before it, is kept.
Cut_Kept(n, s) ==
    LET rest == After(Place(s))
    IN  /\ IF seqcmp(End(n), s) > 0
           THEN /\ m_piData1' = [m_piData1 EXCEPT ![rest] = incseq(s)]
                /\ m_piData2' = [m_piData2 EXCEPT
                                   ![rest] = Second(rest, incseq(s), End(n)),
                                   ![n] = IF m_piData1[n] = s THEN None ELSE s]
                /\ m_piNext' = [m_piNext EXCEPT ![rest] = m_piNext[n], ![n] = rest]
                /\ m_iHead' = rest
           ELSE m_iHead' = n /\ UNCHANGED <<m_piData1, m_piData2, m_piNext>>
        /\ Loop("clear", m_iHead, None, None)
        /\ UNCHANGED <<m_piPrior, m_iTail, m_iLength, m_iLastInsertPos>>

\* The head moves behind s, which is at n or behind it: a range that goes on after s is cut
\* in two.  The nodes before the new head are still to be cleared.
Cut(n, s) ==
    LET rest == After(Place(s))
    IN  /\ IF seqcmp(End(n), s) > 0
           THEN /\ m_piData1' = [m_piData1 EXCEPT ![rest] = incseq(s)]
                /\ m_piData2' = [m_piData2 EXCEPT
                                   ![rest] = Second(rest, incseq(s), End(n)),
                                   ![n] = IF m_piData1[n] = s THEN None ELSE s]
                /\ m_piNext' = [m_piNext EXCEPT ![rest] = m_piNext[n], ![n] = rest]
                /\ m_iHead' = rest
           ELSE m_iHead' = m_piNext[n] /\ UNCHANGED <<m_piData1, m_piData2, m_piNext>>
        /\ Loop("clear", m_iHead, None, None)
        /\ UNCHANGED <<m_piPrior, m_iTail, m_iLength, m_iLastInsertPos>>

RemoveNothing(s) ==
    /\ m_iLength > 0 => seqoff(m_piData1[m_iHead], s) < 0
    /\ UNCHANGED <<arrays, ends, callVars>>

RemoveAt(s) ==
    /\ m_iLength > 0 /\ seqoff(m_piData1[m_iHead], s) >= 0
    /\ m_piData1[Place(s)] = s
    /\ Cut(Place(s), s)

RemoveFind(s) ==
    /\ m_iLength > 0 /\ seqoff(m_piData1[m_iHead], s) > 0
    /\ m_piData1[Place(s)] # s
    /\ Loop("find", m_iHead, s, None)
    /\ UNCHANGED <<arrays, ends>>

FindNext ==
    /\ pc = "find" /\ NextIsBefore(seqno1)
    /\ Loop("find", m_piNext[i], seqno1, None)
    /\ UNCHANGED <<arrays, ends, window>>

FindDone ==
    /\ pc = "find" /\ ~NextIsBefore(seqno1)
    /\ Cut(i, seqno1)
    /\ UNCHANGED window

\* A node before the new head goes.
Clear ==
    /\ pc = "clear" /\ i # m_iHead
    /\ m_iLength' = m_iLength - seqlen(m_piData1[i], End(i))
    /\ m_piData1' = [m_piData1 EXCEPT ![i] = None]
    /\ m_piData2' = [m_piData2 EXCEPT ![i] = None]
    /\ m_piNext' = [m_piNext EXCEPT ![i] = Unset]
    /\ m_iLastInsertPos' = IF m_iLastInsertPos = i THEN None ELSE m_iLastInsertPos
    /\ Loop("clear", m_piNext[i], None, None)
    /\ UNCHANGED <<m_piPrior, m_iHead, m_iTail, window>>

ClearDone ==
    /\ pc = "clear" /\ i = m_iHead
    /\ Over
    /\ UNCHANGED <<arrays, ends, window>>

\* getLostSeq(): the first number, m_piData1[m_iHead], is taken off.
TakeFirst ==
    LET h == m_iHead
        loc == After(h)
        s == m_piData1[h]
    IN  /\ m_iLength > 0
        /\ IF m_piData2[h] = None
           THEN /\ m_piData1' = [m_piData1 EXCEPT ![h] = None]
                /\ m_piNext' = [m_piNext EXCEPT ![h] = Unset]
                /\ m_iHead' = m_piNext[h]
                /\ UNCHANGED m_piData2
           ELSE /\ m_piData1' = [m_piData1 EXCEPT ![loc] = incseq(s), ![h] = None]
                /\ m_piData2' = [m_piData2 EXCEPT ![loc] = Second(loc, incseq(s), m_piData2[h]),
                                                  ![h] = None]
                /\ m_piNext' = [m_piNext EXCEPT ![loc] = m_piNext[h], ![h] = Unset]
                /\ m_iHead' = loc
        /\ m_iLength' = m_iLength - 1
        /\ m_iLastInsertPos' = IF m_iLastInsertPos = h THEN None ELSE m_iLastInsertPos
        /\ UNCHANGED <<m_piPrior, m_iTail, callVars>>

-------------------------------------------------------------------------------
(* CRcvLossList::insert() *)

RcvInsertFirst(a, b) ==
    /\ m_iLength = 0
    /\ m_piData1' = [m_piData1 EXCEPT ![0] = a]
    /\ m_piData2' = [m_piData2 EXCEPT ![0] = Second(0, a, b)]
    /\ m_piNext' = [m_piNext EXCEPT ![0] = None]
    /\ m_piPrior' = [m_piPrior EXCEPT ![0] = None]
    /\ m_iHead' = 0 /\ m_iTail' = 0

\* "Data to be inserted must be larger than all those in the list."
RcvInsertJoin(a, b) ==
    /\ m_iLength > 0
    /\ m_piData2[m_iTail] # None /\ incseq(m_piData2[m_iTail]) = a
    /\ m_piData2' = [m_piData2 EXCEPT ![m_iTail] = b]
    /\ UNCHANGED <<m_piData1, m_piNext, m_piPrior, m_iHead, m_iTail>>

RcvInsertLast(a, b) ==
    LET loc == Place(a)
    IN  /\ m_iLength > 0
        /\ ~(m_piData2[m_iTail] # None /\ incseq(m_piData2[m_iTail]) = a)
        /\ m_piData1' = [m_piData1 EXCEPT ![loc] = a]
        /\ m_piData2' = [m_piData2 EXCEPT ![loc] = Second(loc, a, b)]
        /\ m_piNext' = [m_piNext EXCEPT ![loc] = None, ![m_iTail] = loc]
        /\ m_piPrior' = [m_piPrior EXCEPT ![loc] = m_iTail]
        /\ m_iTail' = loc
        /\ UNCHANGED m_iHead

RcvInsert(a, b) ==
    /\ RcvInsertFirst(a, b) \/ RcvInsertJoin(a, b) \/ RcvInsertLast(a, b)
    /\ m_iLength' = m_iLength + seqlen(a, b)
    /\ UNCHANGED <<m_iLastInsertPos, callVars>>

-------------------------------------------------------------------------------
(* CRcvLossList::remove(), of one number *)

\* A range of the number alone: its neighbours are joined.
RcvUnlink(n) ==
    LET p == m_piPrior[n]
        x == m_piNext[n]
    IN  /\ m_piData2[n] = None
        /\ m_piData1' = [m_piData1 EXCEPT ![n] = None]
        /\ m_piNext' = [k \in Node |-> IF k = n THEN Unset
                                       ELSE IF k = p /\ m_iHead # n THEN x ELSE m_piNext[k]]
        /\ m_piPrior' = [k \in Node |-> IF k = n THEN Unset
                                        ELSE IF k # x THEN m_piPrior[k]
                                        ELSE IF m_iHead = n THEN None ELSE p]
        /\ m_iHead' = IF m_iHead = n THEN x ELSE m_iHead
        /\ m_iTail' = IF m_iHead # n /\ x = None THEN p ELSE m_iTail
        /\ UNCHANGED m_piData2

\* The range at n loses its first number, and moves on by a place.
RcvAdvance(n) ==
    LET loc == After(n)
        s == m_piData1[n]
    IN  /\ m_piData2[n] # None
        /\ m_piData1' = [m_piData1 EXCEPT ![loc] = incseq(s), ![n] = None]
        /\ m_piData2' = [m_piData2 EXCEPT ![loc] = Second(loc, incseq(s), m_piData2[n]), ![n] = None]
        /\ m_piNext' = [k \in Node |->
               IF k = loc THEN m_piNext[n] ELSE IF k = n THEN Unset
               ELSE IF k = m_piPrior[n] /\ m_iHead # n THEN loc ELSE m_piNext[k]]
        /\ m_piPrior' = [k \in Node |->
               IF k = loc THEN m_piPrior[n] ELSE IF k = n THEN Unset
               ELSE IF k = m_piNext[n] /\ m_iTail # n THEN loc ELSE m_piPrior[k]]
        /\ m_iHead' = IF m_iHead = n THEN loc ELSE m_iHead
        /\ m_iTail' = IF m_iTail = n THEN loc ELSE m_iTail

RcvRemoveNothing(s) ==
    /\ m_iLength > 0 => seqoff(m_piData1[m_iHead], s) < 0
    /\ UNCHANGED <<arrays, ends, callVars>>

RcvRemoveAt(s) ==
    /\ m_iLength > 0 /\ seqoff(m_piData1[m_iHead], s) >= 0
    /\ m_piData1[Place(s)] = s
    /\ RcvUnlink(Place(s)) \/ RcvAdvance(Place(s))
    /\ m_iLength' = m_iLength - 1
    /\ UNCHANGED <<m_iLastInsertPos, callVars>>

\* s may be in the range of the nearest place before that holds one.
RcvRemoveBack(s) ==
    /\ m_iLength > 0 /\ seqoff(m_piData1[m_iHead], s) >= 0
    /\ m_piData1[Place(s)] # s
    /\ Loop("back", Back(Place(s)), s, None)
    /\ UNCHANGED <<arrays, ends>>

BackNext ==
    /\ pc = "back" /\ m_piData1[i] = None
    /\ Loop("back", Back(i), seqno1, None)
    /\ UNCHANGED <<arrays, ends, window>>

BackNothing ==
    /\ pc = "back" /\ m_piData1[i] # None
    /\ m_piData2[i] # None => seqcmp(seqno1, m_piData2[i]) > 0
    /\ Over
    /\ UNCHANGED <<arrays, ends, window>>

\* What remains of the range at i before seqno1.
Shortened == IF seqno1 = incseq(m_piData1[i]) THEN None ELSE decseq(seqno1)

BackShorten ==
    /\ pc = "back" /\ m_piData1[i] # None /\ m_piData2[i] = seqno1
    /\ m_piData2' = [m_piData2 EXCEPT ![i] = Shortened]
    /\ m_iLength' = m_iLength - 1
    /\ Over
    /\ UNCHANGED <<m_piData1, m_piNext, m_piPrior, m_iHead, m_iTail, m_iLastInsertPos, window>>

\* The rest of the range gets the place behind that of seqno1.
BackSplit ==
    LET loc == After(Place(seqno1))
    IN  /\ pc = "back" /\ m_piData1[i] # None
        /\ m_piData2[i] # None /\ seqcmp(seqno1, m_piData2[i]) < 0
        /\ m_piData1' = [m_piData1 EXCEPT ![loc] = incseq(seqno1)]
        /\ m_piData2' = [m_piData2 EXCEPT ![loc] = Second(loc, incseq(seqno1), m_piData2[i]),
                                          ![i] = Shortened]
        /\ m_piNext' = [m_piNext EXCEPT ![loc] = m_piNext[i], ![i] = loc]
        /\ m_piPrior' = [k \in Node |->
               IF k = loc THEN i ELSE IF k = m_piNext[i] /\ m_iTail # i THEN loc ELSE m_piPrior[k]]
        /\ m_iTail' = IF m_iTail = i THEN loc ELSE m_iTail
        /\ m_iLength' = m_iLength - 1
        /\ Over
        /\ UNCHANGED <<m_iHead, m_iLastInsertPos, window>>

\* getFirstLostSeq(); -1 if nothing is lost
FirstLost == IF m_iLength = 0 THEN None ELSE m_piData1[m_iHead]

-------------------------------------------------------------------------------
(* The calls that a connection makes *)

Outstanding == SeqRange(lo, hi)
Room == Window - seqlen(lo, incseq(hi)) + 1

\* The sender sends a packet.
Sent ==
    /\ side = "snd" /\ pc = "idle" /\ Room > 0
    /\ hi' = incseq(hi)
    /\ UNCHANGED <<arrays, ends, callVars, side, lo, losses>>

\* A loss report, or the timer, which has everything sent again.
Lost ==
    /\ side = "snd" /\ pc = "idle"
    /\ \E a, b \in Outstanding :
        /\ seqcmp(a, b) <= 0
        /\ Insert(a, b)
        /\ losses' = losses \cup SeqRange(a, b)
    /\ UNCHANGED <<side, lo, hi>>

\* An ACK.
Acked ==
    /\ side = "snd" /\ pc = "idle"
    /\ \E s \in Outstanding :
        /\ lo' = incseq(s)
        /\ RemoveNothing(s) \/ RemoveAt(s) \/ RemoveFind(s)
        /\ losses' = {t \in losses : seqcmp(t, s) > 0}
    /\ UNCHANGED <<side, hi>>

\* The first lost packet is sent again.
Resent ==
    /\ side = "snd" /\ pc = "idle"
    /\ TakeFirst
    /\ losses' = losses \ {FirstSeq(losses)}
    /\ UNCHANGED <<side, lo, hi>>

\* The next packet arrives.
Arrives ==
    /\ side = "rcv" /\ pc = "idle" /\ Room > 0
    /\ hi' = incseq(hi)
    /\ UNCHANGED <<arrays, ends, callVars, side, lo, losses>>

\* A packet arrives after a gap of n packets.
ArrivesAfterGap ==
    /\ side = "rcv" /\ pc = "idle"
    /\ \E n \in 1 .. Room - 1 :
        /\ hi' = incseqBy(incseq(hi), n)
        /\ RcvInsert(incseq(hi), decseq(hi'))
        /\ losses' = losses \cup SeqRange(incseq(hi), decseq(hi'))
    /\ UNCHANGED <<side, lo>>

\* A packet of the window arrives that is not the newest: it was lost, or it is repeated.
Found ==
    /\ side = "rcv" /\ pc = "idle"
    /\ \E s \in Outstanding :
        /\ RcvRemoveNothing(s) \/ RcvRemoveAt(s) \/ RcvRemoveBack(s)
        /\ losses' = losses \ {s}
    /\ UNCHANGED <<side, lo, hi>>

\* The receiver acknowledges.
Acknowledges ==
    /\ side = "rcv" /\ pc = "idle"
    /\ lo' = IF m_iLength = 0 THEN incseq(hi) ELSE FirstLost
    /\ UNCHANGED <<arrays, ends, callVars, side, hi, losses>>

Loops ==
    \/ SearchNext \/ SearchNew \/ SearchExtend \/ Coalesce \/ CoalesceDone
    \/ FindNext \/ FindDone \/ Clear \/ ClearDone
    \/ BackNext \/ BackNothing \/ BackShorten \/ BackSplit

Next ==
    \/ Sent \/ Lost \/ Acked \/ Resent
    \/ Arrives \/ ArrivesAfterGap \/ Found \/ Acknowledges
    \/ Loops

Spec == Init /\ [][Next]_vars

-------------------------------------------------------------------------------
(* Properties *)

\* The nodes that hold a range, and the numbers on the list.
Used == {n \in Node : m_piData1[n] # None}
Content == UNION {SeqRange(m_piData1[n], End(n)) : n \in Used}

Before(m, n) == seqcmp(m_piData1[m], m_piData1[n]) < 0

\* Between two calls: the chain from the head runs through all ranges in their order, and
\* they do not overlap; the count is right; a node off the chain is empty, so that what is
\* written there starts afresh; the place of each range is the one its number gives; the
\* place of the last insertion, and the links back, lead to nodes of the chain.
ListWellFormed ==
    pc = "idle" =>
        /\ m_iLength = Cardinality(Content)
        /\ (m_iLength = 0) <=> (Used = {})
        /\ Used # {} => m_iHead \in Used /\ \A n \in Used : ~Before(n, m_iHead)
        /\ \A n \in Node \ Used : m_piData2[n] = None
        /\ \A n \in Used :
            /\ Place(m_piData1[n]) = n
            /\ m_piData2[n] # None => seqcmp(m_piData2[n], m_piData1[n]) > 0
            /\ IF m_piNext[n] = None
               THEN \A m \in Used : ~Before(n, m)
               ELSE /\ m_piNext[n] \in Used /\ seqcmp(End(n), m_piData1[m_piNext[n]]) < 0
                    /\ \A m \in Used : ~(Before(n, m) /\ Before(m, m_piNext[n]))
            /\ side = "rcv" => IF m_piNext[n] = None THEN m_iTail = n
                               ELSE m_piPrior[m_piNext[n]] = n
        /\ side = "snd" => m_iLastInsertPos \in Used \cup {None}

\* The list stands for the set: it holds the same numbers, and gives the first of them.
ListIsSet ==
    pc = "idle" =>
        /\ Content = losses
        /\ FirstLost = IF losses = {} THEN None ELSE FirstSeq(losses)
===============================================================================
