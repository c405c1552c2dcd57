-------------------------------- MODULE SeqNo --------------------------------
(***************************************************************************)
(* The arithmetic of UDT's sequence numbers, CSeqNo of src/udt/common.h:   *)
(* numbers go from 0 to m_iMaxSeqNo and wrap, and two of them are compared *)
(* correctly as long as they are close.  In the code m_iMaxSeqNo is        *)
(* 2^31 - 1; here it is a parameter, so that a short transfer wraps.       *)
(***************************************************************************)
EXTENDS Integers

CONSTANT m_iMaxSeqNo

ASSUME SeqNoAssumption == m_iMaxSeqNo \in Nat /\ m_iMaxSeqNo > 2

\* 0x3FFFFFFF for 0x7FFFFFFF
m_iSeqNoTH == m_iMaxSeqNo \div 2

SeqNumbers == 0 .. m_iMaxSeqNo

abs(n) == IF n < 0 THEN -n ELSE n

seqcmp(s, t) == IF abs(s - t) < m_iSeqNoTH THEN s - t ELSE t - s

\* the length from s to t, including both
seqlen(s, t) == IF s <= t THEN t - s + 1 ELSE t - s + m_iMaxSeqNo + 2

\* the offset of t from s
seqoff(s, t) ==
    IF abs(s - t) < m_iSeqNoTH THEN t - s
    ELSE IF s < t THEN t - s - m_iMaxSeqNo - 1 ELSE t - s + m_iMaxSeqNo + 1

incseq(s) == IF s = m_iMaxSeqNo THEN 0 ELSE s + 1

decseq(s) == IF s = 0 THEN m_iMaxSeqNo ELSE s - 1

\* the second incseq of the code, by a given increment
incseqBy(s, n) == IF m_iMaxSeqNo - s >= n THEN s + n ELSE s - m_iMaxSeqNo + n - 1

\* The numbers from s to t, both included; none if t is before s.
SeqRange(s, t) ==
    IF seqcmp(s, t) > 0 THEN {}
    ELSE {incseqBy(s, d) : d \in 0 .. seqlen(s, t) - 1}

\* The first number of a non-empty set of numbers that are close to each other.
FirstSeq(S) == CHOOSE s \in S : \A t \in S : seqcmp(s, t) <= 0
==============================================================================
