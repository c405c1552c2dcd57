--------------------------- MODULE UdtLossListProofs ---------------------------
(***************************************************************************)
(* Machine-checked proofs about UdtLossList, for arrays of any size, any   *)
(* window that fits into them, any ISN, and any sequence of the calls that *)
(* a connection makes.                                                     *)
(*                                                                         *)
(* All numbers that are outstanding lie in a window of less than half of   *)
(* the circle.  Counted from a number z at its beginning they are offsets, *)
(* which are ordered as integers are, and the range that begins with the   *)
(* offset o is at the place that is o places behind that of the offset 0.  *)
(* In these terms the arrays are a chain of ranges, and each turn of each  *)
(* loop makes another chain of it: that is LossListInv, which also says    *)
(* what a call that is in a loop still has to do.  First the circle, the   *)
(* ring of places, chains and their numbers are treated on their own, and  *)
(* then the calls one by one.                                              *)
(***************************************************************************)
EXTENDS UdtLossList, FiniteSetTheorems, FunctionTheorems, TLAPS

-------------------------------------------------------------------------------
(* Offsets and places *)

\* Offsets from z, clockwise, and the node that an offset has if the offset 0 is at c.
Off(z, s) == IF z <= s THEN s - z ELSE s - z + m_iMaxSeqNo + 1
At(c, o) == IF c + o < m_iSize THEN c + o ELSE c + o - m_iSize

\* The offsets of the first and of the last number of each node, and the one behind the window.
Fst(z) == [n \in Node |-> Off(z, m_piData1[n])]
Lst(z) == [n \in Node |-> Off(z, End(n))]
Top(z) == Off(z, incseq(hi))

-------------------------------------------------------------------------------
(* Chains.  U are the nodes in use, F and E their first and last offsets, nx the links. *)

\* Each range is inside the window, and at its place.
Placed(U, F, E, c, top) ==
    \A n \in U : 0 <= F[n] /\ F[n] <= E[n] /\ E[n] < top /\ n = At(c, F[n])

\* The ranges do not overlap, but for that of g, which may have grown over those behind it.
Apart(U, F, E, g) ==
    \A m, n \in U : F[m] < F[n] => m = g \/ E[m] < F[n]

\* The range behind that of n is that of x.
Follows(U, F, n, x) ==
    IF x = None THEN \A m \in U : F[m] <= F[n]
    ELSE x \in U /\ F[n] < F[x] /\ \A m \in U : F[m] <= F[n] \/ F[x] <= F[m]

\* The chain begins at h.
Begins(U, F, h) ==
    IF U = {} THEN h = None ELSE h \in U /\ \A n \in U : F[h] <= F[n]

Chain(U, F, E, nx, h, g, c, top) ==
    /\ U \subseteq Node
    /\ Placed(U, F, E, c, top)
    /\ Apart(U, F, E, g)
    /\ \A n \in U : Follows(U, F, n, nx[n])
    /\ Begins(U, F, h)

\* The numbers of the nodes in V.
Nums(z, V, F, E) ==
    {s \in SeqNumbers : \E n \in V : F[n] <= Off(z, s) /\ Off(z, s) <= E[n]}

\* How many they are, with the whole of the growing range.
Count(z, U, F, E, g) ==
    Cardinality(Nums(z, U \ {g}, F, E)) + (IF g = None THEN 0 ELSE E[g] - F[g] + 1)

-------------------------------------------------------------------------------
(* The inductive invariant *)

Numbers == SeqNumbers \cup {None}
Nodes == Node \cup {None}

LossTypes ==
    /\ side \in {"snd", "rcv"}
    /\ m_piData1 \in [Node -> Numbers] /\ m_piData2 \in [Node -> Numbers]
    /\ m_piNext \in [Node -> Nodes \cup {Unset}] /\ m_piPrior \in [Node -> Nodes \cup {Unset}]
    /\ m_iHead \in Nodes /\ m_iTail \in Nodes /\ m_iLength \in Int /\ m_iLastInsertPos \in Nodes
    /\ pc \in (IF side = "snd" THEN {"idle", "search", "coalesce", "find", "clear"}
                               ELSE {"idle", "back"})
    /\ i \in Nodes /\ seqno1 \in Numbers /\ seqno2 \in Numbers
    /\ lo \in SeqNumbers /\ hi \in Numbers /\ (hi = None => lo = 0)
    /\ losses \subseteq SeqNumbers

\* A single number has nothing in data2, and neither has a node that is not in use.
Written(U, F, E) ==
    /\ \A n \in Node \ U : m_piData2[n] = None
    /\ \A n \in U : m_piData2[n] # None => F[n] < E[n]

First == IF pc = "clear" THEN i ELSE m_iHead
Growing == IF pc = "coalesce" THEN i ELSE None

\* The links back.
RcvLinks(U) ==
    /\ \A n \in U : n # m_iHead => m_piPrior[n] \in U /\ m_piNext[m_piPrior[n]] = n
    /\ U # {} => m_iTail \in U /\ m_piNext[m_iTail] = None

\* Where the call stands, and what the list will be when it is over.
Idle(z, U, F, E) ==
    /\ z = lo
    /\ losses = Nums(z, U, F, E)

Searching(z, U, F, E) ==
    /\ z = lo
    /\ i \in U /\ seqno1 \in SeqNumbers /\ seqno2 \in SeqNumbers
    /\ F[i] < Off(z, seqno1) /\ Off(z, seqno1) <= Off(z, seqno2) /\ Off(z, seqno2) < Top(z)
    /\ m_piData1[Place(seqno1)] # seqno1
    /\ losses = Nums(z, U, F, E)
                  \cup {s \in SeqNumbers : Off(z, seqno1) <= Off(z, s) /\ Off(z, s) <= Off(z, seqno2)}

Coalescing(z, U, F, E) ==
    /\ Idle(z, U, F, E)
    /\ i \in U /\ m_iLastInsertPos = i

Finding(z, U, F, E) ==
    /\ i \in U /\ seqno1 \in SeqNumbers
    /\ F[i] < Off(z, seqno1) /\ Off(z, seqno1) < Top(z)
    /\ m_piData1[Place(seqno1)] # seqno1
    /\ lo = incseq(seqno1)
    /\ losses = {s \in Nums(z, U, F, E) : Off(z, seqno1) < Off(z, s)}

Clearing(z, U, F, E) ==
    /\ m_iHead # None => m_iHead \in U /\ Off(z, lo) <= F[m_iHead]
    /\ losses = Nums(z, {n \in U : m_iHead # None /\ F[m_iHead] <= F[n]}, F, E)

GoingBack(z, c, U, F, E) ==
    /\ z = lo
    /\ seqno1 \in SeqNumbers /\ Off(z, seqno1) < Top(z)
    /\ losses = Nums(z, U, F, E) \ {seqno1}
    /\ U # {}
    /\ \E p \in 0 .. Off(z, seqno1) - 1 :
         /\ F[m_iHead] <= p /\ i = At(c, p)
         /\ \A n \in U : F[n] <= p \/ Off(z, seqno1) < F[n]

CallOK(z, c, U, F, E) ==
    /\ pc = "idle" => Idle(z, U, F, E)
    /\ pc = "search" => Searching(z, U, F, E)
    /\ pc = "coalesce" => Coalescing(z, U, F, E)
    /\ pc = "find" => Finding(z, U, F, E)
    /\ pc = "clear" => Clearing(z, U, F, E)
    /\ pc = "back" => GoingBack(z, c, U, F, E)

ListOK(z, c, U, F, E) ==
    /\ Top(z) <= Window /\ Off(z, lo) <= Top(z)
    /\ Chain(U, F, E, m_piNext, First, Growing, c, Top(z))
    /\ Written(U, F, E)
    /\ m_iLength = Count(z, U, F, E, Growing)
    /\ side = "snd" => m_iLastInsertPos \in U \cup {None}
    /\ side = "rcv" => RcvLinks(U)
    /\ CallOK(z, c, U, F, E)

LossListInv ==
    /\ LossTypes
    /\ \E z \in SeqNumbers, c \in Node : ListOK(z, c, Used, Fst(z), Lst(z))
-------------------------------------------------------------------------------
(* Arithmetic: within a window the numbers are compared and counted as their offsets. *)

\* Half of the circle, and the sizes.
LEMMA Sizes ==
  /\ m_iMaxSeqNo \in Nat /\ m_iSeqNoTH \in Nat
  /\ 2 * m_iSeqNoTH <= m_iMaxSeqNo /\ m_iMaxSeqNo <= 2 * m_iSeqNoTH + 1
  /\ Window \in Nat /\ Window > 0 /\ Window < m_iSeqNoTH
  /\ m_iSize \in Nat /\ Window <= m_iSize
  /\ ISN \in SeqNumbers
<1>1. m_iSeqNoTH \in Nat /\ 2 * m_iSeqNoTH <= m_iMaxSeqNo /\ m_iMaxSeqNo <= 2 * m_iSeqNoTH + 1
  BY SeqNoAssumption DEF m_iSeqNoTH
<1> QED
  BY <1>1, SeqNoAssumption, LossListAssumption DEF LossListAssumption

\* Offsets are those of the circle.
LEMMA OffsetIs ==
  ASSUME NEW z \in SeqNumbers, NEW s \in SeqNumbers
  PROVE  Off(z, s) \in Nat /\ Off(z, s) <= m_iMaxSeqNo
  BY Sizes DEF Off, SeqNumbers

\* Two numbers are equal exactly if their offsets are.
LEMMA SameOffset ==
  ASSUME NEW z \in SeqNumbers, NEW s \in SeqNumbers, NEW t \in SeqNumbers, Off(z, s) = Off(z, t)
  PROVE  s = t
  BY Sizes DEF Off, SeqNumbers

\* What the code's comparisons say of two numbers of a window that begins at z.
LEMMA Compared ==
  ASSUME NEW z \in SeqNumbers, NEW s \in SeqNumbers, NEW t \in SeqNumbers,
         Off(z, s) <= Window, Off(z, t) <= Window
  PROVE  /\ seqcmp(s, t) < 0 <=> Off(z, s) < Off(z, t)
         /\ seqcmp(s, t) <= 0 <=> Off(z, s) <= Off(z, t)
         /\ seqcmp(s, t) > 0 <=> Off(z, s) > Off(z, t)
         /\ seqcmp(s, t) >= 0 <=> Off(z, s) >= Off(z, t)
         /\ seqoff(s, t) = Off(z, t) - Off(z, s)
  BY Sizes DEF Off, SeqNumbers, seqcmp, seqoff, abs

\* seqlen counts the offsets between two numbers, both ends included.
LEMMA Length ==
  ASSUME NEW z \in SeqNumbers, NEW s \in SeqNumbers, NEW t \in SeqNumbers,
         Off(z, s) <= Off(z, t)
  PROVE  seqlen(s, t) = Off(z, t) - Off(z, s) + 1
  BY Sizes DEF Off, SeqNumbers, seqlen

\* incseq and decseq move by one offset.
LEMMA NextNumber ==
  ASSUME NEW z \in SeqNumbers, NEW s \in SeqNumbers
  PROVE  /\ incseq(s) \in SeqNumbers
         /\ Off(z, s) <= Window => Off(z, incseq(s)) = Off(z, s) + 1
         /\ decseq(s) \in SeqNumbers
         /\ Off(z, s) > 0 => Off(z, decseq(s)) = Off(z, s) - 1
  BY Sizes DEF Off, SeqNumbers, incseq, decseq

\* incseq by n moves by n offsets.
LEMMA Further ==
  ASSUME NEW z \in SeqNumbers, NEW s \in SeqNumbers, NEW n \in Nat, Off(z, s) + n <= Window
  PROVE  incseqBy(s, n) \in SeqNumbers /\ Off(z, incseqBy(s, n)) = Off(z, s) + n
  BY Sizes DEF Off, SeqNumbers, incseqBy

\* A window that begins later.
LEMMA Rebased ==
  ASSUME NEW z \in SeqNumbers, NEW y \in SeqNumbers, NEW s \in SeqNumbers,
         Off(z, y) <= Off(z, s)
  PROVE  Off(y, s) = Off(z, s) - Off(z, y)
  BY Sizes DEF Off, SeqNumbers

\* The numbers of a window with offsets from a to b.
Between(z, a, b) == {s \in SeqNumbers : a <= Off(z, s) /\ Off(z, s) <= b}

\* SeqRange is what lies between its ends, also where they wrap.
LEMMA RangeBetween ==
  ASSUME NEW z \in SeqNumbers, NEW s \in SeqNumbers, NEW t \in SeqNumbers,
         Off(z, s) <= Window, Off(z, t) <= Window
  PROVE  SeqRange(s, t) = Between(z, Off(z, s), Off(z, t))
<1>0. /\ Off(z, s) \in Nat /\ Off(z, t) \in Nat /\ Window \in Nat
      /\ \A u \in SeqNumbers : Off(z, u) \in Nat
  BY OffsetIs, Sizes
<1>1. CASE Off(z, s) > Off(z, t)
  <2>1. SeqRange(s, t) = {}
    BY <1>1, Compared DEF SeqRange
  <2> QED BY <2>1, <1>1, <1>0 DEF Between
<1>2. CASE Off(z, s) <= Off(z, t)
  <2>1. SeqRange(s, t) = {incseqBy(s, d) : d \in 0 .. Off(z, t) - Off(z, s)}
    <3>1. ~(seqcmp(s, t) > 0)
      BY <1>0, <1>2, Compared
    <3>2. seqlen(s, t) - 1 = Off(z, t) - Off(z, s)
      BY <1>0, <1>2, Length
    <3> QED BY <3>1, <3>2 DEF SeqRange
  <2>2. ASSUME NEW d \in 0 .. Off(z, t) - Off(z, s)
        PROVE  incseqBy(s, d) \in Between(z, Off(z, s), Off(z, t))
    <3>1. d \in Nat /\ Off(z, s) + d <= Window /\ Off(z, s) + d <= Off(z, t)
      BY <1>0
    <3>2. incseqBy(s, d) \in SeqNumbers /\ Off(z, incseqBy(s, d)) = Off(z, s) + d
      BY <3>1, Further
    <3> QED BY <1>0, <3>1, <3>2 DEF Between
  <2>3. ASSUME NEW u \in Between(z, Off(z, s), Off(z, t))
        PROVE  \E d \in 0 .. Off(z, t) - Off(z, s) : u = incseqBy(s, d)
    <3>1. u \in SeqNumbers /\ Off(z, s) <= Off(z, u) /\ Off(z, u) <= Off(z, t) /\ Off(z, u) \in Nat
      BY <1>0 DEF Between
    <3>2. PICK d \in Nat : d = Off(z, u) - Off(z, s)
      BY <1>0, <3>1
    <3>3. d \in 0 .. Off(z, t) - Off(z, s) /\ Off(z, s) + d = Off(z, u) /\ Off(z, s) + d <= Window
      BY <1>0, <3>1, <3>2
    <3>4. incseqBy(s, d) \in SeqNumbers /\ Off(z, incseqBy(s, d)) = Off(z, u)
      BY <3>3, Further
    <3>5. u = incseqBy(s, d)
      BY <3>1, <3>4, SameOffset
    <3> QED BY <3>3, <3>5
  <2> QED BY <2>1, <2>2, <2>3
<1> QED BY <1>0, <1>1, <1>2

\* There are as many numbers between two offsets as there are offsets.
LEMMA BetweenCounted ==
  ASSUME NEW z \in SeqNumbers, NEW a \in Nat, NEW b \in Nat, a <= b + 1, b <= Window
  PROVE  IsFiniteSet(Between(z, a, b)) /\ Cardinality(Between(z, a, b)) = b - a + 1
<1>0. \A u \in SeqNumbers : Off(z, u) \in Nat
  BY OffsetIs
<1>1. \A d \in a .. b : incseqBy(z, d) \in SeqNumbers /\ Off(z, incseqBy(z, d)) = d
  <2>1. Off(z, z) = 0
    BY Sizes DEF Off, SeqNumbers
  <2> QED BY <2>1, Further, Sizes
<1> DEFINE f == [d \in a .. b |-> incseqBy(z, d)]
<1>2. f \in Bijection(a .. b, Between(z, a, b))
  <2>1. \A d \in a .. b : f[d] \in Between(z, a, b)
    BY <1>1 DEF Between
  <2>2. \A d, e \in a .. b : f[d] = f[e] => d = e
    BY <1>1
  <2>3. ASSUME NEW u \in Between(z, a, b) PROVE \E d \in a .. b : f[d] = u
    <3>1. u \in SeqNumbers /\ Off(z, u) \in a .. b
      BY <1>0 DEF Between
    <3>2. f[Off(z, u)] = u
      BY <3>1, <1>1, SameOffset
    <3> QED BY <3>1, <3>2
  <2> QED BY <2>1, <2>2, <2>3, Fun_IsBij
<1>3. ExistsBijection(a .. b, Between(z, a, b))
  BY <1>2 DEF ExistsBijection
<1>4. IsFiniteSet(a .. b) /\ Cardinality(a .. b) = b - a + 1
  BY FS_Interval
<1> QED
  BY <1>3, <1>4, FS_Bijection

-------------------------------------------------------------------------------
(* Places *)

\* At stays in the array.
LEMMA PlaceAt ==
  ASSUME NEW c \in Node, NEW o \in Nat, o < m_iSize
  PROVE  At(c, o) \in Node
  BY Sizes DEF At, Node

\* Offsets of one window have different places.
LEMMA SamePlace ==
  ASSUME NEW c \in Node, NEW o \in Nat, NEW p \in Nat, o < m_iSize, p < m_iSize, At(c, o) = At(c, p)
  PROVE  o = p
  BY Sizes DEF At, Node

\* The place of the next offset is the next one in the array, which is a ring.
LEMMA PlaceAfter ==
  ASSUME NEW c \in Node, NEW o \in Nat, o < m_iSize
  PROVE  After(At(c, o)) = At(c, o + 1)
<1>1. PICK n \in Node : n = At(c, o)
  BY PlaceAt
<1>2. (n + 1) % m_iSize = IF n + 1 = m_iSize THEN 0 ELSE n + 1
  BY Sizes DEF Node
<1> QED
  BY <1>1, <1>2, Sizes DEF After, At, Node

\* The place of the previous offset is the previous one in the array.
LEMMA PlaceBack ==
  ASSUME NEW c \in Node, NEW o \in Nat, o < m_iSize, o > 0
  PROVE  Back(At(c, o)) = At(c, o - 1)
<1>1. PICK n \in Node : n = At(c, o)
  BY PlaceAt
<1>2. (n - 1 + m_iSize) % m_iSize = IF n = 0 THEN m_iSize - 1 ELSE n - 1
  BY Sizes DEF Node
<1> QED
  BY <1>1, <1>2, Sizes DEF Back, At, Node

\* The place counted from another place, as the code counts it from the head.
LEMMA PlaceOff ==
  ASSUME NEW c \in Node, NEW o \in Nat, NEW p \in Nat, o < m_iSize, p < m_iSize
  PROVE  (At(c, o) + (p - o) + m_iSize) % m_iSize = At(c, p)
<1>1. PICK x \in Int : x = At(c, o) + (p - o) + m_iSize
  BY PlaceAt, Sizes DEF Node
<1>2. At(c, p) \in Node /\ (x = At(c, p) \/ x = At(c, p) + m_iSize \/ x = At(c, p) + 2 * m_iSize)
  BY <1>1, PlaceAt, Sizes DEF At, Node
<1>3. ASSUME NEW n \in Node PROVE n % m_iSize = n /\ (n + m_iSize) % m_iSize = n /\ (n + 2 * m_iSize) % m_iSize = n
  BY Sizes DEF Node
<1> QED
  BY <1>1, <1>2, <1>3

\* The place does not depend on the number that offsets are counted from.
LEMMA PlaceRebased ==
  ASSUME NEW c \in Node, NEW d \in Nat, NEW o \in Nat, d <= o, o < m_iSize
  PROVE  At(At(c, d), o - d) = At(c, o)
  BY Sizes DEF At, Node
-------------------------------------------------------------------------------
(* Chains *)

\* What a lemma about a chain that becomes another one starts from.
Functions(F, E) == F \in [Node -> Int] /\ E \in [Node -> Int]

\* Two ranges do not begin with the same number, for they would be at the same place.
LEMMA OneStart ==
  ASSUME NEW U, NEW F, NEW E, Functions(F, E), NEW nx, NEW h, NEW g, NEW c \in Node,
         NEW top \in Nat, top <= m_iSize, Chain(U, F, E, nx, h, g, c, top),
         NEW m \in U, NEW n \in U, F[m] = F[n]
  PROVE  m = n
  BY DEF Chain, Placed

\* A place is free if no range begins with its number.
LEMMA FreePlace ==
  ASSUME NEW U, NEW F, NEW E, Functions(F, E), NEW nx, NEW h, NEW g, NEW c \in Node,
         NEW top \in Nat, top <= m_iSize, Chain(U, F, E, nx, h, g, c, top),
         NEW o \in Nat, o < m_iSize, \A n \in U : F[n] # o
  PROVE  At(c, o) \notin U
<1> SUFFICES ASSUME At(c, o) \in U PROVE FALSE
  OBVIOUS
<1>1. PICK n \in U : n = At(c, o)
  OBVIOUS
<1>2. F[n] \in Nat /\ F[n] < m_iSize /\ n = At(c, F[n])
  BY Sizes DEF Chain, Placed, Functions
<1>3. F[n] = o
  BY <1>1, <1>2, SamePlace
<1> QED
  BY <1>3

\* The first range of an empty list.
LEMMA ChainFirst ==
  ASSUME NEW F, NEW E, Functions(F, E), NEW nx, NEW c \in Node, NEW top \in Nat,
         NEW x \in Node, x = At(c, F[x]), 0 <= F[x], F[x] <= E[x], E[x] < top, nx[x] = None
  PROVE  Chain({x}, F, E, nx, x, None, c, top)
  BY DEF Chain, Placed, Apart, Follows, Begins, Functions

\* The new range of x is behind that of p, and all others are as before.
Linked(U, F, E, nx, F2, E2, nx2, p, x) ==
    /\ p \in U /\ E[p] < F2[x] /\ (nx[p] = None \/ F2[x] < F[nx[p]])
    /\ \A n \in U : F2[n] = F[n] /\ E2[n] = E[n] /\ (n # p => nx2[n] = nx[n])
    /\ nx2[p] = x /\ nx2[x] = nx[p]

\* A new range between n and the range that follows it.
LEMMA ChainNew ==
  ASSUME NEW U, NEW F, NEW E, Functions(F, E), NEW nx, NEW h, NEW c \in Node,
         NEW top \in Nat, Chain(U, F, E, nx, h, None, c, top),
         NEW F2, NEW E2, Functions(F2, E2), NEW nx2, NEW top2 \in Nat, top <= top2, NEW g,
         NEW x \in Node, x \notin U, x = At(c, F2[x]), F2[x] <= E2[x], E2[x] < top2,
         NEW p, Linked(U, F, E, nx, F2, E2, nx2, p, x),
         g = x \/ nx[p] = None
  PROVE  Chain(U \cup {x}, F2, E2, nx2, h, g, c, top2)
<1>0. /\ p \in U /\ E[p] < F2[x] /\ (nx[p] = None \/ F2[x] < F[nx[p]])
      /\ \A n \in U : F2[n] = F[n] /\ E2[n] = E[n]
      /\ \A n \in U : n # p => nx2[n] = nx[n]
      /\ nx2[p] = x /\ nx2[x] = nx[p]
  BY DEF Linked
<1> USE <1>0
<1>1. U \subseteq Node /\ None \notin Node
  BY DEF Chain, Node, None
<1>2. /\ \A n \in U : F[n] \in Int /\ E[n] \in Int /\ 0 <= F[n] /\ F[n] <= E[n] /\ E[n] < top /\ n = At(c, F[n])
      /\ F2[x] \in Int /\ E2[x] \in Int
  BY <1>1 DEF Chain, Placed, Functions
<1>3. \A m, n \in U : F[m] < F[n] => E[m] < F[n]
  BY <1>1 DEF Chain, Apart
<1>4. \A n \in U : Follows(U, F, n, nx[n])
  BY DEF Chain
<1>5. Placed(U \cup {x}, F2, E2, c, top2)
  BY <1>2 DEF Placed
<1>6. \A m \in U : (F[m] <= F[p] /\ F[m] <= F2[x]) \/ (nx[p] # None /\ F[nx[p]] <= F[m] /\ F2[x] < F[m])
  BY <1>2, <1>4 DEF Follows
<1>7. Apart(U \cup {x}, F2, E2, g)
  <2>1. \A m \in U : F[m] < F2[x] => E[m] < F2[x]
    BY <1>2, <1>3, <1>6
  <2>2. \A m \in U : F2[x] < F[m] => g = x
    BY <1>2, <1>6
  <2> QED BY <1>2, <1>3, <2>1, <2>2 DEF Apart
<1>8. ASSUME NEW n \in U \cup {x} PROVE Follows(U \cup {x}, F2, n, nx2[n])
  <2>1. CASE n = x
    BY <2>1, <1>1, <1>2, <1>4, <1>6 DEF Follows
  <2>2. CASE n = p
    BY <2>2, <1>1, <1>2, <1>4, <1>6 DEF Follows
  <2>3. CASE n \in U /\ n # p
    <3>1. Follows(U, F, n, nx[n]) /\ nx2[n] = nx[n] /\ F2[n] = F[n]
      BY <2>3, <1>4
    <3>2. F[p] <= F[n] \/ F[n] < F[p]
      BY <2>3, <1>2
    <3>3. F[n] # F[p]
      BY <2>3, <1>2
    <3> QED BY <3>1, <3>2, <3>3, <2>3, <1>1, <1>2, <1>6 DEF Follows
  <2> QED BY <2>1, <2>2, <2>3
<1>9. Begins(U \cup {x}, F2, h)
  BY <1>2 DEF Chain, Begins
<1> QED
  BY <1>1, <1>5, <1>7, <1>8, <1>9 DEF Chain

\* A new range before all others.
LEMMA ChainBefore ==
  ASSUME NEW U, NEW F, NEW E, Functions(F, E), NEW nx, NEW h \in U, NEW c \in Node,
         NEW top \in Nat, Chain(U, F, E, nx, h, None, c, top),
         NEW F2, NEW E2, Functions(F2, E2), NEW nx2,
         NEW x \in Node, x \notin U, x = At(c, F2[x]), 0 <= F2[x], F2[x] <= E2[x], E2[x] < top,
         F2[x] < F[h],
         \A n \in U : F2[n] = F[n] /\ E2[n] = E[n] /\ nx2[n] = nx[n],
         nx2[x] = h
  PROVE  Chain(U \cup {x}, F2, E2, nx2, x, x, c, top)
<1>1. U \subseteq Node /\ None \notin Node
  BY DEF Chain, Node, None
<1>2. /\ \A n \in U : F[n] \in Int /\ E[n] \in Int /\ 0 <= F[n] /\ F[n] <= E[n] /\ E[n] < top /\ n = At(c, F[n])
      /\ F2[x] \in Int /\ E2[x] \in Int
  BY <1>1 DEF Chain, Placed, Functions
<1>3. \A n \in U : F[h] <= F[n]
  BY DEF Chain, Begins
<1>4. Placed(U \cup {x}, F2, E2, c, top)
  BY <1>2 DEF Placed
<1>5. Apart(U \cup {x}, F2, E2, x)
  <2>1. \A m, n \in U : F[m] < F[n] => E[m] < F[n]
    BY <1>1 DEF Chain, Apart
  <2> QED BY <2>1, <1>2, <1>3 DEF Apart
<1>6. ASSUME NEW n \in U \cup {x} PROVE Follows(U \cup {x}, F2, n, nx2[n])
  <2>1. CASE n = x
    BY <2>1, <1>1, <1>2, <1>3 DEF Follows
  <2>2. CASE n \in U
    <3>1. Follows(U, F, n, nx[n])
      BY <2>2 DEF Chain
    <3> QED BY <3>1, <2>2, <1>1, <1>2, <1>3 DEF Follows
  <2> QED BY <2>1, <2>2
<1>7. Begins(U \cup {x}, F2, x)
  BY <1>2, <1>3 DEF Begins
<1> QED
  BY <1>1, <1>4, <1>5, <1>6, <1>7 DEF Chain

\* The range of x becomes longer, or shorter.
LEMMA ChainResized ==
  ASSUME NEW U, NEW F, NEW E, Functions(F, E), NEW nx, NEW h, NEW c \in Node,
         NEW top \in Nat, Chain(U, F, E, nx, h, None, c, top),
         NEW E2, Functions(F, E2), NEW top2 \in Nat, top <= top2, NEW g,
         NEW x \in U, F[x] <= E2[x], E2[x] < top2,
         g = x \/ nx[x] = None \/ E2[x] <= E[x],
         \A n \in U : n # x => E2[n] = E[n]
  PROVE  Chain(U, F, E2, nx, h, g, c, top2)
<1>1. U \subseteq Node /\ None \notin Node
  BY DEF Chain, Node, None
<1>2. /\ \A n \in U : F[n] \in Int /\ E[n] \in Int /\ 0 <= F[n] /\ F[n] <= E[n] /\ E[n] < top /\ n = At(c, F[n])
      /\ E2[x] \in Int
  BY <1>1 DEF Chain, Placed, Functions
<1>3. Placed(U, F, E2, c, top2)
  BY <1>2 DEF Placed
<1>4. Apart(U, F, E2, g)
  <2>1. \A m, n \in U : F[m] < F[n] => E[m] < F[n]
    BY <1>1 DEF Chain, Apart
  <2>2. nx[x] = None => \A m \in U : F[m] <= F[x]
    BY DEF Chain, Follows
  <2> QED BY <2>1, <2>2, <1>2 DEF Apart
<1> QED
  BY <1>3, <1>4 DEF Chain

\* A range that has grown, and has stopped before the next one.
LEMMA ChainSettled ==
  ASSUME NEW U, NEW F, NEW E, Functions(F, E), NEW nx, NEW h, NEW c \in Node,
         NEW top \in Nat, NEW g \in U, Chain(U, F, E, nx, h, g, c, top),
         nx[g] = None \/ E[g] < F[nx[g]]
  PROVE  Chain(U, F, E, nx, h, None, c, top)
<1>1. U \subseteq Node /\ None \notin Node
  BY DEF Chain, Node, None
<1>2. \A n \in U : F[n] \in Int /\ E[n] \in Int
  BY <1>1 DEF Chain, Functions
<1>3. Follows(U, F, g, nx[g])
  BY DEF Chain
<1>4. \A n \in U : F[g] < F[n] => E[g] < F[n]
  BY <1>1, <1>2, <1>3 DEF Follows
<1>5. Apart(U, F, E, None)
  BY <1>4 DEF Chain, Apart
<1> QED
  BY <1>5 DEF Chain

\* The range x behind g, which has grown over its beginning or up to it, becomes a part of g.
LEMMA ChainMerged ==
  ASSUME NEW U, NEW F, NEW E, Functions(F, E), NEW nx, NEW h, NEW c \in Node,
         NEW top \in Nat, NEW g \in U, Chain(U, F, E, nx, h, g, c, top),
         NEW x, x = nx[g], x # None,
         NEW F2, NEW E2, Functions(F2, E2), NEW nx2,
         F[g] <= E2[g], E2[g] < top,
         \A n \in U \ {x} : F2[n] = F[n] /\ (n # g => E2[n] = E[n] /\ nx2[n] = nx[n]),
         nx2[g] = nx[x]
  PROVE  x \in U /\ x # g /\ h # x /\ Chain(U \ {x}, F2, E2, nx2, h, g, c, top)
<1>1. U \subseteq Node /\ None \notin Node
  BY DEF Chain, Node, None
<1>2. /\ \A n \in U : F[n] \in Int /\ E[n] \in Int /\ 0 <= F[n] /\ F[n] <= E[n] /\ E[n] < top /\ n = At(c, F[n])
      /\ E2[g] \in Int
  BY <1>1 DEF Chain, Placed, Functions
<1>3. x \in U /\ F[g] < F[x] /\ x # g /\ \A m \in U : F[m] <= F[g] \/ F[x] <= F[m]
  <2>1. Follows(U, F, g, nx[g])
    BY DEF Chain
  <2> QED BY <2>1, <1>2 DEF Follows
<1>4. Begins(U \ {x}, F2, h) /\ h # x
  BY <1>2, <1>3 DEF Chain, Begins
<1>5. Placed(U \ {x}, F2, E2, c, top)
  BY <1>2 DEF Placed
<1>6. Apart(U \ {x}, F2, E2, g)
  BY DEF Chain, Apart
<1>7. ASSUME NEW n \in U \ {x} PROVE Follows(U \ {x}, F2, n, nx2[n])
  <2>1. Follows(U, F, n, nx[n]) /\ Follows(U, F, x, nx[x])
    BY <1>3 DEF Chain
  <2>2. CASE n = g
    BY <2>1, <2>2, <1>1, <1>2, <1>3 DEF Follows
  <2>3. CASE n # g
    <3>1. nx[n] # x
      <4>1. F[n] # F[g] /\ F[n] # F[x]
        BY <2>3, <1>2, <1>3
      <4> QED BY <4>1, <2>1, <1>1, <1>2, <1>3 DEF Follows
    <3> QED BY <3>1, <2>1, <2>3, <1>1, <1>2, <1>3 DEF Follows
  <2> QED BY <2>2, <2>3
<1> QED
  BY <1>1, <1>3, <1>4, <1>5, <1>6, <1>7 DEF Chain

\* The range of p is cut, and the end of it gets a place of its own.
Halved(U, F, E, nx, F2, E2, nx2, p, x) ==
    /\ p \in U /\ x \in Node /\ x \notin U
    /\ F[p] <= E2[p] /\ E2[p] < F2[x] /\ F2[x] <= E[p] /\ E2[x] = E[p]
    /\ \A n \in U : F2[n] = F[n] /\ (n # p => E2[n] = E[n] /\ nx2[n] = nx[n])
    /\ nx2[p] = x /\ nx2[x] = nx[p]

\* A range is cut in two, and the part behind the cut gets a node of its own.
LEMMA ChainSplit ==
  ASSUME NEW U, NEW F, NEW E, Functions(F, E), NEW nx, NEW h, NEW c \in Node,
         NEW top \in Nat, Chain(U, F, E, nx, h, None, c, top),
         NEW F2, NEW E2, Functions(F2, E2), NEW nx2, NEW p, NEW x, x = At(c, F2[x]),
         Halved(U, F, E, nx, F2, E2, nx2, p, x)
  PROVE  Chain(U \cup {x}, F2, E2, nx2, h, None, c, top)
<1>0. /\ p \in U /\ x \in Node /\ x \notin U
      /\ F[p] <= E2[p] /\ E2[p] < F2[x] /\ F2[x] <= E[p] /\ E2[x] = E[p]
      /\ \A n \in U : F2[n] = F[n] /\ (n # p => E2[n] = E[n] /\ nx2[n] = nx[n])
      /\ nx2[p] = x /\ nx2[x] = nx[p]
  BY DEF Halved
<1> USE <1>0
<1>1. U \subseteq Node /\ None \notin Node
  BY DEF Chain, Node, None
<1>2. /\ \A n \in U : F[n] \in Int /\ E[n] \in Int /\ 0 <= F[n] /\ F[n] <= E[n] /\ E[n] < top /\ n = At(c, F[n])
      /\ F2[x] \in Int /\ E2[x] \in Int /\ E2[p] \in Int
  BY <1>1 DEF Chain, Placed, Functions
<1>3. \A m, n \in U : F[m] < F[n] => E[m] < F[n]
  BY <1>1 DEF Chain, Apart
<1>4. \A n \in U : Follows(U, F, n, nx[n])
  BY DEF Chain
<1>5. Placed(U \cup {x}, F2, E2, c, top)
  BY <1>2 DEF Placed
<1>6. \A m \in U : m # p => (F[m] < F[p] /\ E[m] < F[p]) \/ (nx[p] # None /\ F[nx[p]] <= F[m] /\ E[p] < F[m])
  <2>1. \A m \in U : m # p => F[m] # F[p]
    BY <1>2
  <2> QED BY <2>1, <1>1, <1>2, <1>3, <1>4 DEF Follows
<1>7. Apart(U \cup {x}, F2, E2, None)
  BY <1>2, <1>3, <1>6 DEF Apart
<1>8. ASSUME NEW n \in U \cup {x} PROVE Follows(U \cup {x}, F2, n, nx2[n])
  <2>1. CASE n = x
    BY <2>1, <1>1, <1>2, <1>3, <1>4, <1>6 DEF Follows
  <2>2. CASE n = p
    BY <2>2, <1>1, <1>2, <1>4, <1>6 DEF Follows
  <2>3. CASE n \in U /\ n # p
    BY <2>3, <1>1, <1>2, <1>4, <1>6 DEF Follows
  <2> QED BY <2>1, <2>2, <2>3
<1>9. Begins(U \cup {x}, F2, h)
  BY <1>2, <1>6 DEF Chain, Begins
<1> QED
  BY <1>1, <1>5, <1>7, <1>8, <1>9 DEF Chain

\* The first range goes.
Shifted(U, F, E, nx, F2, E2, nx2, h) ==
    h \in U /\ \A n \in U \ {h} : F2[n] = F[n] /\ E2[n] = E[n] /\ nx2[n] = nx[n]

\* The chain without its first range.
LEMMA ChainShifted ==
  ASSUME NEW U, NEW F, NEW E, Functions(F, E), NEW nx, NEW h, NEW c \in Node,
         NEW top \in Nat, Chain(U, F, E, nx, h, None, c, top),
         NEW F2, NEW E2, Functions(F2, E2), NEW nx2,
         Shifted(U, F, E, nx, F2, E2, nx2, h)
  PROVE  Chain(U \ {h}, F2, E2, nx2, nx[h], None, c, top)
<1>0. h \in U /\ \A n \in U \ {h} : F2[n] = F[n] /\ E2[n] = E[n] /\ nx2[n] = nx[n]
  BY DEF Shifted
<1> USE <1>0
<1>1. U \subseteq Node /\ None \notin Node
  BY DEF Chain, Node, None
<1>2. \A n \in U : F[n] \in Int /\ E[n] \in Int /\ 0 <= F[n] /\ F[n] <= E[n] /\ E[n] < top /\ n = At(c, F[n])
  BY <1>1 DEF Chain, Placed, Functions
<1>3. \A n \in U : Follows(U, F, n, nx[n])
  BY DEF Chain
<1>4. \A n \in U \ {h} : F[h] < F[n]
  BY <1>2 DEF Chain, Begins
<1>5. Placed(U \ {h}, F2, E2, c, top) /\ Apart(U \ {h}, F2, E2, None)
  BY <1>2 DEF Chain, Placed, Apart
<1>6. ASSUME NEW n \in U \ {h} PROVE Follows(U \ {h}, F2, n, nx2[n])
  BY <1>1, <1>2, <1>3, <1>4 DEF Follows
<1>7. Begins(U \ {h}, F2, nx[h])
  BY <1>1, <1>2, <1>3, <1>4 DEF Follows, Begins
<1> QED
  BY <1>1, <1>5, <1>6, <1>7 DEF Chain

\* The range of n, which is behind that of p, goes.
Unlinked(U, F, E, nx, F2, E2, nx2, p, n) ==
    /\ n \in U /\ p \in U /\ nx[p] = n
    /\ \A m \in U \ {n} : F2[m] = F[m] /\ E2[m] = E[m] /\ (m # p => nx2[m] = nx[m])
    /\ nx2[p] = nx[n]

\* The chain without one range, whose neighbours are linked.
LEMMA ChainUnlinked ==
  ASSUME NEW U, NEW F, NEW E, Functions(F, E), NEW nx, NEW h, NEW c \in Node,
         NEW top \in Nat, Chain(U, F, E, nx, h, None, c, top),
         NEW F2, NEW E2, Functions(F2, E2), NEW nx2, NEW p, NEW n,
         Unlinked(U, F, E, nx, F2, E2, nx2, p, n)
  PROVE  Chain(U \ {n}, F2, E2, nx2, h, None, c, top)
<1>0. /\ n \in U /\ p \in U /\ nx[p] = n
      /\ \A m \in U \ {n} : F2[m] = F[m] /\ E2[m] = E[m] /\ (m # p => nx2[m] = nx[m])
      /\ nx2[p] = nx[n]
  BY DEF Unlinked
<1> USE <1>0
<1>1. U \subseteq Node /\ None \notin Node
  BY DEF Chain, Node, None
<1>2. \A m \in U : F[m] \in Int /\ E[m] \in Int /\ 0 <= F[m] /\ F[m] <= E[m] /\ E[m] < top /\ m = At(c, F[m])
  BY <1>1 DEF Chain, Placed, Functions
<1>3. \A m \in U : Follows(U, F, m, nx[m])
  BY DEF Chain
<1>4. F[p] < F[n] /\ p # n /\ \A m \in U : F[m] <= F[p] \/ F[n] <= F[m]
  BY <1>1, <1>2, <1>3 DEF Follows
<1>5. Placed(U \ {n}, F2, E2, c, top) /\ Apart(U \ {n}, F2, E2, None)
  BY <1>2 DEF Chain, Placed, Apart
<1>6. ASSUME NEW m \in U \ {n} PROVE Follows(U \ {n}, F2, m, nx2[m])
  <2>1. CASE m = p
    BY <2>1, <1>1, <1>2, <1>3, <1>4 DEF Follows
  <2>2. CASE m # p
    <3>1. F[m] # F[p] /\ F[m] # F[n]
      BY <2>2, <1>2
    <3>2. nx[m] # n
      BY <3>1, <1>1, <1>2, <1>3, <1>4 DEF Follows
    <3> QED BY <3>1, <3>2, <2>2, <1>1, <1>2, <1>3 DEF Follows
  <2> QED BY <2>1, <2>2
<1>7. Begins(U \ {n}, F2, h)
  BY <1>2, <1>4 DEF Chain, Begins
<1> QED
  BY <1>1, <1>5, <1>6, <1>7 DEF Chain

\* The range of n loses its first number and moves to x.
Advanced(U, F, E, nx, F2, E2, nx2, n, x) ==
    /\ n \in U /\ x \in Node /\ x \notin U
    /\ F[n] < F2[x] /\ F2[x] <= E[n] /\ E2[x] = E[n]
    /\ \A m \in U \ {n} : /\ F2[m] = F[m] /\ E2[m] = E[m]
                          /\ nx2[m] = IF nx[m] = n THEN x ELSE nx[m]
    /\ nx2[x] = nx[n]

\* A range that loses its first number moves on to the next place.
LEMMA ChainAdvanced ==
  ASSUME NEW U, NEW F, NEW E, Functions(F, E), NEW nx, NEW h, NEW c \in Node,
         NEW top \in Nat, Chain(U, F, E, nx, h, None, c, top),
         NEW F2, NEW E2, Functions(F2, E2), NEW nx2, NEW n, NEW x, x = At(c, F2[x]),
         Advanced(U, F, E, nx, F2, E2, nx2, n, x),
         NEW h2, h2 = IF h = n THEN x ELSE h
  PROVE  Chain((U \ {n}) \cup {x}, F2, E2, nx2, h2, None, c, top)
<1>0. /\ n \in U /\ x \in Node /\ x \notin U
      /\ F[n] < F2[x] /\ F2[x] <= E[n] /\ E2[x] = E[n]
      /\ \A m \in U \ {n} : /\ F2[m] = F[m] /\ E2[m] = E[m]
                            /\ nx2[m] = IF nx[m] = n THEN x ELSE nx[m]
      /\ nx2[x] = nx[n]
  BY DEF Advanced
<1> USE <1>0
<1>1. U \subseteq Node /\ None \notin Node
  BY DEF Chain, Node, None
<1>2. /\ \A m \in U : F[m] \in Int /\ E[m] \in Int /\ 0 <= F[m] /\ F[m] <= E[m] /\ E[m] < top /\ m = At(c, F[m])
      /\ F2[x] \in Int /\ E2[x] \in Int
  BY <1>1 DEF Chain, Placed, Functions
<1>3. \A m, k \in U : F[m] < F[k] => E[m] < F[k]
  BY <1>1 DEF Chain, Apart
<1>4. \A m \in U : Follows(U, F, m, nx[m])
  BY DEF Chain
<1>5. \A m \in U \ {n} : (F[m] < F[n] /\ E[m] < F[n]) \/ (F[n] < F[m] /\ E[n] < F[m])
  <2>1. \A m \in U \ {n} : F[m] # F[n]
    BY <1>2
  <2> QED BY <2>1, <1>2, <1>3
<1>6. Placed((U \ {n}) \cup {x}, F2, E2, c, top)
  BY <1>2 DEF Placed
<1>7. Apart((U \ {n}) \cup {x}, F2, E2, None)
  BY <1>2, <1>3, <1>5 DEF Apart
<1>8. ASSUME NEW m \in (U \ {n}) \cup {x} PROVE Follows((U \ {n}) \cup {x}, F2, m, nx2[m])
  <2>1. CASE m = x
    BY <2>1, <1>1, <1>2, <1>4, <1>5 DEF Follows
  <2>2. CASE m \in U \ {n}
    <3>1. CASE nx[m] = n
      BY <3>1, <2>2, <1>1, <1>2, <1>4, <1>5 DEF Follows
    <3>2. CASE nx[m] # n
      BY <3>2, <2>2, <1>1, <1>2, <1>4, <1>5 DEF Follows
    <3> QED BY <3>1, <3>2
  <2> QED BY <2>1, <2>2
<1>9. Begins((U \ {n}) \cup {x}, F2, h2)
  BY <1>1, <1>2, <1>5 DEF Chain, Begins
<1> QED
  BY <1>1, <1>6, <1>7, <1>8, <1>9 DEF Chain

\* The offsets counted from d.
LEMMA ChainRebased ==
  ASSUME NEW U, NEW F, NEW E, Functions(F, E), NEW nx, NEW h, NEW c \in Node,
         NEW top \in Nat, top <= m_iSize, Chain(U, F, E, nx, h, None, c, top),
         NEW F2, NEW E2, Functions(F2, E2), NEW d \in Nat, NEW top2 \in Nat, top <= d + top2,
         \A n \in U : d <= F[n] /\ F2[n] = F[n] - d /\ E2[n] = E[n] - d
  PROVE  Chain(U, F2, E2, nx, h, None, At(c, d), top2)
<1>1. U \subseteq Node /\ None \notin Node
  BY DEF Chain, Node, None
<1>2. \A n \in U : F[n] \in Int /\ E[n] \in Int /\ 0 <= F[n] /\ F[n] <= E[n] /\ E[n] < top /\ n = At(c, F[n])
  BY <1>1 DEF Chain, Placed, Functions
<1>3. Placed(U, F2, E2, At(c, d), top2)
  BY <1>2, PlaceRebased, Sizes DEF Placed
<1>4. Apart(U, F2, E2, None) /\ Begins(U, F2, h)
  BY <1>2 DEF Chain, Apart, Begins
<1>5. \A n \in U : Follows(U, F2, n, nx[n])
  BY <1>2 DEF Chain, Follows
<1> QED
  BY <1>1, <1>3, <1>4, <1>5 DEF Chain
-------------------------------------------------------------------------------
(* The numbers of a chain *)

\* The numbers of a set of ranges can be counted.
LEMMA NumsFinite ==
  ASSUME NEW z, NEW V, NEW F, NEW E
  PROVE  IsFiniteSet(Nums(z, V, F, E)) /\ Cardinality(Nums(z, V, F, E)) \in Nat
<1>1. IsFiniteSet(SeqNumbers)
  BY FS_Interval, Sizes DEF SeqNumbers
<1>2. Nums(z, V, F, E) \in SUBSET SeqNumbers
  BY DEF Nums
<1> QED
  BY <1>1, <1>2, FS_Subset, FS_CardinalityType

\* The numbers of ranges that stay as they are.
LEMMA NumsSame ==
  ASSUME NEW z, NEW V, NEW F, NEW E, NEW F2, NEW E2, \A n \in V : F2[n] = F[n] /\ E2[n] = E[n]
  PROVE  Nums(z, V, F2, E2) = Nums(z, V, F, E)
  BY DEF Nums

\* The numbers of a set of ranges are those of one of them and those of the others.
LEMMA NumsWith ==
  ASSUME NEW z, NEW V, NEW F, NEW E, NEW x \in V
  PROVE  Nums(z, V, F, E) = Nums(z, V \ {x}, F, E) \cup Between(z, F[x], E[x])
  BY DEF Nums, Between

\* One range of some that do not overlap.
LEMMA CountOne ==
  ASSUME NEW z \in SeqNumbers, NEW V \in SUBSET Node, NEW F, NEW E, Functions(F, E),
         NEW x \in V, 0 <= F[x], F[x] <= E[x] + 1, E[x] <= Window,
         \A n \in V \ {x} : E[n] < F[x] \/ E[x] < F[n]
  PROVE  Cardinality(Nums(z, V, F, E)) = Cardinality(Nums(z, V \ {x}, F, E)) + E[x] - F[x] + 1
<1>1. \A s \in SeqNumbers : Off(z, s) \in Nat
  BY OffsetIs
<1>2. \A n \in V : F[n] \in Int /\ E[n] \in Int
  BY DEF Functions
<1>3. IsFiniteSet(Between(z, F[x], E[x])) /\ Cardinality(Between(z, F[x], E[x])) = E[x] - F[x] + 1
  <2>1. CASE E[x] \in Nat
    BY <2>1, <1>2, BetweenCounted
  <2>2. CASE E[x] \notin Nat
    <3>1. E[x] = -1 /\ F[x] = 0
      BY <2>2, <1>2
    <3>2. Between(z, F[x], E[x]) = {}
      BY <3>1, <1>1 DEF Between
    <3> QED BY <3>1, <3>2, FS_EmptySet
  <2> QED BY <2>1, <2>2
<1>4. Nums(z, V \ {x}, F, E) \cap Between(z, F[x], E[x]) = {}
  BY <1>1, <1>2 DEF Nums, Between
<1>5. /\ IsFiniteSet(Nums(z, V \ {x}, F, E)) /\ Cardinality(Nums(z, V \ {x}, F, E)) \in Nat
      /\ Cardinality(Nums(z, V \ {x}, F, E) \cap Between(z, F[x], E[x])) = 0
  BY <1>4, NumsFinite, FS_EmptySet
<1>6. Nums(z, V, F, E) = Nums(z, V \ {x}, F, E) \cup Between(z, F[x], E[x])
  BY NumsWith
<1>7. Cardinality(Nums(z, V \ {x}, F, E) \cup Between(z, F[x], E[x]))
         = Cardinality(Nums(z, V \ {x}, F, E)) + Cardinality(Between(z, F[x], E[x])) - 0
  BY <1>3, <1>5, FS_Union
<1>8. F[x] \in Int /\ E[x] \in Int
  BY <1>2
<1> QED
  BY <1>3, <1>5, <1>6, <1>7, <1>8

\* One range of a chain.
LEMMA CountChain ==
  ASSUME NEW z \in SeqNumbers, NEW U, NEW F, NEW E, Functions(F, E), NEW nx, NEW h, NEW g,
         NEW c \in Node, NEW top \in Nat, top <= Window, Chain(U, F, E, nx, h, g, c, top),
         NEW x \in U \ {g}
  PROVE  Cardinality(Nums(z, U \ {g}, F, E))
           = Cardinality(Nums(z, (U \ {g}) \ {x}, F, E)) + E[x] - F[x] + 1
<1>1. U \in SUBSET Node
  BY DEF Chain
<1>2. \A n \in U : F[n] \in Int /\ E[n] \in Int /\ 0 <= F[n] /\ F[n] <= E[n] /\ E[n] < top /\ n = At(c, F[n])
  BY <1>1 DEF Chain, Placed, Functions
<1>3. \A n \in (U \ {g}) \ {x} : E[n] < F[x] \/ E[x] < F[n]
  <2>1. \A n \in (U \ {g}) \ {x} : F[n] < F[x] \/ F[x] < F[n]
    BY <1>2
  <2>2. \A m, n \in U \ {g} : F[m] < F[n] => E[m] < F[n]
    BY DEF Chain, Apart
  <2> QED BY <2>1, <2>2
<1> DEFINE V == U \ {g}
<1>4. V \in SUBSET Node /\ x \in V /\ 0 <= F[x] /\ E[x] <= Window /\ F[x] <= E[x] + 1
  BY <1>1, <1>2, Sizes
<1>5. \A n \in V \ {x} : E[n] < F[x] \/ E[x] < F[n]
  BY <1>3
<1> HIDE DEF V
<1>6. Cardinality(Nums(z, V, F, E)) = Cardinality(Nums(z, V \ {x}, F, E)) + E[x] - F[x] + 1
  <2>1. Functions(F, E) /\ z \in SeqNumbers
    OBVIOUS
  <2> QED BY ONLY <2>1, <1>4, <1>5, CountOne
<1> QED
  BY <1>6 DEF V

\* With nothing growing the count is the number of numbers, and what one range adds to it
\* can be told apart.
LEMMA CountWhole ==
  ASSUME NEW z \in SeqNumbers, NEW U \in SUBSET Node, NEW F, NEW E
  PROVE  Count(z, U, F, E, None) = Cardinality(Nums(z, U, F, E))
<1>1. U \ {None} = U
  BY DEF Node, None
<1>2. Cardinality(Nums(z, U, F, E)) \in Nat
  BY NumsFinite
<1> QED
  BY <1>1, <1>2 DEF Count

\* The count of a chain, with one of its ranges set apart.
LEMMA CountApart ==
  ASSUME NEW z \in SeqNumbers, NEW U, NEW F, NEW E, Functions(F, E), NEW nx, NEW h,
         NEW c \in Node, NEW top \in Nat, top <= Window, Chain(U, F, E, nx, h, None, c, top),
         NEW x \in U
  PROVE  Count(z, U, F, E, None) = Cardinality(Nums(z, U \ {x}, F, E)) + E[x] - F[x] + 1
<1>1. U \in SUBSET Node
  BY DEF Chain
<1>2. U \ {None} = U /\ x \in U \ {None}
  BY <1>1 DEF Node, None
<1>3. Cardinality(Nums(z, U \ {None}, F, E))
         = Cardinality(Nums(z, (U \ {None}) \ {x}, F, E)) + E[x] - F[x] + 1
  BY <1>2, CountChain
<1> QED
  BY <1>1, <1>2, <1>3, CountWhole

\* The same of a chain of which all that is needed is said in one place.
ChainWith(z, U, F, E, nx, h, c, top, x) ==
    /\ z \in SeqNumbers /\ Functions(F, E) /\ c \in Node /\ top \in Nat /\ top <= Window
    /\ Chain(U, F, E, nx, h, None, c, top)
    /\ x \in U

\* One of its ranges, set apart.
LEMMA CountWith ==
  ASSUME NEW z, NEW U, NEW F, NEW E, NEW nx, NEW h, NEW c, NEW top, NEW x,
         ChainWith(z, U, F, E, nx, h, c, top, x)
  PROVE  Count(z, U, F, E, None) = Cardinality(Nums(z, U \ {x}, F, E)) + E[x] - F[x] + 1
<1>1. /\ z \in SeqNumbers /\ Functions(F, E) /\ c \in Node /\ top \in Nat /\ top <= Window
      /\ Chain(U, F, E, nx, h, None, c, top)
      /\ x \in U
  BY DEF ChainWith
<1>2. U \in SUBSET Node
  BY <1>1 DEF Chain
<1>3. \A n \in U : F[n] \in Int /\ E[n] \in Int /\ 0 <= F[n] /\ F[n] <= E[n] /\ E[n] < top
                   /\ n = At(c, F[n])
  BY <1>1, <1>2 DEF Chain, Placed, Functions
<1>4. \A n \in U \ {x} : E[n] < F[x] \/ E[x] < F[n]
  <2>1. \A n \in U \ {x} : F[n] < F[x] \/ F[x] < F[n]
    BY <1>1, <1>3
  <2>2. \A m, n \in U : F[m] < F[n] => E[m] < F[n]
    BY <1>1, <1>2 DEF Chain, Apart, Node, None
  <2> QED BY <2>1, <2>2, <1>1
<1>5. 0 <= F[x] /\ E[x] <= Window /\ F[x] <= E[x] + 1 /\ Functions(F, E) /\ z \in SeqNumbers /\ x \in U
  BY <1>1, <1>3, Sizes
<1>6. Cardinality(Nums(z, U, F, E)) = Cardinality(Nums(z, U \ {x}, F, E)) + E[x] - F[x] + 1
  BY ONLY <1>2, <1>4, <1>5, CountOne
<1> QED
  BY <1>1, <1>2, <1>6, CountWhole

\* A new range that is going to grow, and one at the end.
LEMMA CountNew ==
  ASSUME NEW z \in SeqNumbers, NEW U \in SUBSET Node, NEW F, NEW E, NEW F2, NEW E2,
         Functions(F2, E2), NEW x \in Node, x \notin U,
         \A n \in U : F2[n] = F[n] /\ E2[n] = E[n]
  PROVE  Count(z, U \cup {x}, F2, E2, x) = Count(z, U, F, E, None) + E2[x] - F2[x] + 1
<1>1. (U \cup {x}) \ {x} = U /\ x # None
  BY DEF Node, None
<1>2. Nums(z, U, F2, E2) = Nums(z, U, F, E)
  BY NumsSame
<1>3. /\ Cardinality(Nums(z, U, F, E)) \in Nat /\ F2[x] \in Int /\ E2[x] \in Int
      /\ Count(z, U, F, E, None) = Cardinality(Nums(z, U, F, E))
  BY NumsFinite, CountWhole DEF Functions
<1>4. Count(z, U \cup {x}, F2, E2, x) = Cardinality(Nums(z, U, F, E)) + (E2[x] - F2[x] + 1)
  BY <1>1, <1>2 DEF Count
<1> QED
  BY <1>3, <1>4

\* A new range that does not grow.
LEMMA CountLast ==
  ASSUME NEW z \in SeqNumbers, NEW U \in SUBSET Node, NEW F, NEW E, NEW F2, NEW E2,
         Functions(F2, E2), NEW nx, NEW h, NEW c \in Node, NEW top \in Nat, top <= Window,
         NEW x \in Node, x \notin U, Chain(U \cup {x}, F2, E2, nx, h, None, c, top),
         \A n \in U : F2[n] = F[n] /\ E2[n] = E[n]
  PROVE  Count(z, U \cup {x}, F2, E2, None) = Count(z, U, F, E, None) + E2[x] - F2[x] + 1
<1>1. (U \cup {x}) \ {x} = U
  OBVIOUS
<1>2. Nums(z, U, F2, E2) = Nums(z, U, F, E)
  BY NumsSame
<1> QED
  BY <1>1, <1>2, CountWhole, CountApart

\* A range that becomes longer, or shorter.
LEMMA CountResized ==
  ASSUME NEW z \in SeqNumbers, NEW U, NEW F, NEW E, Functions(F, E), NEW nx, NEW h,
         NEW c \in Node, NEW top \in Nat, top <= Window, Chain(U, F, E, nx, h, None, c, top),
         NEW E2, Functions(F, E2), NEW top2 \in Nat, top2 <= Window, NEW g,
         Chain(U, F, E2, nx, h, g, c, top2),
         NEW x \in U, g = x \/ g = None,
         \A n \in U : n # x => E2[n] = E[n]
  PROVE  Count(z, U, F, E2, g) = Count(z, U, F, E, None) + E2[x] - E[x]
<1>1. U \in SUBSET Node /\ x # None /\ F[x] \in Int /\ E[x] \in Int /\ E2[x] \in Int
  BY DEF Chain, Node, None, Functions
<1>2. Nums(z, U \ {x}, F, E2) = Nums(z, U \ {x}, F, E)
  BY NumsSame
<1>3. Cardinality(Nums(z, U \ {x}, F, E)) \in Nat
  BY NumsFinite
<1>4. Count(z, U, F, E, None) = Cardinality(Nums(z, U \ {x}, F, E)) + E[x] - F[x] + 1
  BY CountApart
<1>5. Count(z, U, F, E2, g) = Cardinality(Nums(z, U \ {x}, F, E)) + E2[x] - F[x] + 1
  <2>1. CASE g = x
    <3>1. Count(z, U, F, E2, g) = Cardinality(Nums(z, U \ {x}, F, E)) + (E2[x] - F[x] + 1)
      BY <2>1, <1>1, <1>2 DEF Count
    <3> QED BY <3>1, <1>1, <1>3
  <2>2. CASE g = None
    <3>1. Chain(U, F, E2, nx, h, None, c, top2)
      BY <2>2
    <3> QED BY <3>1, <2>2, <1>2, CountApart
  <2> QED BY <2>1, <2>2
<1> QED
  BY <1>1, <1>3, <1>4, <1>5

\* The count when the growing range has stopped growing.
LEMMA CountSettled ==
  ASSUME NEW z \in SeqNumbers, NEW U, NEW F, NEW E, Functions(F, E), NEW nx, NEW h,
         NEW c \in Node, NEW top \in Nat, top <= Window, NEW g \in U,
         Chain(U, F, E, nx, h, None, c, top)
  PROVE  Count(z, U, F, E, None) = Count(z, U, F, E, g)
<1>1. g # None /\ F[g] \in Int /\ E[g] \in Int
  BY DEF Chain, Node, None, Functions
<1>2. Cardinality(Nums(z, U \ {g}, F, E)) \in Nat
  BY NumsFinite
<1>3. Count(z, U, F, E, g) = Cardinality(Nums(z, U \ {g}, F, E)) + (E[g] - F[g] + 1)
  BY <1>1 DEF Count
<1>4. Count(z, U, F, E, None) = Cardinality(Nums(z, U \ {g}, F, E)) + E[g] - F[g] + 1
  BY CountApart
<1> QED
  BY <1>1, <1>2, <1>3, <1>4

\* The count when a range becomes a part of the growing one.
LEMMA CountMerged ==
  ASSUME NEW z \in SeqNumbers, NEW U, NEW F, NEW E, Functions(F, E), NEW nx, NEW h,
         NEW c \in Node, NEW top \in Nat, top <= Window, NEW g \in U,
         Chain(U, F, E, nx, h, g, c, top),
         NEW x \in U, x # g, NEW F2, NEW E2, Functions(F2, E2),
         \A n \in U \ {x} : F2[n] = F[n] /\ (n # g => E2[n] = E[n])
  PROVE  Count(z, U \ {x}, F2, E2, g) = Count(z, U, F, E, g) - (E[x] - F[x] + 1) + E2[g] - E[g]
<1>1. /\ g # None /\ F[g] \in Int /\ E[g] \in Int /\ F[x] \in Int /\ E[x] \in Int /\ E2[g] \in Int
      /\ F2[g] = F[g]
  BY DEF Chain, Node, None, Functions
<1>2. (U \ {x}) \ {g} = (U \ {g}) \ {x}
  OBVIOUS
<1>3. Nums(z, (U \ {g}) \ {x}, F2, E2) = Nums(z, (U \ {g}) \ {x}, F, E)
  BY NumsSame
<1>4. Cardinality(Nums(z, U \ {g}, F, E))
         = Cardinality(Nums(z, (U \ {g}) \ {x}, F, E)) + E[x] - F[x] + 1
  BY CountChain
<1>5. Cardinality(Nums(z, (U \ {g}) \ {x}, F, E)) \in Nat
  BY NumsFinite
<1>6. Count(z, U, F, E, g) = Cardinality(Nums(z, U \ {g}, F, E)) + (E[g] - F[g] + 1)
  BY <1>1 DEF Count
<1>7. Count(z, U \ {x}, F2, E2, g)
         = Cardinality(Nums(z, (U \ {g}) \ {x}, F, E)) + (E2[g] - F[g] + 1)
  BY <1>1, <1>2, <1>3 DEF Count
<1> QED
  BY <1>1, <1>4, <1>5, <1>6, <1>7

\* A range that goes.
LEMMA CountWithout ==
  ASSUME NEW z \in SeqNumbers, NEW U, NEW F, NEW E, Functions(F, E), NEW nx, NEW h,
         NEW c \in Node, NEW top \in Nat, top <= Window, Chain(U, F, E, nx, h, None, c, top),
         NEW x \in U, NEW F2, NEW E2,
         \A n \in U \ {x} : F2[n] = F[n] /\ E2[n] = E[n]
  PROVE  Count(z, U \ {x}, F2, E2, None) = Count(z, U, F, E, None) - (E[x] - F[x] + 1)
<1>1. U \in SUBSET Node /\ U \ {x} \in SUBSET Node /\ F[x] \in Int /\ E[x] \in Int
  BY DEF Chain, Functions
<1>2. Nums(z, U \ {x}, F2, E2) = Nums(z, U \ {x}, F, E)
  BY NumsSame
<1>3. Cardinality(Nums(z, U \ {x}, F, E)) \in Nat
  BY NumsFinite
<1>4. Count(z, U \ {x}, F2, E2, None) = Cardinality(Nums(z, U \ {x}, F, E))
  BY <1>1, <1>2, CountWhole
<1>5. Count(z, U, F, E, None) = Cardinality(Nums(z, U \ {x}, F, E)) + E[x] - F[x] + 1
  BY CountApart
<1> QED
  BY <1>1, <1>3, <1>4, <1>5

\* A range that is cut in two, at p and x.
LEMMA CountSplit ==
  ASSUME NEW z \in SeqNumbers, NEW U, NEW F, NEW E, Functions(F, E), NEW nx, NEW h,
         NEW c \in Node, NEW top \in Nat, top <= Window, Chain(U, F, E, nx, h, None, c, top),
         NEW F2, NEW E2, Functions(F2, E2), NEW nx2, NEW h2, NEW p, NEW x,
         Halved(U, F, E, nx, F2, E2, nx2, p, x),
         Chain(U \cup {x}, F2, E2, nx2, h2, None, c, top)
  PROVE  Count(z, U \cup {x}, F2, E2, None) = Count(z, U, F, E, None) - (F2[x] - E2[p] - 1)
<1>0. /\ x \in Node /\ x \notin U /\ p \in U /\ E2[x] = E[p]
      /\ \A n \in U : F2[n] = F[n] /\ (n # p => E2[n] = E[n])
  BY DEF Halved
<1> DEFINE V == U \cup {x}
<1>1. U \in SUBSET Node /\ V \in SUBSET Node /\ V \ {x} = U /\ x # p /\ x # None /\ p # None
  BY <1>0 DEF Chain, Node, None
<1>2. /\ F[p] \in Int /\ E[p] \in Int /\ F2[x] \in Int /\ E2[x] \in Int /\ E2[p] \in Int /\ F2[p] = F[p]
  BY <1>0, <1>1 DEF Functions
<1>3. Count(z, V, F2, E2, None) = Cardinality(Nums(z, U, F2, E2)) + E2[x] - F2[x] + 1
  <2>1. x \in V /\ Chain(V, F2, E2, nx2, h2, None, c, top)
    OBVIOUS
  <2> HIDE DEF V
  <2> QED BY <2>1, <1>1, CountApart
<1>4. Cardinality(Nums(z, U, F2, E2)) = Cardinality(Nums(z, U \ {p}, F2, E2)) + E2[p] - F2[p] + 1
  <2>1. \A n \in U : 0 <= F2[n] /\ F2[n] <= E2[n] /\ E2[n] < top /\ n = At(c, F2[n]) /\ F2[n] \in Int /\ E2[n] \in Int
    BY <1>1 DEF Chain, Placed, Functions
  <2>2. \A m, n \in U : F2[m] < F2[n] => E2[m] < F2[n]
    <3>1. Apart(V, F2, E2, None) /\ None \notin U
      BY <1>1 DEF Chain, Node, None
    <3> QED BY <3>1 DEF Apart
  <2>3. \A n \in U \ {p} : E2[n] < F2[p] \/ E2[p] < F2[n]
    <3>1. \A n \in U \ {p} : F2[n] < F2[p] \/ F2[p] < F2[n]
      BY <2>1, <1>0
    <3> QED BY <3>1, <2>2, <1>0
  <2>4. 0 <= F2[p] /\ F2[p] <= E2[p] + 1 /\ E2[p] <= Window
    BY <2>1, <1>0, Sizes
  <2>5. p \in U
    BY <1>0
  <2> QED BY <2>3, <2>4, <2>5, <1>1, CountOne
<1>5. Nums(z, U \ {p}, F2, E2) = Nums(z, U \ {p}, F, E)
  BY <1>0, NumsSame
<1>6. Count(z, U, F, E, None) = Cardinality(Nums(z, U \ {p}, F, E)) + E[p] - F[p] + 1
  BY <1>0, CountApart
<1>7. Cardinality(Nums(z, U \ {p}, F, E)) \in Nat
  BY NumsFinite
<1> QED
  BY <1>0, <1>2, <1>3, <1>4, <1>5, <1>6, <1>7

\* A range that moves on from n to x.
LEMMA CountAdvanced ==
  ASSUME NEW z \in SeqNumbers, NEW U, NEW F, NEW E, Functions(F, E), NEW nx, NEW h,
         NEW c \in Node, NEW top \in Nat, top <= Window, Chain(U, F, E, nx, h, None, c, top),
         NEW F2, NEW E2, Functions(F2, E2), NEW nx2, NEW h2, NEW n, NEW x,
         Advanced(U, F, E, nx, F2, E2, nx2, n, x),
         Chain((U \ {n}) \cup {x}, F2, E2, nx2, h2, None, c, top)
  PROVE  Count(z, (U \ {n}) \cup {x}, F2, E2, None) = Count(z, U, F, E, None) - (F2[x] - F[n])
<1>0. /\ n \in U /\ x \in Node /\ x \notin U /\ E2[x] = E[n]
      /\ \A m \in U \ {n} : F2[m] = F[m] /\ E2[m] = E[m]
  BY DEF Advanced
<1> USE <1>0
<1> DEFINE V == (U \ {n}) \cup {x}
<1>1. U \in SUBSET Node /\ V \in SUBSET Node /\ V \ {x} = U \ {n} /\ x \in V
  BY DEF Chain
<1>2. F[n] \in Int /\ E[n] \in Int /\ F2[x] \in Int /\ E2[x] \in Int
  BY <1>1 DEF Functions
<1>3. Count(z, V, F2, E2, None) = Cardinality(Nums(z, V \ {x}, F2, E2)) + E2[x] - F2[x] + 1
  <2>1. Chain(V, F2, E2, nx2, h2, None, c, top)
    OBVIOUS
  <2> HIDE DEF V
  <2> QED BY <2>1, <1>1, CountApart
<1>4. Nums(z, V \ {x}, F2, E2) = Nums(z, U \ {n}, F, E)
  <2>1. Nums(z, U \ {n}, F2, E2) = Nums(z, U \ {n}, F, E)
    BY NumsSame
  <2> QED BY <2>1, <1>1
<1>5. Count(z, U, F, E, None) = Cardinality(Nums(z, U \ {n}, F, E)) + E[n] - F[n] + 1
  BY CountApart
<1>6. Cardinality(Nums(z, U \ {n}, F, E)) \in Nat
  BY NumsFinite
<1> QED
  BY <1>2, <1>3, <1>4, <1>5, <1>6

\* Offsets counted from y.
LEMMA NumsRebased ==
  ASSUME NEW z \in SeqNumbers, NEW y \in SeqNumbers, NEW U \in SUBSET Node, NEW F, NEW E,
         Functions(F, E), NEW F2, NEW E2, Functions(F2, E2),
         \A n \in U : /\ Off(z, y) <= F[n] /\ E[n] <= Window
                      /\ F2[n] = F[n] - Off(z, y) /\ E2[n] = E[n] - Off(z, y)
  PROVE  Nums(y, U, F2, E2) = Nums(z, U, F, E)
<1>1. /\ \A s \in SeqNumbers : Off(z, s) \in Nat /\ Off(y, s) \in Nat
      /\ Off(z, y) \in Nat
  BY OffsetIs
<1>2. \A n \in U : F[n] \in Int /\ E[n] \in Int
  BY DEF Functions
<1>3. \A s \in SeqNumbers : Off(z, y) <= Off(z, s) => Off(y, s) = Off(z, s) - Off(z, y)
  BY Rebased
<1>4. \A s \in SeqNumbers : Off(z, y) + Off(y, s) <= Window => Off(z, s) = Off(z, y) + Off(y, s)
  BY Sizes DEF Off, SeqNumbers
<1>5. ASSUME NEW s \in SeqNumbers, NEW n \in U
      PROVE  F2[n] <= Off(y, s) /\ Off(y, s) <= E2[n] <=> F[n] <= Off(z, s) /\ Off(z, s) <= E[n]
  <2>1. F[n] \in Int /\ E[n] \in Int /\ Off(z, s) \in Nat /\ Off(y, s) \in Nat /\ Off(z, y) \in Nat /\ Window \in Nat
    BY <1>1, <1>2, Sizes
  <2>2. /\ Off(z, y) <= Off(z, s) => Off(y, s) = Off(z, s) - Off(z, y)
        /\ Off(z, y) + Off(y, s) <= Window => Off(z, s) = Off(z, y) + Off(y, s)
    BY <1>3, <1>4
  <2>3. /\ Off(z, y) <= F[n] /\ E[n] <= Window
        /\ F2[n] = F[n] - Off(z, y) /\ E2[n] = E[n] - Off(z, y)
    OBVIOUS
  <2> QED BY <2>1, <2>2, <2>3
<1> QED
  BY <1>5 DEF Nums
-------------------------------------------------------------------------------
(* The state *)

\* z, c, U, F, E and top say how the arrays are read now.
Reads(z, c, U, F, E, top) ==
    /\ z \in SeqNumbers /\ c \in Node
    /\ U = Used /\ F = Fst(z) /\ E = Lst(z) /\ top = Top(z)
    /\ ListOK(z, c, U, F, E)

\* The invariant gives a base z, the place c of its offset 0, and what the arrays hold.
LEMMA ReadsExist ==
  ASSUME LossListInv
  PROVE  \E z, c, U, F, E, top : Reads(z, c, U, F, E, top)
  BY DEF LossListInv, Reads

\* hi is ISN - 1, which may be -1, before the first packet.
LEMMA BehindLast ==
  ASSUME LossTypes
  PROVE  incseq(hi) \in SeqNumbers
  BY Sizes DEF LossTypes, incseq, SeqNumbers, Numbers, None

\* The types of what the arrays hold.
LEMMA Basics ==
  ASSUME LossTypes, NEW z, NEW c, NEW U, NEW F, NEW E, NEW top, Reads(z, c, U, F, E, top)
  PROVE  /\ z \in SeqNumbers /\ c \in Node
         /\ Functions(F, E)
         /\ top \in Nat /\ top <= Window /\ top <= m_iSize /\ top = Off(z, incseq(hi))
         /\ U \subseteq Node /\ None \notin U
         /\ Chain(U, F, E, m_piNext, First, Growing, c, top)
         /\ Off(z, lo) \in Nat /\ Off(z, lo) <= top
         /\ \A s \in SeqNumbers : Off(z, s) \in Nat
<1>1. z \in SeqNumbers /\ c \in Node /\ ListOK(z, c, U, F, E) /\ U \subseteq Node /\ None \notin U
  BY DEF Reads, Used, Node, None
<1>2. \A n \in Numbers : Off(z, n) \in Int
  BY <1>1, Sizes DEF Off, Numbers, SeqNumbers, None
<1>3. Functions(F, E)
  <2>1. \A n \in Node : m_piData1[n] \in Numbers /\ End(n) \in Numbers
    BY DEF LossTypes, End
  <2> QED BY <2>1, <1>2 DEF Functions, Reads, Fst, Lst
<1>4. top = Off(z, incseq(hi)) /\ top \in Nat
  BY <1>1, BehindLast, OffsetIs DEF Reads, Top
<1>5. top <= Window /\ Off(z, lo) <= top /\ Chain(U, F, E, m_piNext, First, Growing, c, top)
  BY <1>1 DEF Reads, ListOK
<1>6. Off(z, lo) \in Nat /\ \A s \in SeqNumbers : Off(z, s) \in Nat
  BY <1>1, OffsetIs DEF LossTypes
<1> QED
  BY <1>1, <1>3, <1>4, <1>5, <1>6, Sizes

\* A node in use.
LEMMA NodeIs ==
  ASSUME LossTypes, NEW z, NEW c, NEW U, NEW F, NEW E, NEW top, Reads(z, c, U, F, E, top),
         NEW n \in U
  PROVE  /\ n \in Node /\ n = At(c, F[n])
         /\ m_piData1[n] \in SeqNumbers /\ End(n) \in SeqNumbers
         /\ F[n] = Off(z, m_piData1[n]) /\ E[n] = Off(z, End(n))
         /\ F[n] \in Nat /\ E[n] \in Nat /\ F[n] <= E[n] /\ E[n] < top
         /\ m_piData2[n] # None => F[n] < E[n] /\ End(n) = m_piData2[n] /\ m_piData2[n] \in SeqNumbers
         /\ m_piData2[n] = None => E[n] = F[n] /\ End(n) = m_piData1[n]
<1>1. n \in Node /\ n \in Used /\ U = Used /\ F = Fst(z) /\ E = Lst(z) /\ z \in SeqNumbers
  BY DEF Reads, Used
<1>2. m_piData1[n] \in SeqNumbers /\ End(n) \in SeqNumbers
  BY <1>1 DEF Used, End, LossTypes, Numbers
<1>3. F[n] = Off(z, m_piData1[n]) /\ E[n] = Off(z, End(n))
  BY <1>1 DEF Fst, Lst
<1>4. 0 <= F[n] /\ F[n] <= E[n] /\ E[n] < top /\ n = At(c, F[n])
  <2>1. Chain(U, F, E, m_piNext, First, Growing, c, top)
    BY Basics
  <2> QED BY <2>1 DEF Chain, Placed
<1>5. F[n] \in Nat /\ E[n] \in Nat
  BY <1>1, <1>2, <1>3, OffsetIs
<1>6. m_piData2[n] # None => F[n] < E[n]
  BY DEF Reads, ListOK, Written
<1>7. /\ m_piData2[n] # None => End(n) = m_piData2[n]
      /\ m_piData2[n] = None => End(n) = m_piData1[n]
  BY DEF End
<1> QED
  BY <1>1, <1>2, <1>3, <1>4, <1>5, <1>6, <1>7

\* The list is empty exactly if its length is 0.
LEMMA EmptyList ==
  ASSUME LossTypes, NEW z, NEW c, NEW U, NEW F, NEW E, NEW top, Reads(z, c, U, F, E, top),
         pc # "coalesce"
  PROVE  /\ m_iLength = Cardinality(Nums(z, U, F, E)) /\ m_iLength \in Nat
         /\ m_iLength = 0 <=> U = {}
         /\ m_iLength > 0 <=> U # {}
<1>1. z \in SeqNumbers /\ U \in SUBSET Node
  BY Basics
<1>2. Growing = None
  BY DEF Growing
<1>3. m_iLength = Count(z, U, F, E, None)
  BY <1>2 DEF Reads, ListOK
<1>4. m_iLength = Cardinality(Nums(z, U, F, E)) /\ m_iLength \in Nat
  BY <1>1, <1>3, CountWhole, NumsFinite
<1>5. U = {} => Nums(z, U, F, E) = {}
  BY DEF Nums
<1>6. ASSUME NEW n \in U PROVE m_piData1[n] \in Nums(z, U, F, E)
  BY NodeIs DEF Nums
<1>7. Nums(z, U, F, E) = {} <=> U = {}
  BY <1>5, <1>6
<1> QED
  BY <1>4, <1>7, NumsFinite, FS_EmptySet

\* The head of a list that is not being cleared.
LEMMA HeadIs ==
  ASSUME LossTypes, NEW z, NEW c, NEW U, NEW F, NEW E, NEW top, Reads(z, c, U, F, E, top),
         pc # "clear"
  PROVE  /\ First = m_iHead
         /\ U = {} => m_iHead = None
         /\ U # {} => m_iHead \in U /\ \A n \in U : F[m_iHead] <= F[n]
<1>1. First = m_iHead
  BY DEF First
<1>2. Begins(U, F, First)
  BY Basics DEF Chain
<1> QED
  BY <1>1, <1>2 DEF Begins

\* The place of a number, and whether its range begins there.
LEMMA PlaceIs ==
  ASSUME LossTypes, NEW z, NEW c, NEW U, NEW F, NEW E, NEW top, Reads(z, c, U, F, E, top),
         pc # "clear", U # {}, NEW s \in SeqNumbers, Off(z, s) < Window
  PROVE  /\ Place(s) = At(c, Off(z, s)) /\ Place(s) \in Node
         /\ seqoff(m_piData1[m_iHead], s) = Off(z, s) - F[m_iHead]
         /\ m_piData1[Place(s)] = s => Place(s) \in U /\ F[Place(s)] = Off(z, s)
         /\ m_piData1[Place(s)] # s => Place(s) \notin U /\ \A n \in U : F[n] # Off(z, s)
<1>1. /\ m_iHead \in U /\ m_piData1[m_iHead] \in SeqNumbers /\ F[m_iHead] \in Nat
      /\ F[m_iHead] = Off(z, m_piData1[m_iHead]) /\ m_iHead = At(c, F[m_iHead])
      /\ F[m_iHead] < top
  <2>1. m_iHead \in U
    BY HeadIs
  <2>2. PICK h \in U : h = m_iHead
    BY <2>1
  <2>3. /\ m_piData1[h] \in SeqNumbers /\ F[h] \in Nat
        /\ F[h] = Off(z, m_piData1[h]) /\ h = At(c, F[h]) /\ F[h] <= E[h] /\ E[h] < top /\ E[h] \in Nat
    BY NodeIs
  <2>4. F[h] < top
    BY <2>3, Basics
  <2> QED BY <2>2, <2>3, <2>4
<1>2. /\ z \in SeqNumbers /\ c \in Node /\ Off(z, s) \in Nat /\ Functions(F, E)
      /\ top \in Nat /\ top <= Window /\ top <= m_iSize /\ U \subseteq Node /\ U = Used
      /\ Chain(U, F, E, m_piNext, First, Growing, c, top)
  BY Basics DEF Reads
<1>3. /\ Window <= m_iSize /\ Window \in Nat /\ m_iSize \in Nat
  BY Sizes
<1>4. seqoff(m_piData1[m_iHead], s) = Off(z, s) - F[m_iHead]
  BY <1>1, <1>2, <1>3, Compared
<1>5. Place(s) = At(c, Off(z, s))
  <2>1. Place(s) = (At(c, F[m_iHead]) + (Off(z, s) - F[m_iHead]) + m_iSize) % m_iSize
    BY <1>1, <1>4 DEF Place
  <2>2. F[m_iHead] < m_iSize /\ Off(z, s) < m_iSize
    BY <1>1, <1>2, <1>3
  <2> QED BY <2>1, <2>2, <1>1, <1>2, PlaceOff
<1>6. Place(s) \in Node
  BY <1>2, <1>3, <1>5, PlaceAt
<1>7. m_piData1[Place(s)] = s => Place(s) \in U /\ F[Place(s)] = Off(z, s)
  <2>1. s # None
    BY DEF SeqNumbers, None
  <2>2. m_piData1[Place(s)] = s => Place(s) \in U
    BY <2>1, <1>2, <1>6 DEF Used
  <2> QED BY <2>2, NodeIs
<1>8. ASSUME m_piData1[Place(s)] # s
      PROVE  Place(s) \notin U /\ \A n \in U : F[n] # Off(z, s)
  <2>1. ASSUME NEW n \in U, F[n] = Off(z, s) PROVE FALSE
    <3>1. n = At(c, F[n]) /\ m_piData1[n] \in SeqNumbers /\ F[n] = Off(z, m_piData1[n])
      BY NodeIs
    <3>2. n = Place(s)
      BY <3>1, <2>1, <1>5
    <3>3. m_piData1[n] = s
      BY <3>1, <2>1, <1>2, SameOffset
    <3> QED BY <3>2, <3>3, <1>8
  <2>2. Off(z, s) < m_iSize
    BY <1>2, <1>3
  <2>3. At(c, Off(z, s)) \notin U
    BY <2>1, <2>2, <1>2, FreePlace
  <2> QED BY <2>1, <2>3, <1>5
<1> QED
  BY <1>4, <1>5, <1>6, <1>7, <1>8

\* The node after the place of a number.
LEMMA PlaceBehind ==
  ASSUME LossTypes, NEW z, NEW c, NEW U, NEW F, NEW E, NEW top, Reads(z, c, U, F, E, top),
         NEW o \in Nat, o + 1 < top
  PROVE  After(At(c, o)) = At(c, o + 1) /\ At(c, o + 1) \in Node
<1>1. c \in Node /\ o < m_iSize /\ o + 1 < m_iSize /\ o + 1 \in Nat
  BY Basics, Sizes
<1> QED
  BY <1>1, PlaceAfter, PlaceAt

\* What is outstanding.
LEMMA OutstandingIs ==
  ASSUME LossTypes, NEW z, NEW c, NEW U, NEW F, NEW E, NEW top, Reads(z, c, U, F, E, top),
         z = lo, NEW s
  PROVE  s \in Outstanding <=> s \in SeqNumbers /\ Off(z, s) < top
<1>1. /\ z \in SeqNumbers /\ lo \in SeqNumbers /\ hi \in Numbers /\ incseq(hi) \in SeqNumbers
      /\ (hi = None => lo = 0)
      /\ top = Off(z, incseq(hi)) /\ top <= Window /\ top \in Nat /\ Off(z, z) = 0
      /\ Window \in Nat /\ \A t \in SeqNumbers : Off(z, t) \in Nat
  BY Basics, BehindLast, Sizes DEF LossTypes, Off, SeqNumbers
<1>2. CASE top = 0
  <2>1. incseq(hi) = z
    BY <1>1, <1>2, SameOffset
  <2>2. hi = z - 1 \/ (hi = m_iMaxSeqNo /\ z = 0)
    BY <2>1, <1>1, Sizes DEF incseq, SeqNumbers, Numbers, None
  <2>3. seqcmp(lo, hi) > 0
    BY <2>2, <1>1, Sizes DEF seqcmp, abs, SeqNumbers
  <2>4. Outstanding = {}
    BY <2>3 DEF Outstanding, SeqRange
  <2> QED BY <2>4, <1>1, <1>2
<1>3. CASE top > 0
  <2>1. hi \in SeqNumbers /\ Off(z, hi) = top - 1
    BY <1>1, <1>3, Sizes DEF incseq, SeqNumbers, Numbers, None, Off
  <2>2. Outstanding = Between(z, 0, top - 1)
    BY <2>1, <1>1, RangeBetween DEF Outstanding
  <2> QED BY <2>2, <1>1 DEF Between
<1> QED
  BY <1>1, <1>2, <1>3

\* What is in data2 of a new range.
LEMMA SecondIs ==
  ASSUME LossTypes, NEW z \in SeqNumbers, NEW a \in SeqNumbers, NEW b \in SeqNumbers,
         Off(z, a) <= Off(z, b), Off(z, b) <= Window, NEW x \in Node, m_piData2[x] = None
  PROVE  /\ Second(x, a, b) \in Numbers
         /\ Second(x, a, b) = None => a = b
         /\ Second(x, a, b) # None => Second(x, a, b) = b /\ Off(z, a) < Off(z, b)
<1>1. /\ Off(z, a) \in Nat /\ Off(z, b) \in Nat /\ Window \in Nat /\ b # None
  BY OffsetIs, Sizes DEF SeqNumbers, None
<1>2. seqcmp(b, a) > 0 <=> Off(z, a) < Off(z, b)
  BY <1>1, Compared
<1>3. ~(Off(z, a) < Off(z, b)) => a = b
  BY <1>1, SameOffset
<1> QED
  BY <1>1, <1>2, <1>3 DEF Second, Numbers
-------------------------------------------------------------------------------
(* After a step, with d1 and d2 in the arrays. *)

UsedOf(d1) == {n \in Node : d1[n] # None}
FirstsOf(z, d1) == [n \in Node |-> Off(z, d1[n])]
EndOf(d1, d2, n) == IF d2[n] = None THEN d1[n] ELSE d2[n]
LastsOf(z, d1, d2) == [n \in Node |-> Off(z, EndOf(d1, d2, n))]

\* The ranges that arrays d1 and d2 stand for.
LEMMA ReadingIs ==
  ASSUME NEW z \in SeqNumbers, NEW d1 \in [Node -> Numbers], NEW d2 \in [Node -> Numbers]
  PROVE  /\ Functions(FirstsOf(z, d1), LastsOf(z, d1, d2))
         /\ UsedOf(d1) \in SUBSET Node
         /\ \A n \in Node : /\ n \in UsedOf(d1) <=> d1[n] # None
                            /\ FirstsOf(z, d1)[n] = Off(z, d1[n])
                            /\ LastsOf(z, d1, d2)[n] = Off(z, EndOf(d1, d2, n))
<1>1. \A n \in Numbers : Off(z, n) \in Int
  BY Sizes DEF Off, Numbers, SeqNumbers, None
<1> QED
  BY <1>1 DEF Functions, FirstsOf, LastsOf, UsedOf, EndOf

\* The ranges that the arrays stand for now.
LEMMA ReadingNow ==
  ASSUME NEW z
  PROVE  /\ Used = UsedOf(m_piData1)
         /\ Fst(z) = FirstsOf(z, m_piData1) /\ Lst(z) = LastsOf(z, m_piData1, m_piData2)
         /\ Used' = UsedOf(m_piData1')
         /\ Fst(z)' = FirstsOf(z, m_piData1') /\ Lst(z)' = LastsOf(z, m_piData1', m_piData2')
         /\ Top(z)' = Off(z, incseq(hi'))
  BY DEF Used, UsedOf, Fst, FirstsOf, Lst, LastsOf, End, EndOf, Top

-------------------------------------------------------------------------------
(* CSndLossList::insert() *)

InsertStep(z, a, b) ==
    /\ side = "snd" /\ pc = "idle" /\ UNCHANGED <<side, lo, hi>>
    /\ a \in SeqNumbers /\ b \in SeqNumbers
    /\ Off(z, a) <= Off(z, b) /\ Off(z, b) < Top(z)
    /\ losses' = losses \cup Between(z, Off(z, a), Off(z, b))

\* What an insertion of the sender's list begins with.
LEMMA InsertStarts ==
  ASSUME LossTypes, NEW z, NEW c, NEW U, NEW F, NEW E, NEW top, Reads(z, c, U, F, E, top),
         NEW a, NEW b, InsertStep(z, a, b)
  PROVE  /\ a \in SeqNumbers /\ b \in SeqNumbers
         /\ Off(z, a) \in Nat /\ Off(z, b) \in Nat /\ Off(z, a) <= Off(z, b) /\ Off(z, b) < top
         /\ Off(z, a) < Window /\ Off(z, b) < Window /\ Window \in Nat
         /\ seqlen(a, b) = Off(z, b) - Off(z, a) + 1
         /\ z = lo /\ losses = Nums(z, U, F, E)
         /\ Growing = None /\ First = m_iHead
         /\ m_iLength = Count(z, U, F, E, None)
<1>1. a \in SeqNumbers /\ b \in SeqNumbers /\ Off(z, a) <= Off(z, b) /\ Off(z, b) < top
  BY DEF InsertStep, Reads
<1>2. /\ Off(z, a) \in Nat /\ Off(z, b) \in Nat /\ top <= Window /\ Window \in Nat /\ z \in SeqNumbers
      /\ top \in Nat
  BY <1>1, Basics, Sizes
<1>3. z = lo /\ losses = Nums(z, U, F, E)
  BY DEF InsertStep, Reads, ListOK, CallOK, Idle
<1>4. Growing = None /\ First = m_iHead /\ m_iLength = Count(z, U, F, E, None)
  BY DEF InsertStep, Reads, ListOK, Growing, First
<1>5. seqlen(a, b) = Off(z, b) - Off(z, a) + 1
  BY <1>1, <1>2, Length
<1> QED
  BY <1>1, <1>2, <1>3, <1>4, <1>5

\* A range from a to b is written at a node that was not in use.
NewWritten(x, a, b) ==
    /\ m_piData1' = [m_piData1 EXCEPT ![x] = a]
    /\ m_piData2' = [m_piData2 EXCEPT ![x] = Second(x, a, b)]

\* The ranges when that of the new node is written and all others stay.
LEMMA RangeWritten ==
  ASSUME LossTypes, NEW z, NEW c, NEW U, NEW F, NEW E, NEW top, Reads(z, c, U, F, E, top),
         NEW a \in SeqNumbers, NEW b \in SeqNumbers, Off(z, a) <= Off(z, b), Off(z, b) <= Window,
         NEW x \in Node, x \notin U, NewWritten(x, a, b)
  PROVE  /\ m_piData1' \in [Node -> Numbers] /\ m_piData2' \in [Node -> Numbers]
         /\ Used' = U \cup {x}
         /\ Functions(Fst(z)', Lst(z)')
         /\ Fst(z)'[x] = Off(z, a) /\ Lst(z)'[x] = Off(z, b)
         /\ \A n \in U : Fst(z)'[n] = F[n] /\ Lst(z)'[n] = E[n]
         /\ Written(Used, Fst(z), Lst(z))'
<1>1. /\ z \in SeqNumbers /\ U \in SUBSET Node
      /\ F = FirstsOf(z, m_piData1) /\ E = LastsOf(z, m_piData1, m_piData2) /\ U = UsedOf(m_piData1)
      /\ Written(U, F, E)
  BY Basics, ReadingNow DEF Reads, ListOK
<1>2. m_piData1 \in [Node -> Numbers] /\ m_piData2 \in [Node -> Numbers]
  BY DEF LossTypes
<1>3. m_piData2[x] = None
  BY <1>1 DEF Written
<1>4. PICK e : e = Second(x, a, b)
  OBVIOUS
<1>5. e \in Numbers /\ (e = None => a = b) /\ (e # None => e = b /\ Off(z, a) < Off(z, b))
  BY <1>1, <1>3, <1>4, SecondIs
<1>6. PICK d1, d2, U2, F2, E2 :
        /\ d1 = m_piData1' /\ d2 = m_piData2'
        /\ U2 = UsedOf(d1) /\ F2 = FirstsOf(z, d1) /\ E2 = LastsOf(z, d1, d2)
  OBVIOUS
<1>7. /\ d1 \in [Node -> Numbers] /\ d2 \in [Node -> Numbers] /\ d1[x] = a /\ d2[x] = e
      /\ \A n \in Node : n # x => d1[n] = m_piData1[n] /\ d2[n] = m_piData2[n]
  BY <1>2, <1>4, <1>5, <1>6 DEF Numbers, NewWritten
<1>8. Functions(F2, E2)
  BY <1>1, <1>6, <1>7, ReadingIs
<1>9. a # None
  BY DEF SeqNumbers, None
<1>10. U2 = U \cup {x}
  BY <1>1, <1>6, <1>7, <1>9 DEF UsedOf
<1>11. F2[x] = Off(z, a) /\ E2[x] = Off(z, b)
  BY <1>5, <1>6, <1>7 DEF FirstsOf, LastsOf, EndOf
<1>12. \A n \in U : F2[n] = F[n] /\ E2[n] = E[n]
  BY <1>1, <1>6, <1>7 DEF FirstsOf, LastsOf, EndOf
<1>13. U2 = Used' /\ F2 = Fst(z)' /\ E2 = Lst(z)'
  BY <1>6, ReadingNow
<1>14. Written(Used, Fst(z), Lst(z))'
  <2>1. \A n \in Node \ U2 : d2[n] = None
    BY <1>1, <1>7, <1>10 DEF Written
  <2>2. \A n \in U2 : d2[n] # None => F2[n] < E2[n]
    BY <1>1, <1>5, <1>7, <1>10, <1>11, <1>12 DEF Written
  <2> QED BY <2>1, <2>2, <1>6, <1>13 DEF Written
<1> QED
  BY <1>6, <1>7, <1>8, <1>10, <1>11, <1>12, <1>13, <1>14

\* The first range of an empty list.
LEMMA InsertFirstOK ==
  ASSUME LossTypes, NEW z, NEW c, NEW U, NEW F, NEW E, NEW top, Reads(z, c, U, F, E, top),
         NEW a, NEW b, InsertStep(z, a, b), InsertFirst(a, b)
  PROVE  LossListInv'
<1> DEFINE oa == Off(z, a)
           ob == Off(z, b)
<1>1. /\ z \in SeqNumbers /\ U \in SUBSET Node /\ top \in Nat /\ top <= Window /\ top <= m_iSize
      /\ top = Top(z) /\ Off(z, lo) <= top
  BY Basics DEF Reads
<1>2. /\ a \in SeqNumbers /\ b \in SeqNumbers /\ oa \in Nat /\ ob \in Nat /\ oa <= ob /\ ob < top
      /\ seqlen(a, b) = ob - oa + 1 /\ z = lo /\ losses = Nums(z, U, F, E)
      /\ m_iLength = Count(z, U, F, E, None) /\ ob <= Window
  BY InsertStarts
<1>3. U = {}
  BY EmptyList DEF InsertFirst, InsertStep
<1>4. PICK x \in Node : x = 0
  BY Sizes DEF Node
<1>5. PICK c2 \in Node : At(c2, oa) = x
  <2>1. CASE oa = 0
    BY <2>1, <1>4, Sizes DEF At, Node
  <2>2. CASE oa > 0
    <3>1. m_iSize - oa \in Node /\ At(m_iSize - oa, oa) = x
      BY <2>2, <1>1, <1>2, <1>4, Sizes DEF At, Node
    <3> QED BY <3>1
  <2> QED BY <2>1, <2>2, <1>2
<1>6. PICK U2, F2, E2, nx : U2 = Used' /\ F2 = Fst(z)' /\ E2 = Lst(z)' /\ nx = m_piNext'
  OBVIOUS
<1>7. /\ m_piData1' \in [Node -> Numbers] /\ m_piData2' \in [Node -> Numbers]
      /\ U2 = {x} /\ Functions(F2, E2) /\ F2[x] = oa /\ E2[x] = ob
      /\ Written(Used, Fst(z), Lst(z))'
  <2>1. NewWritten(x, a, b)
    BY <1>4 DEF NewWritten, InsertFirst, NewRange
  <2>2. /\ m_piData1' \in [Node -> Numbers] /\ m_piData2' \in [Node -> Numbers]
        /\ Used' = U \cup {x} /\ Functions(Fst(z)', Lst(z)')
        /\ Fst(z)'[x] = Off(z, a) /\ Lst(z)'[x] = Off(z, b)
        /\ Written(Used, Fst(z), Lst(z))'
    BY <2>1, <1>2, <1>3, RangeWritten
  <2> QED BY <2>2, <1>3, <1>6
<1>8. nx \in [Node -> Nodes \cup {Unset}] /\ nx[x] = None
  BY <1>4, <1>6 DEF LossTypes, InsertFirst, Nodes
<1>9. Chain({x}, F2, E2, nx, x, None, c2, top)
  BY <1>1, <1>2, <1>5, <1>7, <1>8, ChainFirst
<1>10. ob - oa + 1 = Count(z, {x}, F2, E2, None)
  <2>1. Nums(z, {}, F2, E2) = {}
    BY DEF Nums
  <2>2. Count(z, {x}, F2, E2, None) = Cardinality(Nums(z, {x} \ {x}, F2, E2)) + E2[x] - F2[x] + 1
    <3>1. PICK V : V = {x}
      OBVIOUS
    <3>2. x \in V /\ Functions(F2, E2) /\ Chain(V, F2, E2, nx, x, None, c2, top)
      BY <3>1, <1>7, <1>9
    <3>3. Count(z, V, F2, E2, None) = Cardinality(Nums(z, V \ {x}, F2, E2)) + E2[x] - F2[x] + 1
      BY <3>2, <1>1, CountApart
    <3> QED BY <3>1, <3>3
  <2>3. Cardinality(Nums(z, {x} \ {x}, F2, E2)) = 0
    BY <2>1, FS_EmptySet
  <2> QED BY <2>2, <2>3, <1>2, <1>7
<1>11. m_iLength' = ob - oa + 1
  <2>1. m_iLength = 0
    BY DEF InsertFirst
  <2> QED BY <2>1, <1>2 DEF InsertFirst, NewRange
<1>12. losses' = Nums(z, {x}, F2, E2)
  <2>1. losses = {}
    BY <1>2, <1>3 DEF Nums
  <2>2. Nums(z, {x}, F2, E2) = Between(z, oa, ob)
    BY <1>7 DEF Nums, Between
  <2> QED BY <2>1, <2>2 DEF InsertStep
<1>13. LossTypes'
  BY <1>2, <1>4, <1>6, <1>7, <1>8, <1>11, <1>12
     DEF LossTypes, InsertFirst, NewRange, InsertStep, Over, Loop, Nodes, Numbers, Nums
<1>14. /\ pc' = "idle" /\ m_iHead' = x /\ side' = "snd" /\ lo' = lo /\ m_iLastInsertPos' = x
       /\ Top(z)' = top
  BY <1>1, <1>4 DEF InsertFirst, NewRange, Over, Loop, InsertStep, Top
<1>15. ListOK(z, c2, Used, Fst(z), Lst(z))'
  <2>1. CallOK(z, c2, Used, Fst(z), Lst(z))'
    BY <1>2, <1>6, <1>7, <1>12, <1>14 DEF CallOK, Idle
  <2> QED
    BY <2>1, <1>1, <1>6, <1>7, <1>9, <1>10, <1>11, <1>14 DEF ListOK, First, Growing
<1> QED
  BY <1>1, <1>5, <1>13, <1>15 DEF LossListInv

\* The new range becomes the head, and is going to grow.
LEMMA InsertBeforeOK ==
  ASSUME LossTypes, NEW z, NEW c, NEW U, NEW F, NEW E, NEW top, Reads(z, c, U, F, E, top),
         NEW a, NEW b, InsertStep(z, a, b), InsertBefore(a, b)
  PROVE  LossListInv'
<1> DEFINE oa == Off(z, a)
           ob == Off(z, b)
<1>1. /\ z \in SeqNumbers /\ c \in Node /\ U \in SUBSET Node /\ None \notin U
      /\ top \in Nat /\ top <= Window /\ top <= m_iSize
      /\ top = Top(z) /\ Off(z, lo) <= top /\ Functions(F, E)
      /\ Chain(U, F, E, m_piNext, First, Growing, c, top)
  BY Basics DEF Reads
<1>2. /\ a \in SeqNumbers /\ b \in SeqNumbers /\ oa \in Nat /\ ob \in Nat /\ oa <= ob /\ ob < top
      /\ seqlen(a, b) = ob - oa + 1 /\ z = lo /\ losses = Nums(z, U, F, E)
      /\ m_iLength = Count(z, U, F, E, None) /\ ob <= Window /\ oa < Window
      /\ Growing = None /\ First = m_iHead
  BY InsertStarts
<1>3. U # {} /\ pc # "clear" /\ pc # "coalesce" /\ m_iLength \in Nat
  BY EmptyList DEF InsertBefore, InsertStep
<1>4. PICK h \in U : h = m_iHead /\ \A n \in U : F[h] <= F[n]
  BY <1>3, HeadIs
<1>5. /\ Place(a) = At(c, oa) /\ Place(a) \in Node
      /\ seqoff(m_piData1[m_iHead], a) = oa - F[m_iHead]
  BY <1>2, <1>3, PlaceIs
<1>6. F[h] \in Nat /\ oa < F[h] /\ \A n \in U : F[n] \in Nat /\ F[n] # oa
  <2>1. \A n \in U : F[n] \in Nat
    BY NodeIs
  <2>2. oa - F[h] < 0
    BY <1>4, <1>5 DEF InsertBefore
  <2> QED BY <2>1, <2>2, <1>2, <1>4
<1>7. PICK x \in Node : x = Place(a) /\ x = At(c, oa) /\ x \notin U
  <2>1. oa < m_iSize
    BY <1>1, <1>2, Sizes
  <2>2. At(c, oa) \notin U
    BY <2>1, <1>1, <1>2, <1>6, FreePlace
  <2> QED BY <2>2, <1>5
<1>8. PICK U2, F2, E2, nx, nx2 :
        U2 = Used' /\ F2 = Fst(z)' /\ E2 = Lst(z)' /\ nx = m_piNext /\ nx2 = m_piNext'
  OBVIOUS
<1>9. /\ m_piData1' \in [Node -> Numbers] /\ m_piData2' \in [Node -> Numbers]
      /\ U2 = U \cup {x} /\ Functions(F2, E2) /\ F2[x] = oa /\ E2[x] = ob
      /\ \A n \in U : F2[n] = F[n] /\ E2[n] = E[n]
      /\ Written(Used, Fst(z), Lst(z))'
  <2>1. NewWritten(x, a, b)
    BY <1>7 DEF NewWritten, InsertBefore, NewRange
  <2>2. /\ m_piData1' \in [Node -> Numbers] /\ m_piData2' \in [Node -> Numbers]
        /\ Used' = U \cup {x} /\ Functions(Fst(z)', Lst(z)')
        /\ Fst(z)'[x] = Off(z, a) /\ Lst(z)'[x] = Off(z, b)
        /\ \A n \in U : Fst(z)'[n] = F[n] /\ Lst(z)'[n] = E[n]
        /\ Written(Used, Fst(z), Lst(z))'
    BY <2>1, <1>2, <1>7, RangeWritten
  <2> QED BY <2>2, <1>8
<1>10. /\ nx2 \in [Node -> Nodes \cup {Unset}] /\ nx2[x] = h
       /\ \A n \in U : nx2[n] = nx[n]
  BY <1>1, <1>4, <1>7, <1>8 DEF LossTypes, InsertBefore, Nodes
<1>11. Chain(U2, F2, E2, nx2, x, x, c, top)
  <2>1. Chain(U, F, E, nx, h, None, c, top)
    BY <1>1, <1>2, <1>4, <1>8
  <2>2. Chain(U \cup {x}, F2, E2, nx2, x, x, c, top)
    BY <2>1, <1>1, <1>2, <1>4, <1>6, <1>7, <1>9, <1>10, ChainBefore
  <2> QED BY <2>2, <1>9
<1>12. m_iLength' = Count(z, U2, F2, E2, x)
  <2>1. Count(z, U \cup {x}, F2, E2, x) = Count(z, U, F, E, None) + E2[x] - F2[x] + 1
    BY <1>1, <1>7, <1>9, CountNew
  <2>2. m_iLength' = m_iLength + (ob - oa + 1)
    BY <1>2 DEF InsertBefore, NewRange
  <2> QED BY <2>1, <2>2, <1>2, <1>3, <1>9
<1>13. losses' = Nums(z, U2, F2, E2)
  <2>1. Nums(z, U2, F2, E2) = Nums(z, U, F, E) \cup Between(z, oa, ob)
    BY <1>9 DEF Nums, Between
  <2> QED BY <2>1, <1>2 DEF InsertStep
<1>14. m_iLength' \in Int
  BY <1>2, <1>3 DEF InsertBefore, NewRange
<1>15. LossTypes'
  BY <1>7, <1>8, <1>9, <1>10, <1>13, <1>14
     DEF LossTypes, InsertBefore, NewRange, InsertStep, Loop, Nodes, Numbers, Nums
<1>16. /\ pc' = "coalesce" /\ i' = x /\ m_iHead' = x /\ side' = "snd" /\ lo' = lo
       /\ m_iLastInsertPos' = x /\ Top(z)' = top
  BY <1>1, <1>7 DEF InsertBefore, NewRange, Loop, InsertStep, Top
<1>17. ListOK(z, c, Used, Fst(z), Lst(z))'
  <2>1. CallOK(z, c, Used, Fst(z), Lst(z))'
    BY <1>2, <1>8, <1>9, <1>13, <1>16 DEF CallOK, Idle, Coalescing
  <2> QED
    BY <2>1, <1>1, <1>8, <1>9, <1>11, <1>12, <1>16 DEF ListOK, First, Growing
<1> QED
  BY <1>1, <1>15, <1>17 DEF LossListInv
\* The data of the arrays stay as they are.
LEMMA ArraysKept ==
  ASSUME LossTypes, NEW z, NEW c, NEW U, NEW F, NEW E, NEW top, Reads(z, c, U, F, E, top),
         UNCHANGED <<m_piData1, m_piData2>>
  PROVE  /\ Used' = U /\ Fst(z)' = F /\ Lst(z)' = E
         /\ Written(Used, Fst(z), Lst(z))'
<1>1. /\ U = UsedOf(m_piData1) /\ F = FirstsOf(z, m_piData1) /\ E = LastsOf(z, m_piData1, m_piData2)
      /\ Written(U, F, E)
  BY ReadingNow DEF Reads, ListOK
<1>2. Used' = U /\ Fst(z)' = F /\ Lst(z)' = E
  BY <1>1, ReadingNow
<1>3. Written(U, F, E)'
  BY <1>1 DEF Written
<1> QED
  BY <1>2, <1>3 DEF Written

\* The range at n holds the offset oa of the first number, and is made to hold those up to b.
LEMMA ExtendOK ==
  ASSUME LossTypes, NEW z, NEW c, NEW U, NEW F, NEW E, NEW top, Reads(z, c, U, F, E, top),
         side = "snd", pc \in {"idle", "search"}, z = lo, UNCHANGED <<side, lo, hi>>,
         NEW b \in SeqNumbers, Off(z, b) < top, NEW oa \in Nat, oa <= Off(z, b),
         NEW n \in U, F[n] <= oa, oa <= E[n],
         losses' = Nums(z, U, F, E) \cup Between(z, oa, Off(z, b)),
         Extend(n, b)
  PROVE  LossListInv'
<1> DEFINE ob == Off(z, b)
<1>1. /\ z \in SeqNumbers /\ c \in Node /\ U \in SUBSET Node /\ None \notin U
      /\ top \in Nat /\ top <= Window /\ top <= m_iSize
      /\ top = Top(z) /\ Off(z, lo) <= top /\ Functions(F, E)
      /\ Chain(U, F, E, m_piNext, First, Growing, c, top)
      /\ ob \in Nat /\ ob <= Window
  BY Basics, Sizes DEF Reads
<1>2. /\ Growing = None /\ First = m_iHead /\ pc # "clear" /\ pc # "coalesce"
      /\ m_iLength = Count(z, U, F, E, None) /\ m_iLength \in Nat
  <2>1. Growing = None /\ First = m_iHead /\ pc # "clear" /\ pc # "coalesce"
    BY DEF Growing, First
  <2> QED BY <2>1, EmptyList DEF Reads, ListOK
<1>3. /\ n \in Node /\ End(n) \in SeqNumbers /\ E[n] = Off(z, End(n)) /\ F[n] \in Nat /\ E[n] \in Nat
      /\ E[n] < top
  BY NodeIs
<1>4. seqcmp(b, End(n)) > 0 <=> E[n] < ob
  <2>1. Off(z, End(n)) <= Window
    BY <1>1, <1>3, Sizes
  <2> QED BY <2>1, <1>1, <1>3, Compared
<1>5. UNCHANGED <<m_piData1, m_piNext, m_piPrior, m_iHead, m_iTail>> /\ m_iLastInsertPos' = n
  BY DEF Extend
<1>6. CASE E[n] < ob
  <2>1. /\ m_iLength' = m_iLength + seqlen(End(n), b) - 1
        /\ m_piData2' = [m_piData2 EXCEPT ![n] = b]
        /\ pc' = "coalesce" /\ i' = n /\ seqno1' = None /\ seqno2' = None
    BY <1>4, <1>6 DEF Extend, Loop
  <2>2. seqlen(End(n), b) = ob - E[n] + 1
    BY <1>1, <1>3, <1>6, Length
  <2>3. PICK d1, d2, E2, nx :
          /\ d1 = m_piData1' /\ d2 = m_piData2' /\ E2 = LastsOf(z, d1, d2) /\ nx = m_piNext
    OBVIOUS
  <2>4. /\ U = UsedOf(m_piData1) /\ F = FirstsOf(z, m_piData1) /\ E = LastsOf(z, m_piData1, m_piData2)
        /\ Written(U, F, E)
    BY ReadingNow DEF Reads, ListOK
  <2>5. /\ d1 \in [Node -> Numbers] /\ d2 \in [Node -> Numbers] /\ d2[n] = b /\ b # None
        /\ \A m \in Node : d1[m] = m_piData1[m] /\ (m # n => d2[m] = m_piData2[m])
        /\ d1 = m_piData1
    BY <2>1, <2>3, <1>3, <1>5 DEF LossTypes, Numbers, SeqNumbers, None
  <2>6. Functions(F, E2)
    <3>1. Functions(FirstsOf(z, d1), LastsOf(z, d1, d2))
      BY <2>5, <1>1, ReadingIs
    <3> QED BY <3>1, <2>3, <2>4, <2>5
  <2>7. E2[n] = ob /\ \A m \in U : m # n => E2[m] = E[m]
    BY <2>3, <2>4, <2>5, <1>1, <1>3 DEF LastsOf, EndOf
  <2>8. Used' = U /\ Fst(z)' = F /\ Lst(z)' = E2
    BY <2>3, <2>4, <2>5, ReadingNow
  <2>9. Chain(U, F, E, nx, m_iHead, None, c, top)
    BY <1>1, <1>2, <2>3
  <2>10. PICK h : h = m_iHead
    OBVIOUS
  <2>11. Chain(U, F, E2, nx, h, n, c, top)
    BY <2>6, <2>7, <2>9, <2>10, <1>1, <1>3, <1>6, ChainResized
  <2>12. m_iLength' = Count(z, U, F, E2, n)
    <3>1. Chain(U, F, E, nx, h, None, c, top)
      BY <2>9, <2>10
    <3>2. Count(z, U, F, E2, n) = Count(z, U, F, E, None) + E2[n] - E[n]
      BY <3>1, <2>6, <2>7, <2>11, <1>1, CountResized
    <3> QED BY <3>2, <2>1, <2>2, <2>7, <1>1, <1>2, <1>3
  <2>13. losses' = Nums(z, U, F, E2)
    <3>1. \A s \in SeqNumbers : Off(z, s) \in Nat
      BY <1>1, OffsetIs
    <3>2. Nums(z, U, F, E) = Nums(z, U \ {n}, F, E) \cup Between(z, F[n], E[n])
      BY NumsWith
    <3>3. Nums(z, U, F, E2) = Nums(z, U \ {n}, F, E2) \cup Between(z, F[n], E2[n])
      BY NumsWith
    <3>4. Nums(z, U \ {n}, F, E2) = Nums(z, U \ {n}, F, E)
      BY <2>7, NumsSame
    <3>5. Between(z, F[n], E2[n]) = Between(z, F[n], E[n]) \cup Between(z, oa, ob)
      BY <3>1, <2>7, <1>1, <1>3, <1>6 DEF Between
    <3> QED BY <3>2, <3>3, <3>4, <3>5
  <2>14. Written(Used, Fst(z), Lst(z))'
    <3>1. \A m \in Node \ U : d2[m] = None
      BY <2>4, <2>5 DEF Written
    <3>2. \A m \in U : d2[m] # None => F[m] < E2[m]
      BY <2>4, <2>5, <2>7, <1>1, <1>3, <1>6 DEF Written
    <3> QED BY <3>1, <3>2, <2>3, <2>8 DEF Written
  <2>15. m_iLength' \in Int
    BY <2>1, <2>2, <1>1, <1>2, <1>3
  <2>16. LossTypes'
    BY <2>1, <2>3, <2>5, <2>13, <2>15, <1>3, <1>5
       DEF LossTypes, Nodes, Numbers, Nums
  <2>17. First' = h /\ Growing' = n /\ Top(z)' = top /\ lo' = lo /\ side' = "snd"
    BY <2>1, <2>10, <1>1, <1>5 DEF First, Growing, Top
  <2>18. ListOK(z, c, Used, Fst(z), Lst(z))'
    <3>1. CallOK(z, c, Used, Fst(z), Lst(z))'
      BY <2>1, <2>8, <2>13, <1>5 DEF CallOK, Idle, Coalescing
    <3>2. nx = m_piNext'
      BY <2>3, <1>5
    <3> QED
      BY <3>1, <3>2, <2>8, <2>11, <2>12, <2>14, <2>17, <1>1, <1>5 DEF ListOK
  <2> QED
    BY <2>16, <2>18, <1>1 DEF LossListInv
<1>7. CASE ~(E[n] < ob)
  <2>1. UNCHANGED <<m_iLength, m_piData2>> /\ pc' = "idle" /\ i' = None /\ seqno1' = None /\ seqno2' = None
    BY <1>4, <1>7 DEF Extend, Over, Loop
  <2>2. /\ Used' = U /\ Fst(z)' = F /\ Lst(z)' = E
        /\ Written(Used, Fst(z), Lst(z))'
    BY <2>1, <1>5, ArraysKept
  <2>3. losses' = Nums(z, U, F, E)
    <3>1. \A s \in SeqNumbers : Off(z, s) \in Nat
      BY <1>1, OffsetIs
    <3>2. Between(z, oa, ob) \subseteq Nums(z, U, F, E)
      BY <3>1, <1>1, <1>3, <1>7 DEF Between, Nums
    <3> QED BY <3>2
  <2>4. LossTypes'
    BY <2>1, <2>3, <1>3, <1>5 DEF LossTypes, Nodes, Numbers, Nums
  <2>5. First' = First /\ Growing' = None /\ Top(z)' = top
    BY <2>1, <1>1, <1>2, <1>5 DEF First, Growing, Top
  <2>6. ListOK(z, c, Used, Fst(z), Lst(z))'
    <3>1. CallOK(z, c, Used, Fst(z), Lst(z))'
      BY <2>1, <2>2, <2>3 DEF CallOK, Idle
    <3>2. Chain(U, F, E, m_piNext', First', Growing', c, top)
      BY <2>5, <1>1, <1>2, <1>5
    <3>3. m_iLength' = Count(z, U, F, E, Growing')
      BY <2>1, <2>5, <1>2
    <3> QED
      BY <3>1, <3>2, <3>3, <2>2, <2>5, <1>1, <1>5 DEF ListOK
  <2> QED
    BY <2>4, <2>6, <1>1 DEF LossListInv
<1> QED
  BY <1>6, <1>7

\* The new range begins with the first number of a range that there is.
LEMMA InsertAtOK ==
  ASSUME LossTypes, NEW z, NEW c, NEW U, NEW F, NEW E, NEW top, Reads(z, c, U, F, E, top),
         NEW a, NEW b, InsertStep(z, a, b), InsertAt(a, b)
  PROVE  LossListInv'
<1>1. /\ a \in SeqNumbers /\ b \in SeqNumbers /\ Off(z, a) \in Nat /\ Off(z, a) <= Off(z, b)
      /\ Off(z, b) < top /\ z = lo /\ losses = Nums(z, U, F, E) /\ Off(z, a) < Window
  BY InsertStarts
<1>2. U # {} /\ pc # "clear" /\ pc # "coalesce"
  BY EmptyList DEF InsertAt, InsertStep
<1>3. Place(a) \in U /\ F[Place(a)] = Off(z, a)
  BY <1>1, <1>2, PlaceIs DEF InsertAt
<1>4. PICK n \in U : n = Place(a)
  BY <1>3
<1>5. F[n] = Off(z, a) /\ Off(z, a) <= E[n]
  BY <1>3, <1>4, NodeIs
<1>6. Extend(n, b)
  BY <1>4 DEF InsertAt
<1>7. losses' = Nums(z, U, F, E) \cup Between(z, Off(z, a), Off(z, b))
  BY <1>1 DEF InsertStep
<1>8. side = "snd" /\ pc \in {"idle", "search"} /\ UNCHANGED <<side, lo, hi>>
  BY DEF InsertStep
<1> QED
  BY <1>1, <1>5, <1>6, <1>7, <1>8, ExtendOK

\* The new range is behind the head, and the search for its place begins.
LEMMA InsertSearchOK ==
  ASSUME LossTypes, NEW z, NEW c, NEW U, NEW F, NEW E, NEW top, Reads(z, c, U, F, E, top),
         NEW a, NEW b, InsertStep(z, a, b), InsertSearch(a, b)
  PROVE  LossListInv'
<1>1. /\ z \in SeqNumbers /\ c \in Node /\ top \in Nat /\ top <= Window /\ top = Top(z) /\ Off(z, lo) <= top
      /\ Chain(U, F, E, m_piNext, First, Growing, c, top) /\ U \subseteq Node
  BY Basics DEF Reads
<1>2. /\ a \in SeqNumbers /\ b \in SeqNumbers /\ Off(z, a) \in Nat /\ Off(z, a) <= Off(z, b)
      /\ Off(z, b) < top /\ z = lo /\ losses = Nums(z, U, F, E) /\ Off(z, a) < Window
      /\ Growing = None /\ First = m_iHead /\ Off(z, b) \in Nat
  BY InsertStarts
<1>3. U # {} /\ pc # "clear" /\ pc # "coalesce" /\ m_iLength = Count(z, U, F, E, None) /\ m_iLength \in Int
  BY EmptyList, InsertStarts DEF InsertSearch, InsertStep
<1>4. PICK n : n = IF m_iLastInsertPos # None /\ seqcmp(m_piData1[m_iLastInsertPos], a) < 0
                   THEN m_iLastInsertPos ELSE m_iHead
  OBVIOUS
<1>5. n \in U /\ F[n] < Off(z, a)
  <2>1. CASE m_iLastInsertPos # None /\ seqcmp(m_piData1[m_iLastInsertPos], a) < 0
    <3>1. n \in U /\ n = m_iLastInsertPos
      BY <2>1, <1>4 DEF Reads, ListOK, InsertStep
    <3>2. m_piData1[n] \in SeqNumbers /\ F[n] = Off(z, m_piData1[n]) /\ F[n] \in Nat
          /\ F[n] <= E[n] /\ E[n] < top /\ E[n] \in Nat
      BY <3>1, NodeIs
    <3>3. Off(z, m_piData1[n]) <= Window /\ Off(z, a) <= Window
      BY <3>2, <1>1, <1>2, Sizes
    <3>4. seqcmp(m_piData1[n], a) < 0 <=> Off(z, m_piData1[n]) < Off(z, a)
      BY <3>2, <3>3, <1>1, <1>2, Compared
    <3> QED BY <2>1, <3>1, <3>2, <3>4
  <2>2. CASE ~(m_iLastInsertPos # None /\ seqcmp(m_piData1[m_iLastInsertPos], a) < 0)
    <3>1. n \in U /\ n = m_iHead
      BY <2>2, <1>3, <1>4, HeadIs
    <3>2. seqoff(m_piData1[m_iHead], a) = Off(z, a) - F[m_iHead]
      BY <1>2, <1>3, PlaceIs
    <3>3. F[n] \in Nat
      BY <3>1, NodeIs
    <3> QED BY <3>1, <3>2, <3>3, <1>2 DEF InsertSearch
  <2> QED BY <2>1, <2>2
<1>6. /\ pc' = "search" /\ i' = n /\ seqno1' = a /\ seqno2' = b /\ UNCHANGED <<arrays, ends>>
      /\ m_piData1[Place(a)] # a
  BY <1>4 DEF InsertSearch, Loop
<1>7. /\ Used' = U /\ Fst(z)' = F /\ Lst(z)' = E
      /\ Written(Used, Fst(z), Lst(z))'
  BY <1>6, ArraysKept DEF arrays
<1>8. losses' = Nums(z, U, F, E) \cup Between(z, Off(z, a), Off(z, b))
  BY <1>2 DEF InsertStep
<1>9. /\ UNCHANGED <<m_piData1, m_piData2, m_piNext, m_piPrior>>
      /\ UNCHANGED <<m_iHead, m_iTail, m_iLength, m_iLastInsertPos, side, lo, hi>>
      /\ side = "snd"
  BY <1>6 DEF arrays, ends, InsertStep
<1>10. LossTypes'
  BY <1>1, <1>2, <1>5, <1>6, <1>8, <1>9 DEF LossTypes, Nodes, Numbers, Nums, Between
<1>11. First' = First /\ Growing' = None /\ Top(z)' = top
  BY <1>1, <1>2, <1>6, <1>9 DEF First, Growing, Top
<1>12. ListOK(z, c, Used, Fst(z), Lst(z))'
  <2>1. m_piData1'[Place(seqno1)'] # a
    BY <1>6, <1>9 DEF Place
  <2>2. CallOK(z, c, Used, Fst(z), Lst(z))'
    BY <2>1, <1>1, <1>2, <1>5, <1>6, <1>7, <1>8, <1>9, <1>11 DEF CallOK, Searching, Between
  <2>3. Chain(U, F, E, m_piNext', First', Growing', c, top)
    BY <1>1, <1>2, <1>9, <1>11
  <2>4. m_iLength' = Count(z, U, F, E, Growing')
    BY <1>3, <1>9, <1>11
  <2>5. m_iLastInsertPos' \in U \cup {None}
    BY <1>9 DEF Reads, ListOK
  <2> QED
    BY <2>2, <2>3, <2>4, <2>5, <1>1, <1>7, <1>9, <1>11 DEF ListOK
<1> QED
  BY <1>1, <1>10, <1>12 DEF LossListInv
-------------------------------------------------------------------------------
(* The loops of insert() *)

\* In the search, and what the comparisons say of the node it stands at.
LEMMA SearchIs ==
  ASSUME LossTypes, NEW z, NEW c, NEW U, NEW F, NEW E, NEW top, Reads(z, c, U, F, E, top),
         pc = "search", NEW n, n = i, NEW x, x = m_piNext[n]
  PROVE  /\ side = "snd" /\ z = lo /\ n \in U /\ Growing = None /\ First = m_iHead
         /\ m_iLength = Count(z, U, F, E, None) /\ m_iLength \in Nat
         /\ seqno1 \in SeqNumbers /\ seqno2 \in SeqNumbers
         /\ Off(z, seqno1) \in Nat /\ Off(z, seqno2) \in Nat /\ Off(z, seqno1) <= Off(z, seqno2)
         /\ Off(z, seqno2) < top /\ Off(z, seqno1) < Window
         /\ F[n] < Off(z, seqno1) /\ U # {}
         /\ Place(seqno1) = At(c, Off(z, seqno1)) /\ Place(seqno1) \in Node /\ Place(seqno1) \notin U
         /\ \A m \in U : F[m] # Off(z, seqno1)
         /\ seqlen(seqno1, seqno2) = Off(z, seqno2) - Off(z, seqno1) + 1
         /\ losses = Nums(z, U, F, E) \cup Between(z, Off(z, seqno1), Off(z, seqno2))
         /\ seqcmp(End(n), seqno1) < 0 <=> E[n] < Off(z, seqno1)
         /\ seqcmp(End(n), seqno1) >= 0 <=> E[n] >= Off(z, seqno1)
         /\ x = None \/ x \in U
         /\ NextIsBefore(seqno1) <=> x # None /\ F[x] < Off(z, seqno1)
<1>1. /\ Searching(z, U, F, E) /\ Growing = None /\ First = m_iHead /\ side = "snd"
      /\ m_iLength = Count(z, U, F, E, None) /\ top = Top(z) /\ pc # "clear" /\ pc # "coalesce"
  BY DEF Reads, ListOK, CallOK, Growing, First, LossTypes
<1>2. /\ z = lo /\ n \in U /\ seqno1 \in SeqNumbers /\ seqno2 \in SeqNumbers
      /\ F[n] < Off(z, seqno1) /\ Off(z, seqno1) <= Off(z, seqno2) /\ Off(z, seqno2) < top
      /\ m_piData1[Place(seqno1)] # seqno1
      /\ losses = Nums(z, U, F, E) \cup Between(z, Off(z, seqno1), Off(z, seqno2))
  BY <1>1 DEF Searching, Between
<1>3. /\ z \in SeqNumbers /\ top \in Nat /\ top <= Window /\ Window \in Nat
      /\ Off(z, seqno1) \in Nat /\ Off(z, seqno2) \in Nat
      /\ Chain(U, F, E, m_piNext, First, Growing, c, top)
  BY <1>2, Basics, Sizes
<1>4. Off(z, seqno1) < Window
  BY <1>2, <1>3
<1>5. /\ Place(seqno1) = At(c, Off(z, seqno1)) /\ Place(seqno1) \in Node /\ Place(seqno1) \notin U
      /\ \A m \in U : F[m] # Off(z, seqno1)
  BY <1>1, <1>2, <1>4, PlaceIs
<1>6. seqlen(seqno1, seqno2) = Off(z, seqno2) - Off(z, seqno1) + 1
  BY <1>2, <1>3, Length
<1>7. End(n) \in SeqNumbers /\ E[n] = Off(z, End(n)) /\ E[n] \in Nat /\ E[n] < top
  BY <1>2, NodeIs
<1>8. /\ seqcmp(End(n), seqno1) < 0 <=> E[n] < Off(z, seqno1)
      /\ seqcmp(End(n), seqno1) >= 0 <=> E[n] >= Off(z, seqno1)
  <2>1. Off(z, End(n)) <= Window /\ Off(z, seqno1) <= Window
    BY <1>3, <1>4, <1>7
  <2> QED BY <2>1, <1>2, <1>3, <1>7, Compared
<1>9. x = None \/ x \in U
  BY <1>2, <1>3 DEF Chain, Follows
<1>10. NextIsBefore(seqno1) <=> x # None /\ F[x] < Off(z, seqno1)
  <2>1. CASE x = None
    BY <2>1 DEF NextIsBefore
  <2>2. CASE x \in U
    <3>1. m_piData1[x] \in SeqNumbers /\ F[x] = Off(z, m_piData1[x]) /\ F[x] \in Nat /\ F[x] < top
      <4>1. /\ m_piData1[x] \in SeqNumbers /\ F[x] = Off(z, m_piData1[x]) /\ F[x] \in Nat
            /\ F[x] <= E[x] /\ E[x] < top /\ E[x] \in Nat
        BY <2>2, NodeIs
      <4> QED BY <4>1, <1>3
    <3>2. Off(z, m_piData1[x]) <= Window /\ Off(z, seqno1) <= Window
      BY <3>1, <1>3, <1>4
    <3>3. seqcmp(m_piData1[x], seqno1) < 0 <=> F[x] < Off(z, seqno1)
      BY <3>1, <3>2, <1>2, <1>3, Compared
    <3>4. x # None
      BY <2>2, Basics
    <3> QED BY <3>3, <3>4 DEF NextIsBefore
  <2> QED BY <2>1, <2>2, <1>9
<1>11. U # {}
  BY <1>2
<1>12. m_iLength \in Nat
  BY <1>1, EmptyList
<1> QED
  BY <1>1, <1>2, <1>3, <1>4, <1>5, <1>6, <1>8, <1>9, <1>10, <1>11, <1>12

\* The search moves on to the next range.
LEMMA SearchNextOK ==
  ASSUME LossTypes, NEW z, NEW c, NEW U, NEW F, NEW E, NEW top, Reads(z, c, U, F, E, top),
         SearchNext
  PROVE  LossListInv'
<1>1. PICK n, x : n = i /\ x = m_piNext[n]
  OBVIOUS
<1>2. pc = "search"
  BY DEF SearchNext
<1>3. /\ side = "snd" /\ z = lo /\ n \in U /\ Growing = None /\ First = m_iHead
      /\ m_iLength = Count(z, U, F, E, None)
      /\ seqno1 \in SeqNumbers /\ seqno2 \in SeqNumbers
      /\ x = None \/ x \in U
      /\ NextIsBefore(seqno1) <=> x # None /\ F[x] < Off(z, seqno1)
  BY <1>1, <1>2, SearchIs
<1>4. x \in U /\ F[x] < Off(z, seqno1)
  BY <1>3 DEF SearchNext
<1>5. /\ pc' = "search" /\ i' = x /\ seqno1' = seqno1 /\ seqno2' = seqno2
      /\ UNCHANGED <<m_piData1, m_piData2, m_piNext, m_piPrior>>
      /\ UNCHANGED <<m_iHead, m_iTail, m_iLength, m_iLastInsertPos, side, lo, hi, losses>>
  BY <1>1 DEF SearchNext, Loop, arrays, ends, window
<1>6. /\ z \in SeqNumbers /\ c \in Node /\ top = Top(z) /\ U \subseteq Node
      /\ Chain(U, F, E, m_piNext, First, Growing, c, top) /\ top <= Window /\ Off(z, lo) <= top
  BY Basics DEF Reads
<1>7. /\ Used' = U /\ Fst(z)' = F /\ Lst(z)' = E
      /\ Written(Used, Fst(z), Lst(z))'
  BY <1>5, ArraysKept
<1>8. LossTypes'
  BY <1>2, <1>4, <1>5, <1>6 DEF LossTypes, Nodes, Numbers
<1>9. First' = First /\ Growing' = None /\ Top(z)' = top
  BY <1>2, <1>5, <1>6 DEF First, Growing, Top
<1>10. ListOK(z, c, Used, Fst(z), Lst(z))'
  <2>1. Searching(z, U, F, E)
    BY <1>2 DEF Reads, ListOK, CallOK
  <2>2. m_piData1'[Place(seqno1)'] # seqno1
    BY <2>1, <1>5 DEF Place, Searching
  <2>3. CallOK(z, c, Used, Fst(z), Lst(z))'
    BY <2>1, <2>2, <1>4, <1>5, <1>6, <1>7, <1>9 DEF CallOK, Searching
  <2>4. Chain(U, F, E, m_piNext', First', Growing', c, top)
    BY <1>3, <1>5, <1>6, <1>9
  <2>5. m_iLength' = Count(z, U, F, E, Growing')
    BY <1>3, <1>5, <1>9
  <2>6. m_iLastInsertPos' \in U \cup {None}
    BY <1>3, <1>5 DEF Reads, ListOK
  <2> QED
    BY <2>3, <2>4, <2>5, <2>6, <1>3, <1>5, <1>6, <1>7, <1>9 DEF ListOK
<1> QED
  BY <1>6, <1>8, <1>10 DEF LossListInv

\* The search ends, and the new range gets a node behind the one it has found.
LEMMA SearchNewOK ==
  ASSUME LossTypes, NEW z, NEW c, NEW U, NEW F, NEW E, NEW top, Reads(z, c, U, F, E, top),
         SearchNew
  PROVE  LossListInv'
<1>1. PICK n, y, a, b : n = i /\ y = m_piNext[n] /\ a = seqno1 /\ b = seqno2
  OBVIOUS
<1> DEFINE oa == Off(z, a)
           ob == Off(z, b)
<1>2. pc = "search"
  BY DEF SearchNew
<1>3. /\ side = "snd" /\ z = lo /\ n \in U /\ Growing = None /\ First = m_iHead
      /\ m_iLength = Count(z, U, F, E, None) /\ m_iLength \in Nat
      /\ a \in SeqNumbers /\ b \in SeqNumbers
      /\ oa \in Nat /\ ob \in Nat /\ oa <= ob /\ ob < top /\ oa < Window
      /\ Place(a) = At(c, oa) /\ Place(a) \in Node /\ Place(a) \notin U
      /\ \A m \in U : F[m] # oa
      /\ seqlen(a, b) = ob - oa + 1
      /\ losses = Nums(z, U, F, E) \cup Between(z, oa, ob)
      /\ E[n] < oa
      /\ y = None \/ y \in U
      /\ ~(y # None /\ F[y] < oa)
  BY <1>1, <1>2, SearchIs DEF SearchNew
<1>4. /\ z \in SeqNumbers /\ c \in Node /\ U \in SUBSET Node /\ None \notin U
      /\ top \in Nat /\ top <= Window /\ top <= m_iSize
      /\ top = Top(z) /\ Off(z, lo) <= top /\ Functions(F, E)
      /\ Chain(U, F, E, m_piNext, First, Growing, c, top)
  BY Basics DEF Reads
<1>5. PICK x \in Node : x = Place(a) /\ x = At(c, oa) /\ x \notin U
  BY <1>3
<1>6. y = None \/ (y \in U /\ oa < F[y])
  <2>1. y \in U => F[y] \in Nat
    BY NodeIs
  <2> QED BY <2>1, <1>3, <1>4
<1>7. PICK U2, F2, E2, nx, nx2, h :
        U2 = Used' /\ F2 = Fst(z)' /\ E2 = Lst(z)' /\ nx = m_piNext /\ nx2 = m_piNext' /\ h = m_iHead
  OBVIOUS
<1>8. /\ m_piData1' = [m_piData1 EXCEPT ![x] = a] /\ m_piData2' = [m_piData2 EXCEPT ![x] = Second(x, a, b)]
      /\ m_iLastInsertPos' = x /\ m_iLength' = m_iLength + (ob - oa + 1)
      /\ nx2 = [nx EXCEPT ![x] = y, ![n] = x]
      /\ pc' = "coalesce" /\ i' = x /\ seqno1' = None /\ seqno2' = None
      /\ UNCHANGED <<m_piPrior, m_iHead, m_iTail, side, lo, hi, losses>>
  BY <1>1, <1>3, <1>5, <1>7 DEF SearchNew, NewRange, Loop, window
<1>9. /\ m_piData1' \in [Node -> Numbers] /\ m_piData2' \in [Node -> Numbers]
      /\ U2 = U \cup {x} /\ Functions(F2, E2) /\ F2[x] = oa /\ E2[x] = ob
      /\ \A m \in U : F2[m] = F[m] /\ E2[m] = E[m]
      /\ Written(Used, Fst(z), Lst(z))'
  <2>1. NewWritten(x, a, b)
    BY <1>8 DEF NewWritten
  <2>2. ob <= Window
    BY <1>3, <1>4, Sizes
  <2>3. /\ m_piData1' \in [Node -> Numbers] /\ m_piData2' \in [Node -> Numbers]
        /\ Used' = U \cup {x} /\ Functions(Fst(z)', Lst(z)')
        /\ Fst(z)'[x] = Off(z, a) /\ Lst(z)'[x] = Off(z, b)
        /\ \A m \in U : Fst(z)'[m] = F[m] /\ Lst(z)'[m] = E[m]
        /\ Written(Used, Fst(z), Lst(z))'
    BY <2>1, <2>2, <1>3, <1>5, RangeWritten
  <2> QED BY <2>3, <1>7
<1>10. /\ nx2 \in [Node -> Nodes \cup {Unset}] /\ nx2[n] = x /\ nx2[x] = y /\ nx[n] = y
       /\ \A m \in U : m # n => nx2[m] = nx[m]
  <2>1. nx \in [Node -> Nodes \cup {Unset}] /\ n \in Node /\ n # x
    BY <1>3, <1>4, <1>5, <1>7 DEF LossTypes
  <2>2. y \in Nodes \cup {Unset}
    BY <1>6, <1>4 DEF Nodes
  <2> QED BY <2>1, <2>2, <1>1, <1>4, <1>5, <1>7, <1>8 DEF Nodes
<1>11. Chain(U2, F2, E2, nx2, h, x, c, top)
  <2>1. Chain(U, F, E, nx, h, None, c, top)
    BY <1>3, <1>4, <1>7
  <2>2. x \in Node /\ x \notin U /\ x = At(c, F2[x]) /\ F2[x] <= E2[x] /\ E2[x] < top /\ top <= top
    BY <1>3, <1>4, <1>5, <1>9
  <2>3. Linked(U, F, E, nx, F2, E2, nx2, n, x)
    BY <1>3, <1>6, <1>9, <1>10 DEF Linked
  <2>4. Chain(U \cup {x}, F2, E2, nx2, h, x, c, top)
    BY <2>1, <2>2, <2>3, <1>4, <1>9, ChainNew
  <2> QED BY <2>4, <1>9
<1>12. m_iLength' = Count(z, U2, F2, E2, x)
  <2>1. Count(z, U \cup {x}, F2, E2, x) = Count(z, U, F, E, None) + E2[x] - F2[x] + 1
    BY <1>4, <1>5, <1>9, CountNew
  <2> QED BY <2>1, <1>3, <1>8, <1>9
<1>13. losses' = Nums(z, U2, F2, E2)
  <2>1. Nums(z, U2, F2, E2) = Nums(z, U, F, E) \cup Between(z, oa, ob)
    BY <1>9 DEF Nums, Between
  <2> QED BY <2>1, <1>3, <1>8
<1>14. m_iLength' \in Int
  BY <1>3, <1>8
<1>15. LossTypes'
  BY <1>2, <1>7, <1>8, <1>9, <1>10, <1>14 DEF LossTypes, Nodes, Numbers
<1>16. Growing' = x /\ First' = h /\ Top(z)' = top
  BY <1>4, <1>7, <1>8 DEF Growing, First, Top
<1>17. ListOK(z, c, Used, Fst(z), Lst(z))'
  <2>1. CallOK(z, c, Used, Fst(z), Lst(z))'
    BY <1>3, <1>7, <1>8, <1>9, <1>13 DEF CallOK, Idle, Coalescing
  <2> QED
    BY <2>1, <1>3, <1>4, <1>7, <1>8, <1>9, <1>11, <1>12, <1>16 DEF ListOK
<1> QED
  BY <1>4, <1>15, <1>17 DEF LossListInv

\* The search ends at a range that overlaps the new one, and extends it.
LEMMA SearchExtendOK ==
  ASSUME LossTypes, NEW z, NEW c, NEW U, NEW F, NEW E, NEW top, Reads(z, c, U, F, E, top),
         SearchExtend
  PROVE  LossListInv'
<1>1. PICK n, y, b : n = i /\ y = m_piNext[n] /\ b = seqno2
  OBVIOUS
<1>2. PICK oa : oa = Off(z, seqno1)
  OBVIOUS
<1>3. pc = "search"
  BY DEF SearchExtend
<1>4. /\ side = "snd" /\ z = lo /\ n \in U /\ b \in SeqNumbers
      /\ oa \in Nat /\ oa <= Off(z, b) /\ Off(z, b) < top /\ F[n] < oa
      /\ losses = Nums(z, U, F, E) \cup Between(z, oa, Off(z, b))
      /\ seqcmp(End(n), seqno1) >= 0 <=> E[n] >= oa
  BY <1>1, <1>2, <1>3, SearchIs
<1>5. F[n] <= oa /\ oa <= E[n]
  <2>1. F[n] \in Nat /\ E[n] \in Nat
    BY <1>4, NodeIs
  <2> QED BY <2>1, <1>1, <1>4 DEF SearchExtend
<1>6. /\ pc \in {"idle", "search"} /\ UNCHANGED <<side, lo, hi>>
      /\ losses' = Nums(z, U, F, E) \cup Between(z, oa, Off(z, b))
      /\ Extend(n, b)
  BY <1>1, <1>3, <1>4 DEF SearchExtend, window
<1> QED
  BY <1>4, <1>5, <1>6, ExtendOK
-------------------------------------------------------------------------------
(* The loop that joins the ranges the growing one has reached *)

\* What the arrays say when d1 and d2 are in them.
LEMMA Rewritten ==
  ASSUME LossTypes, NEW z, NEW c, NEW U, NEW F, NEW E, NEW top, Reads(z, c, U, F, E, top),
         NEW d1 \in [Node -> Numbers], NEW d2 \in [Node -> Numbers],
         d1 = m_piData1', d2 = m_piData2'
  PROVE  /\ Used' \in SUBSET Node /\ Functions(Fst(z)', Lst(z)')
         /\ \A n \in Node : n \in Used' <=> d1[n] # None
         /\ \A n \in Node : n \in U <=> m_piData1[n] # None
         /\ \A n \in Node : Fst(z)'[n] = Off(z, d1[n])
         /\ \A n \in Node : d2[n] = None => Lst(z)'[n] = Off(z, d1[n])
         /\ \A n \in Node : d2[n] # None => Lst(z)'[n] = Off(z, d2[n])
         /\ \A n \in Node : d1[n] = m_piData1[n] => Fst(z)'[n] = F[n]
         /\ \A n \in Node : d1[n] = m_piData1[n] /\ d2[n] = m_piData2[n] => Lst(z)'[n] = E[n]
         /\ \A n \in Node \ U : m_piData2[n] = None
         /\ \A n \in U : m_piData2[n] # None => F[n] < E[n]
         /\ Written(Used, Fst(z), Lst(z))'
              <=> /\ \A n \in Node \ Used' : d2[n] = None
                  /\ \A n \in Used' : d2[n] # None => Fst(z)'[n] < Lst(z)'[n]
<1>1. /\ F = FirstsOf(z, m_piData1) /\ E = LastsOf(z, m_piData1, m_piData2) /\ U = UsedOf(m_piData1)
      /\ Fst(z)' = FirstsOf(z, d1) /\ Lst(z)' = LastsOf(z, d1, d2) /\ Used' = UsedOf(d1)
      /\ z \in SeqNumbers /\ Written(U, F, E)
  BY ReadingNow DEF Reads, ListOK
<1>2. Used' \in SUBSET Node /\ Functions(Fst(z)', Lst(z)')
  BY <1>1, ReadingIs
<1>3. \A n \in Node : n \in Used' <=> d1[n] # None
  BY <1>1 DEF UsedOf
<1>4. \A n \in Node : n \in U <=> m_piData1[n] # None
  BY <1>1 DEF UsedOf
<1>5. \A n \in Node : Fst(z)'[n] = Off(z, d1[n])
  BY <1>1 DEF FirstsOf
<1>6. /\ \A n \in Node : d2[n] = None => Lst(z)'[n] = Off(z, d1[n])
      /\ \A n \in Node : d2[n] # None => Lst(z)'[n] = Off(z, d2[n])
  BY <1>1 DEF LastsOf, EndOf
<1>7. \A n \in Node : d1[n] = m_piData1[n] => Fst(z)'[n] = F[n]
  BY <1>1 DEF FirstsOf
<1>8. \A n \in Node : d1[n] = m_piData1[n] /\ d2[n] = m_piData2[n] => Lst(z)'[n] = E[n]
  BY <1>1 DEF LastsOf, EndOf
<1>9. Written(Used, Fst(z), Lst(z))'
        <=> /\ \A n \in Node \ Used' : d2[n] = None
            /\ \A n \in Used' : d2[n] # None => Fst(z)'[n] < Lst(z)'[n]
  BY DEF Written
<1>10. /\ \A n \in Node \ U : m_piData2[n] = None
       /\ \A n \in U : m_piData2[n] # None => F[n] < E[n]
  BY <1>1 DEF Written
<1> QED
  BY <1>2, <1>3, <1>4, <1>5, <1>6, <1>7, <1>8, <1>9, <1>10

\* In the loop, and what the comparisons say of the next range.
LEMMA CoalesceIs ==
  ASSUME LossTypes, NEW z, NEW c, NEW U, NEW F, NEW E, NEW top, Reads(z, c, U, F, E, top),
         pc = "coalesce", NEW g, g = i, NEW x, x = m_piNext[g]
  PROVE  /\ side = "snd" /\ z = lo /\ g \in U /\ Growing = g /\ First = m_iHead
         /\ m_iLastInsertPos = g /\ losses = Nums(z, U, F, E)
         /\ m_iLength = Count(z, U, F, E, g)
         /\ x = None \/ (x \in U /\ F[g] < F[x])
         /\ Touches => /\ x \in U /\ m_piData2[g] # None /\ F[x] <= E[g] + 1
                       /\ seqcmp(End(x), m_piData2[g]) > 0 <=> E[x] > E[g]
                       /\ seqcmp(m_piData2[g], m_piData1[x]) >= 0 <=> E[g] >= F[x]
                       /\ E[g] >= F[x] => seqlen(m_piData1[x], m_piData2[g]) = E[g] - F[x] + 1
                       /\ seqlen(m_piData1[x], End(x)) = E[x] - F[x] + 1
         /\ ~Touches => x = None \/ E[g] < F[x]
<1>1. /\ Coalescing(z, U, F, E) /\ Growing = g /\ First = m_iHead /\ side = "snd"
      /\ m_iLength = Count(z, U, F, E, g)
  BY DEF Reads, ListOK, CallOK, Growing, First, LossTypes
<1>2. z = lo /\ g \in U /\ m_iLastInsertPos = g /\ losses = Nums(z, U, F, E)
  BY <1>1 DEF Coalescing, Idle
<1>3. /\ z \in SeqNumbers /\ top \in Nat /\ top <= Window /\ Window \in Nat /\ None \notin U
      /\ Chain(U, F, E, m_piNext, First, Growing, c, top)
  BY Basics, Sizes
<1>4. x = None \/ (x \in U /\ F[g] < F[x])
  BY <1>2, <1>3 DEF Chain, Follows
<1>5. /\ F[g] \in Nat /\ E[g] \in Nat /\ F[g] <= E[g] /\ E[g] < top
      /\ m_piData2[g] = None => E[g] = F[g]
      /\ m_piData2[g] # None => End(g) = m_piData2[g] /\ m_piData2[g] \in SeqNumbers
      /\ E[g] = Off(z, End(g))
  BY <1>2, NodeIs
<1>6. ASSUME x \in U, m_piData2[g] # None
      PROVE  /\ Touches <=> F[x] <= E[g] + 1
             /\ seqcmp(End(x), m_piData2[g]) > 0 <=> E[x] > E[g]
             /\ seqcmp(m_piData2[g], m_piData1[x]) >= 0 <=> E[g] >= F[x]
             /\ E[g] >= F[x] => seqlen(m_piData1[x], m_piData2[g]) = E[g] - F[x] + 1
             /\ seqlen(m_piData1[x], End(x)) = E[x] - F[x] + 1
             /\ F[x] \in Nat
  <2>1. /\ m_piData1[x] \in SeqNumbers /\ End(x) \in SeqNumbers
        /\ F[x] = Off(z, m_piData1[x]) /\ E[x] = Off(z, End(x))
        /\ F[x] \in Nat /\ E[x] \in Nat /\ F[x] <= E[x] /\ E[x] < top
    BY <1>6, NodeIs
  <2>2. PICK d, e, f : d = m_piData2[g] /\ e = End(x) /\ f = m_piData1[x]
    OBVIOUS
  <2>3. d \in SeqNumbers /\ e \in SeqNumbers /\ f \in SeqNumbers
        /\ Off(z, d) = E[g] /\ Off(z, e) = E[x] /\ Off(z, f) = F[x]
    BY <2>1, <2>2, <1>5, <1>6
  <2>4. Off(z, d) <= Window /\ Off(z, e) <= Window /\ Off(z, f) <= Window /\ Off(z, d) + 1 <= Window
    BY <2>1, <2>3, <1>3, <1>5
  <2>5. PICK u \in SeqNumbers : u = incseq(d) /\ Off(z, u) = E[g] + 1
    BY <2>3, <2>4, <1>3, NextNumber
  <2>6. seqcmp(f, u) <= 0 <=> F[x] <= E[g] + 1
    <3>1. Off(z, u) <= Window
      BY <2>3, <2>4, <2>5
    <3> QED BY <3>1, <2>3, <2>4, <2>5, <1>3, Compared
  <2>7. seqcmp(e, d) > 0 <=> E[x] > E[g]
    BY <2>3, <2>4, <1>3, Compared
  <2>8. seqcmp(d, f) >= 0 <=> E[g] >= F[x]
    BY <2>3, <2>4, <1>3, Compared
  <2>9. /\ E[g] >= F[x] => seqlen(f, d) = E[g] - F[x] + 1
    BY <2>1, <2>3, <1>3, <1>5, Length
  <2>10. seqlen(f, e) = E[x] - F[x] + 1
    BY <2>1, <2>3, <1>3, Length
  <2>11. Touches <=> seqcmp(f, u) <= 0
    BY <2>2, <2>5, <1>3, <1>6 DEF Touches
  <2> QED BY <2>1, <2>2, <2>6, <2>7, <2>8, <2>9, <2>10, <2>11
<1>7. Touches => x # None /\ m_piData2[g] # None
  BY DEF Touches
<1>8. ~Touches => x = None \/ E[g] < F[x]
  <2>1. CASE x \in U /\ m_piData2[g] # None
    BY <2>1, <1>5, <1>6
  <2>2. CASE x \in U /\ m_piData2[g] = None
    BY <2>2, <1>3, <1>4, <1>5
  <2> QED BY <2>1, <2>2, <1>4
<1> QED
  BY <1>1, <1>2, <1>4, <1>6, <1>7, <1>8

\* The growing range takes over the next one, or a part of it.
LEMMA CoalesceOK ==
  ASSUME LossTypes, NEW z, NEW c, NEW U, NEW F, NEW E, NEW top, Reads(z, c, U, F, E, top),
         Coalesce
  PROVE  LossListInv'
<1>1. PICK g, x : g = i /\ x = m_piNext[g]
  OBVIOUS
<1>2. pc = "coalesce" /\ Touches
  BY DEF Coalesce
<1>3. /\ side = "snd" /\ z = lo /\ g \in U /\ Growing = g /\ First = m_iHead
      /\ m_iLastInsertPos = g /\ losses = Nums(z, U, F, E)
      /\ m_iLength = Count(z, U, F, E, g)
      /\ x \in U /\ F[g] < F[x] /\ m_piData2[g] # None /\ F[x] <= E[g] + 1
      /\ seqcmp(End(x), m_piData2[g]) > 0 <=> E[x] > E[g]
      /\ seqcmp(m_piData2[g], m_piData1[x]) >= 0 <=> E[g] >= F[x]
      /\ E[g] >= F[x] => seqlen(m_piData1[x], m_piData2[g]) = E[g] - F[x] + 1
      /\ seqlen(m_piData1[x], End(x)) = E[x] - F[x] + 1
  <2>1. None \notin U
    BY Basics
  <2> QED BY <2>1, <1>1, <1>2, CoalesceIs
<1>4. /\ z \in SeqNumbers /\ c \in Node /\ U \in SUBSET Node /\ None \notin U
      /\ top \in Nat /\ top <= Window /\ top <= m_iSize
      /\ top = Top(z) /\ Off(z, lo) <= top /\ Functions(F, E)
      /\ Chain(U, F, E, m_piNext, First, Growing, c, top)
  BY Basics DEF Reads
<1>5. /\ F[g] \in Nat /\ E[g] \in Nat /\ F[g] <= E[g] /\ E[g] < top
      /\ F[x] \in Nat /\ E[x] \in Nat /\ F[x] <= E[x] /\ E[x] < top
      /\ End(x) \in SeqNumbers /\ E[x] = Off(z, End(x))
      /\ E[g] = Off(z, m_piData2[g]) /\ m_piData2[g] \in SeqNumbers
  <2>1. /\ F[g] \in Nat /\ E[g] \in Nat /\ F[g] <= E[g] /\ E[g] < top
        /\ E[g] = Off(z, m_piData2[g]) /\ m_piData2[g] \in SeqNumbers
    BY <1>3, NodeIs
  <2>2. /\ F[x] \in Nat /\ E[x] \in Nat /\ F[x] <= E[x] /\ E[x] < top
        /\ End(x) \in SeqNumbers /\ E[x] = Off(z, End(x))
    BY <1>3, NodeIs
  <2> QED BY <2>1, <2>2
<1>6. PICK e, m : /\ e = (IF E[x] > E[g] THEN End(x) ELSE m_piData2[g])
                  /\ m = (IF E[x] > E[g] THEN E[x] ELSE E[g])
  OBVIOUS
<1>7. /\ e \in SeqNumbers /\ e # None /\ Off(z, e) = m /\ m \in Nat /\ E[g] <= m /\ E[x] <= m /\ m < top
      /\ m = E[x] \/ m = E[g]
  BY <1>5, <1>6 DEF SeqNumbers, None
<1>8. PICK d1, d2, U2, F2, E2, nx, nx2, h :
        /\ d1 = m_piData1' /\ d2 = m_piData2' /\ U2 = Used' /\ F2 = Fst(z)' /\ E2 = Lst(z)'
        /\ nx = m_piNext /\ nx2 = m_piNext' /\ h = m_iHead
  OBVIOUS
<1>9. /\ d1 = [m_piData1 EXCEPT ![x] = None]
      /\ d2 = [m_piData2 EXCEPT ![x] = None, ![g] = e]
      /\ nx2 = [nx EXCEPT ![g] = nx[x], ![x] = Unset]
      /\ UNCHANGED <<m_piPrior, m_iHead, m_iTail, m_iLastInsertPos>>
      /\ UNCHANGED <<pc, i, seqno1, seqno2, side, lo, hi, losses>>
  <2>1. d2 = [m_piData2 EXCEPT ![x] = None, ![g] = IF E[x] > E[g] THEN End(x) ELSE @]
    BY <1>1, <1>3, <1>8 DEF Coalesce
  <2>2. x # g
    BY <1>3, <1>5
  <2>3. d2 = [m_piData2 EXCEPT ![x] = None, ![g] = e]
    BY <2>1, <2>2, <1>3, <1>4, <1>6 DEF LossTypes
  <2> QED BY <2>3, <1>1, <1>8 DEF Coalesce, callVars, window
<1>10. x # g /\ x \in Node /\ g \in Node
  BY <1>3, <1>4, <1>5
<1>11. /\ d1 \in [Node -> Numbers] /\ d2 \in [Node -> Numbers]
       /\ d1[x] = None /\ d2[x] = None /\ d1[g] = m_piData1[g] /\ d2[g] = e
       /\ \A n \in Node : n # x => d1[n] = m_piData1[n] /\ (n # g => d2[n] = m_piData2[n])
  BY <1>7, <1>9, <1>10 DEF LossTypes, Numbers
<1>12. /\ nx2 \in [Node -> Nodes \cup {Unset}] /\ nx2[g] = nx[x]
       /\ \A n \in U \ {x} : n # g => nx2[n] = nx[n]
  BY <1>4, <1>8, <1>9, <1>10 DEF LossTypes
<1>13. /\ U2 = U \ {x} /\ Functions(F2, E2) /\ E2[g] = m /\ F2[g] = F[g]
       /\ \A n \in U \ {x} : F2[n] = F[n] /\ (n # g => E2[n] = E[n])
       /\ \A n \in Node \ U : d2[n] = None
       /\ \A n \in U : m_piData2[n] # None => F[n] < E[n]
       /\ Written(Used, Fst(z), Lst(z))'
            <=> /\ \A n \in Node \ U2 : d2[n] = None
                /\ \A n \in U2 : d2[n] # None => F2[n] < E2[n]
  <2>1. /\ U2 \in SUBSET Node /\ Functions(F2, E2)
        /\ \A n \in Node : n \in U2 <=> d1[n] # None
        /\ \A n \in Node : n \in U <=> m_piData1[n] # None
        /\ \A n \in Node : d2[n] # None => E2[n] = Off(z, d2[n])
        /\ \A n \in Node : d1[n] = m_piData1[n] => F2[n] = F[n]
        /\ \A n \in Node : d1[n] = m_piData1[n] /\ d2[n] = m_piData2[n] => E2[n] = E[n]
        /\ \A n \in Node \ U : m_piData2[n] = None
        /\ \A n \in U : m_piData2[n] # None => F[n] < E[n]
        /\ Written(Used, Fst(z), Lst(z))'
             <=> /\ \A n \in Node \ U2 : d2[n] = None
                 /\ \A n \in U2 : d2[n] # None => F2[n] < E2[n]
    BY <1>8, <1>11, Rewritten
  <2>2. U2 = U \ {x}
    BY <2>1, <1>4, <1>11
  <2> QED BY <2>1, <2>2, <1>3, <1>4, <1>7, <1>10, <1>11
<1>14. Chain(U2, F2, E2, nx2, h, g, c, top)
  <2>1. Chain(U, F, E, nx, h, g, c, top)
    BY <1>3, <1>4, <1>8
  <2>2. x = nx[g] /\ x # None
    BY <1>1, <1>3, <1>4, <1>8
  <2>3. F[g] <= E2[g] /\ E2[g] < top
    BY <1>5, <1>7, <1>13
  <2>4. \A n \in U \ {x} : F2[n] = F[n] /\ (n # g => E2[n] = E[n] /\ nx2[n] = nx[n])
    BY <1>12, <1>13
  <2>5. Chain(U \ {x}, F2, E2, nx2, h, g, c, top)
    BY <2>1, <2>2, <2>3, <2>4, <1>3, <1>4, <1>12, <1>13, ChainMerged
  <2> QED BY <2>5, <1>13
<1>15. m_iLength' = Count(z, U2, F2, E2, g)
  <2>1. Chain(U, F, E, nx, h, g, c, top)
    BY <1>3, <1>4, <1>8
  <2>2. Count(z, U \ {x}, F2, E2, g) = Count(z, U, F, E, g) - (E[x] - F[x] + 1) + E2[g] - E[g]
    BY <2>1, <1>3, <1>4, <1>10, <1>13, CountMerged
  <2>3. m_iLength' = m_iLength - (IF E[x] > E[g] THEN E[g] - F[x] + 1 ELSE E[x] - F[x] + 1)
    <3>1. m_iLength' = m_iLength - (IF E[x] > E[g]
                                    THEN (IF E[g] >= F[x] THEN seqlen(m_piData1[x], m_piData2[g]) ELSE 0)
                                    ELSE seqlen(m_piData1[x], End(x)))
      BY <1>1, <1>3 DEF Coalesce
    <3>2. (IF E[g] >= F[x] THEN seqlen(m_piData1[x], m_piData2[g]) ELSE 0) = E[g] - F[x] + 1
      BY <1>3, <1>5
    <3> QED BY <3>1, <3>2, <1>3
  <2>4. m_iLength \in Int
    BY DEF LossTypes
  <2>5. m = (IF E[x] > E[g] THEN E[x] ELSE E[g])
    BY <1>6
  <2> QED BY <2>2, <2>3, <2>4, <2>5, <1>3, <1>5, <1>13
<1>16. losses' = Nums(z, U2, F2, E2)
  <2>1. \A s \in SeqNumbers : Off(z, s) \in Nat
    BY Basics
  <2>2. \A s \in SeqNumbers : (F[g] <= Off(z, s) /\ Off(z, s) <= m)
          <=> (F[g] <= Off(z, s) /\ Off(z, s) <= E[g]) \/ (F[x] <= Off(z, s) /\ Off(z, s) <= E[x])
    BY <2>1, <1>3, <1>5, <1>7
  <2>3. \A s \in SeqNumbers :
          (\E n \in U2 : F2[n] <= Off(z, s) /\ Off(z, s) <= E2[n])
            <=> (\E n \in U : F[n] <= Off(z, s) /\ Off(z, s) <= E[n])
    BY <2>2, <1>3, <1>10, <1>13
  <2>4. Nums(z, U2, F2, E2) = Nums(z, U, F, E)
    BY <2>3 DEF Nums
  <2> QED BY <2>4, <1>3, <1>9
<1>17. Written(Used, Fst(z), Lst(z))'
  <2>1. \A n \in Node \ U2 : d2[n] = None
    BY <1>11, <1>13
  <2>2. \A n \in U2 : d2[n] # None => F2[n] < E2[n]
    <3>1. F2[g] < E2[g]
      BY <1>3, <1>5, <1>7, <1>13
    <3> QED BY <3>1, <1>4, <1>11, <1>13
  <2> QED BY <2>1, <2>2, <1>13
<1>18. m_iLength' \in Int
  <2>1. m_iLength' = m_iLength - (IF E[x] > E[g]
                                  THEN (IF E[g] >= F[x] THEN seqlen(m_piData1[x], m_piData2[g]) ELSE 0)
                                  ELSE seqlen(m_piData1[x], End(x)))
    BY <1>1, <1>3 DEF Coalesce
  <2> QED BY <2>1, <1>3, <1>5 DEF LossTypes
<1>19. LossTypes'
  BY <1>8, <1>9, <1>11, <1>12, <1>18 DEF LossTypes
<1>20. Growing' = g /\ First' = h /\ Top(z)' = top
  BY <1>1, <1>2, <1>4, <1>8, <1>9 DEF Growing, First, Top
<1>21. ListOK(z, c, Used, Fst(z), Lst(z))'
  <2>1. CallOK(z, c, Used, Fst(z), Lst(z))'
    BY <1>1, <1>2, <1>3, <1>8, <1>9, <1>10, <1>13, <1>16 DEF CallOK, Idle, Coalescing
  <2>2. m_iLastInsertPos' \in U2 \cup {None}
    BY <1>3, <1>9, <1>10, <1>13
  <2> QED
    BY <2>1, <2>2, <1>3, <1>4, <1>8, <1>9, <1>14, <1>15, <1>17, <1>20 DEF ListOK
<1> QED
  BY <1>4, <1>19, <1>21 DEF LossListInv

\* The growing range has reached the last range, or a gap.
LEMMA CoalesceDoneOK ==
  ASSUME LossTypes, NEW z, NEW c, NEW U, NEW F, NEW E, NEW top, Reads(z, c, U, F, E, top),
         CoalesceDone
  PROVE  LossListInv'
<1>1. PICK g, x, nx, h : g = i /\ x = m_piNext[g] /\ nx = m_piNext /\ h = m_iHead
  OBVIOUS
<1>2. pc = "coalesce"
  BY DEF CoalesceDone
<1>3. /\ side = "snd" /\ z = lo /\ g \in U /\ Growing = g /\ First = h
      /\ m_iLastInsertPos = g /\ losses = Nums(z, U, F, E)
      /\ m_iLength = Count(z, U, F, E, g)
      /\ nx[g] = None \/ E[g] < F[nx[g]]
  BY <1>1, <1>2, CoalesceIs DEF CoalesceDone
<1>4. /\ z \in SeqNumbers /\ c \in Node /\ U \in SUBSET Node /\ None \notin U
      /\ top \in Nat /\ top <= Window /\ top <= m_iSize
      /\ top = Top(z) /\ Off(z, lo) <= top /\ Functions(F, E)
      /\ Chain(U, F, E, m_piNext, First, Growing, c, top)
  BY Basics DEF Reads
<1>5. /\ pc' = "idle" /\ i' = None /\ seqno1' = None /\ seqno2' = None
      /\ UNCHANGED <<m_piData1, m_piData2, m_piNext, m_piPrior>>
      /\ UNCHANGED <<m_iHead, m_iTail, m_iLength, m_iLastInsertPos, side, lo, hi, losses>>
  BY DEF CoalesceDone, Over, Loop, arrays, ends, window
<1>6. /\ Used' = U /\ Fst(z)' = F /\ Lst(z)' = E
      /\ Written(Used, Fst(z), Lst(z))'
  BY <1>5, ArraysKept
<1>7. Chain(U, F, E, nx, h, g, c, top)
  BY <1>1, <1>3, <1>4
<1>8. Chain(U, F, E, nx, h, None, c, top)
  BY <1>3, <1>4, <1>7, ChainSettled
<1>9. m_iLength' = Count(z, U, F, E, None)
  BY <1>3, <1>4, <1>5, <1>8, CountSettled
<1>10. LossTypes'
  BY <1>5 DEF LossTypes, Nodes, Numbers
<1>11. Growing' = None /\ First' = h /\ Top(z)' = top
  BY <1>1, <1>4, <1>5 DEF Growing, First, Top
<1>12. ListOK(z, c, Used, Fst(z), Lst(z))'
  <2>1. CallOK(z, c, Used, Fst(z), Lst(z))'
    BY <1>3, <1>5, <1>6 DEF CallOK, Idle
  <2> QED
    BY <2>1, <1>1, <1>3, <1>4, <1>5, <1>6, <1>8, <1>9, <1>11 DEF ListOK
<1> QED
  BY <1>4, <1>10, <1>12 DEF LossListInv
-------------------------------------------------------------------------------
(* What the calls that take numbers off write into the arrays *)

\* No call is making a range grow.
LEMMA AtRest ==
  ASSUME LossTypes, NEW z, NEW c, NEW U, NEW F, NEW E, NEW top, Reads(z, c, U, F, E, top),
         pc # "coalesce"
  PROVE  /\ Growing = None /\ m_iLength = Count(z, U, F, E, None) /\ m_iLength \in Nat
         /\ Chain(U, F, E, m_piNext, First, None, c, top)
         /\ \A m, n \in U : F[m] < F[n] => E[m] < F[n]
         /\ \A m, n \in U : F[m] = F[n] => m = n
<1>1. Growing = None
  BY DEF Growing
<1>2. m_iLength = Count(z, U, F, E, None) /\ m_iLength \in Nat
  BY <1>1, EmptyList DEF Reads, ListOK
<1>3. Chain(U, F, E, m_piNext, First, None, c, top)
  BY <1>1, Basics
<1>4. \A m, n \in U : F[m] < F[n] => E[m] < F[n]
  BY <1>3, Basics DEF Chain, Apart
<1>5. ASSUME NEW m \in U, NEW n \in U, F[m] = F[n] PROVE m = n
  <2>1. m = At(c, F[m]) /\ n = At(c, F[n])
    BY NodeIs
  <2> QED BY <2>1, <1>5
<1> QED
  BY <1>1, <1>2, <1>3, <1>4, <1>5

\* Inside a range there is a free place behind each number but its last.
LEMMA RestFree ==
  ASSUME LossTypes, NEW z, NEW c, NEW U, NEW F, NEW E, NEW top, Reads(z, c, U, F, E, top),
         pc # "coalesce", NEW n \in U, NEW o \in Nat, F[n] <= o, o < E[n]
  PROVE  /\ After(At(c, o)) = At(c, o + 1) /\ At(c, o + 1) \in Node /\ At(c, o + 1) \notin U
         /\ o + 1 \in Nat /\ o + 1 < top
<1>1. /\ c \in Node /\ U \subseteq Node /\ top \in Nat /\ top <= m_iSize /\ Functions(F, E) /\ m_iSize \in Nat
      /\ Chain(U, F, E, m_piNext, First, None, c, top)
  BY Basics, AtRest, Sizes
<1>2. F[n] \in Nat /\ E[n] \in Nat /\ E[n] < top
  BY NodeIs
<1>3. o + 1 \in Nat /\ o + 1 < top
  BY <1>1, <1>2
<1>4. After(At(c, o)) = At(c, o + 1) /\ At(c, o + 1) \in Node
  BY <1>3, PlaceBehind
<1>5. ASSUME NEW m \in U PROVE F[m] # o + 1
  <2>1. F[m] \in Nat /\ (F[n] < F[m] => E[n] < F[m])
    BY NodeIs, AtRest
  <2> QED BY <2>1, <1>2
<1>6. PICK p \in Nat : p = o + 1 /\ p < m_iSize
  BY <1>1, <1>3
<1>7. At(c, p) \notin U
  BY <1>1, <1>5, <1>6, FreePlace
<1> QED
  BY <1>3, <1>4, <1>6, <1>7

\* The range of n is taken away.
Dropped(n) ==
    /\ m_piData1' = [m_piData1 EXCEPT ![n] = None]
    /\ m_piData2' = [m_piData2 EXCEPT ![n] = None]

\* What the arrays hold when a range is dropped.
LEMMA RangeDropped ==
  ASSUME LossTypes, NEW z, NEW c, NEW U, NEW F, NEW E, NEW top, Reads(z, c, U, F, E, top),
         pc # "coalesce", NEW n \in U, Dropped(n)
  PROVE  /\ m_piData1' \in [Node -> Numbers] /\ m_piData2' \in [Node -> Numbers]
         /\ Used' = U \ {n} /\ Functions(Fst(z)', Lst(z)')
         /\ \A m \in U \ {n} : Fst(z)'[m] = F[m] /\ Lst(z)'[m] = E[m]
         /\ Written(Used, Fst(z), Lst(z))'
         /\ Count(z, Used', Fst(z)', Lst(z)', None) = Count(z, U, F, E, None) - (E[n] - F[n] + 1)
         /\ Nums(z, Used', Fst(z)', Lst(z)') = Nums(z, U, F, E) \ Between(z, F[n], E[n])
<1>1. /\ z \in SeqNumbers /\ c \in Node /\ U \in SUBSET Node /\ top \in Nat /\ top <= Window
      /\ Functions(F, E) /\ n \in Node
      /\ Chain(U, F, E, m_piNext, First, None, c, top)
  BY Basics, AtRest
<1>2. PICK d1, d2, U2, F2, E2, nx, h :
        /\ d1 = m_piData1' /\ d2 = m_piData2' /\ U2 = Used' /\ F2 = Fst(z)' /\ E2 = Lst(z)'
        /\ nx = m_piNext /\ h = First
  OBVIOUS
<1>3. /\ d1 \in [Node -> Numbers] /\ d2 \in [Node -> Numbers] /\ d1[n] = None /\ d2[n] = None
      /\ \A m \in Node : m # n => d1[m] = m_piData1[m] /\ d2[m] = m_piData2[m]
  BY <1>1, <1>2 DEF Dropped, LossTypes, Numbers
<1>4. /\ U2 \in SUBSET Node /\ Functions(F2, E2)
      /\ \A m \in Node : m \in U2 <=> d1[m] # None
      /\ \A m \in Node : m \in U <=> m_piData1[m] # None
      /\ \A m \in Node : d1[m] = m_piData1[m] => F2[m] = F[m]
      /\ \A m \in Node : d1[m] = m_piData1[m] /\ d2[m] = m_piData2[m] => E2[m] = E[m]
      /\ \A m \in Node \ U : m_piData2[m] = None
      /\ \A m \in U : m_piData2[m] # None => F[m] < E[m]
      /\ Written(Used, Fst(z), Lst(z))'
           <=> /\ \A m \in Node \ U2 : d2[m] = None
               /\ \A m \in U2 : d2[m] # None => F2[m] < E2[m]
  BY <1>2, <1>3, Rewritten
<1>5. U2 = U \ {n}
  BY <1>1, <1>3, <1>4
<1>6. \A m \in U \ {n} : F2[m] = F[m] /\ E2[m] = E[m]
  BY <1>1, <1>3, <1>4
<1>7. Written(Used, Fst(z), Lst(z))'
  <2>1. \A m \in Node \ U2 : d2[m] = None
    BY <1>3, <1>4, <1>5
  <2>2. \A m \in U2 : d2[m] # None => F2[m] < E2[m]
    BY <1>1, <1>3, <1>4, <1>5, <1>6
  <2> QED BY <2>1, <2>2, <1>4
<1>8. Count(z, U2, F2, E2, None) = Count(z, U, F, E, None) - (E[n] - F[n] + 1)
  <2>1. Chain(U, F, E, nx, h, None, c, top)
    BY <1>1, <1>2
  <2>2. Count(z, U \ {n}, F2, E2, None) = Count(z, U, F, E, None) - (E[n] - F[n] + 1)
    BY <2>1, <1>1, <1>6, CountWithout
  <2> QED BY <2>2, <1>5
<1>9. Nums(z, U2, F2, E2) = Nums(z, U, F, E) \ Between(z, F[n], E[n])
  <2>1. \A m \in U : F[m] \in Nat /\ E[m] \in Nat /\ F[m] <= E[m]
    BY NodeIs
  <2>2. \A m \in U \ {n} : E[m] < F[n] \/ E[n] < F[m]
    <3>1. \A m \in U \ {n} : F[m] < F[n] \/ F[n] < F[m]
      BY <2>1, AtRest
    <3> QED BY <3>1, AtRest
  <2>3. \A s \in SeqNumbers : Off(z, s) \in Nat
    BY Basics
  <2>4. ASSUME NEW s \in SeqNumbers
        PROVE  s \in Nums(z, U2, F2, E2) <=> s \in Nums(z, U, F, E) \ Between(z, F[n], E[n])
    BY <2>1, <2>2, <2>3, <1>5, <1>6 DEF Nums, Between
  <2> QED BY <2>4 DEF Nums
<1> QED
  BY <1>2, <1>3, <1>4, <1>5, <1>6, <1>7, <1>8, <1>9

\* The range of n loses its first number, and moves on to x.
MovedOn(n, x) ==
    /\ m_piData1' = [m_piData1 EXCEPT ![x] = incseq(m_piData1[n]), ![n] = None]
    /\ m_piData2' = [m_piData2 EXCEPT ![x] = Second(x, incseq(m_piData1[n]), m_piData2[n]), ![n] = None]

\* What they hold when a range loses its first number.
LEMMA RangeMovedOn ==
  ASSUME LossTypes, NEW z, NEW c, NEW U, NEW F, NEW E, NEW top, Reads(z, c, U, F, E, top),
         pc # "coalesce", NEW n \in U, m_piData2[n] # None, NEW x, x = After(n), MovedOn(n, x)
  PROVE  /\ x \in Node /\ x \notin U /\ x # n
         /\ m_piData1' \in [Node -> Numbers] /\ m_piData2' \in [Node -> Numbers]
         /\ Used' = (U \ {n}) \cup {x} /\ Functions(Fst(z)', Lst(z)')
         /\ Fst(z)'[x] = F[n] + 1 /\ Lst(z)'[x] = E[n] /\ F[n] + 1 <= E[n] /\ x = At(c, F[n] + 1)
         /\ \A m \in U \ {n} : Fst(z)'[m] = F[m] /\ Lst(z)'[m] = E[m]
         /\ Written(Used, Fst(z), Lst(z))'
         /\ Nums(z, Used', Fst(z)', Lst(z)') = Nums(z, U, F, E) \ {m_piData1[n]}
<1>1. /\ z \in SeqNumbers /\ c \in Node /\ U \in SUBSET Node /\ top \in Nat /\ top <= Window
      /\ Functions(F, E) /\ n \in Node /\ Window \in Nat
  BY Basics, AtRest, Sizes
<1>2. /\ n = At(c, F[n]) /\ m_piData1[n] \in SeqNumbers
      /\ F[n] = Off(z, m_piData1[n]) /\ E[n] = Off(z, m_piData2[n])
      /\ F[n] \in Nat /\ E[n] \in Nat /\ F[n] < E[n] /\ E[n] < top /\ m_piData2[n] \in SeqNumbers
  BY NodeIs
<1>3. x = At(c, F[n] + 1) /\ x \in Node /\ x \notin U /\ x # n
  <2>1. PICK o \in Nat : o = F[n]
    BY <1>2
  <2>2. /\ After(At(c, o)) = At(c, o + 1) /\ At(c, o + 1) \in Node /\ At(c, o + 1) \notin U
    BY <2>1, <1>2, RestFree
  <2> QED BY <2>1, <2>2, <1>2
<1>4. PICK a, b : a = incseq(m_piData1[n]) /\ b = m_piData2[n]
  OBVIOUS
<1>5. a \in SeqNumbers /\ Off(z, a) = F[n] + 1 /\ b \in SeqNumbers /\ Off(z, b) = E[n] /\ a # None
  <2>1. Off(z, m_piData1[n]) <= Window
    BY <1>1, <1>2
  <2> QED BY <2>1, <1>1, <1>2, <1>4, NextNumber DEF SeqNumbers, None
<1>6. PICK e : e = Second(x, a, b)
  OBVIOUS
<1>7. PICK d1, d2, U2, F2, E2 :
        /\ d1 = m_piData1' /\ d2 = m_piData2' /\ U2 = Used' /\ F2 = Fst(z)' /\ E2 = Lst(z)'
  OBVIOUS
<1>8. e \in Numbers /\ (e = None => a = b) /\ (e # None => e = b /\ Off(z, a) < Off(z, b))
  <2>1. m_piData2[x] = None
    BY <1>3 DEF Reads, ListOK, Written
  <2>2. Off(z, a) <= Off(z, b) /\ Off(z, b) <= Window
    BY <1>1, <1>2, <1>5
  <2> QED BY <2>1, <2>2, <1>1, <1>3, <1>5, <1>6, SecondIs
<1>9. /\ d1 \in [Node -> Numbers] /\ d2 \in [Node -> Numbers]
      /\ d1[n] = None /\ d2[n] = None /\ d1[x] = a /\ d2[x] = e
      /\ \A m \in Node : m # n /\ m # x => d1[m] = m_piData1[m] /\ d2[m] = m_piData2[m]
  BY <1>1, <1>3, <1>4, <1>5, <1>6, <1>7, <1>8 DEF MovedOn, LossTypes, Numbers
<1>10. /\ U2 \in SUBSET Node /\ Functions(F2, E2)
       /\ \A m \in Node : m \in U2 <=> d1[m] # None
       /\ \A m \in Node : m \in U <=> m_piData1[m] # None
       /\ \A m \in Node : F2[m] = Off(z, d1[m])
       /\ \A m \in Node : d2[m] = None => E2[m] = Off(z, d1[m])
       /\ \A m \in Node : d2[m] # None => E2[m] = Off(z, d2[m])
       /\ \A m \in Node : d1[m] = m_piData1[m] => F2[m] = F[m]
       /\ \A m \in Node : d1[m] = m_piData1[m] /\ d2[m] = m_piData2[m] => E2[m] = E[m]
       /\ \A m \in Node \ U : m_piData2[m] = None
       /\ \A m \in U : m_piData2[m] # None => F[m] < E[m]
       /\ Written(Used, Fst(z), Lst(z))'
            <=> /\ \A m \in Node \ U2 : d2[m] = None
                /\ \A m \in U2 : d2[m] # None => F2[m] < E2[m]
  BY <1>7, <1>9, Rewritten
<1>11. U2 = (U \ {n}) \cup {x}
  BY <1>1, <1>3, <1>5, <1>9, <1>10
<1>12. F2[x] = F[n] + 1 /\ E2[x] = E[n]
  BY <1>3, <1>5, <1>8, <1>9, <1>10
<1>13. \A m \in U \ {n} : F2[m] = F[m] /\ E2[m] = E[m]
  BY <1>1, <1>3, <1>9, <1>10
<1>14. Written(Used, Fst(z), Lst(z))'
  <2>1. \A m \in Node \ U2 : d2[m] = None
    BY <1>9, <1>10, <1>11
  <2>2. \A m \in U2 : d2[m] # None => F2[m] < E2[m]
    BY <1>1, <1>3, <1>5, <1>8, <1>9, <1>10, <1>11, <1>12, <1>13
  <2> QED BY <2>1, <2>2, <1>10
<1>15. Nums(z, U2, F2, E2) = Nums(z, U, F, E) \ {m_piData1[n]}
  <2>1. \A m \in U : F[m] \in Nat /\ E[m] \in Nat /\ F[m] <= E[m]
    BY NodeIs
  <2>2. \A m \in U \ {n} : E[m] < F[n] \/ E[n] < F[m]
    <3>1. \A m \in U \ {n} : F[m] < F[n] \/ F[n] < F[m]
      BY <2>1, AtRest
    <3> QED BY <3>1, AtRest
  <2>3. \A s \in SeqNumbers : Off(z, s) \in Nat /\ (Off(z, s) = F[n] <=> s = m_piData1[n])
    BY Basics, <1>1, <1>2, SameOffset
  <2>4. ASSUME NEW s \in SeqNumbers
        PROVE  s \in Nums(z, U2, F2, E2) <=> s \in Nums(z, U, F, E) \ {m_piData1[n]}
    <3>1. s \in Nums(z, U2, F2, E2)
            <=> \/ \E m \in U \ {n} : F[m] <= Off(z, s) /\ Off(z, s) <= E[m]
                \/ F[n] + 1 <= Off(z, s) /\ Off(z, s) <= E[n]
      BY <1>11, <1>12, <1>13 DEF Nums
    <3>2. s \in Nums(z, U, F, E)
            <=> \/ \E m \in U \ {n} : F[m] <= Off(z, s) /\ Off(z, s) <= E[m]
                \/ F[n] <= Off(z, s) /\ Off(z, s) <= E[n]
      BY DEF Nums
    <3>3. (\E m \in U \ {n} : F[m] <= Off(z, s) /\ Off(z, s) <= E[m]) => Off(z, s) # F[n]
      BY <2>1, <2>2, <2>3
    <3> QED BY <3>1, <3>2, <3>3, <2>1, <2>3
  <2> QED BY <2>4 DEF Nums
<1>16. F[n] + 1 <= E[n]
  BY <1>2
<1>17. d1 \in [Node -> Numbers] /\ d2 \in [Node -> Numbers] /\ Functions(F2, E2)
  BY <1>9, <1>10
<1> QED
  BY <1>3, <1>7, <1>11, <1>12, <1>13, <1>14, <1>15, <1>16, <1>17

\* The range of p is cut: up to q it stays, and from behind s on it gets a node of its own.
SplitUp(p, s, x, w) ==
    /\ m_piData1' = [m_piData1 EXCEPT ![x] = incseq(s)]
    /\ m_piData2' = [m_piData2 EXCEPT ![x] = Second(x, incseq(s), End(p)), ![p] = w]

\* What they hold when a range is cut in two.
LEMMA RangeSplitUp ==
  ASSUME LossTypes, NEW z, NEW c, NEW U, NEW F, NEW E, NEW top, Reads(z, c, U, F, E, top),
         pc # "coalesce", NEW p \in U, NEW s \in SeqNumbers, F[p] <= Off(z, s), Off(z, s) < E[p],
         NEW x, x = After(At(c, Off(z, s))),
         NEW w \in Numbers, NEW q \in Nat, F[p] <= q, q <= Off(z, s),
         w = None => q = F[p], w # None => Off(z, w) = q /\ F[p] < q,
         SplitUp(p, s, x, w)
  PROVE  /\ x \in Node /\ x \notin U /\ x = At(c, Off(z, s) + 1)
         /\ m_piData1' \in [Node -> Numbers] /\ m_piData2' \in [Node -> Numbers]
         /\ Used' = U \cup {x} /\ Functions(Fst(z)', Lst(z)')
         /\ Fst(z)'[x] = Off(z, s) + 1 /\ Lst(z)'[x] = E[p] /\ Lst(z)'[p] = q
         /\ \A m \in U : Fst(z)'[m] = F[m] /\ (m # p => Lst(z)'[m] = E[m])
         /\ Written(Used, Fst(z), Lst(z))'
<1>1. /\ z \in SeqNumbers /\ c \in Node /\ U \in SUBSET Node /\ top \in Nat /\ top <= Window
      /\ Functions(F, E) /\ p \in Node /\ Window \in Nat
  BY Basics, AtRest, Sizes
<1>2. /\ m_piData1[p] \in SeqNumbers /\ End(p) \in SeqNumbers
      /\ F[p] = Off(z, m_piData1[p]) /\ E[p] = Off(z, End(p))
      /\ F[p] \in Nat /\ E[p] \in Nat /\ E[p] < top
  BY NodeIs
<1>3. PICK o \in Nat : o = Off(z, s)
  BY <1>1, OffsetIs
<1>4. x = At(c, o + 1) /\ x \in Node /\ x \notin U /\ x # p
  BY <1>3, RestFree
<1>5. PICK a, b : a = incseq(s) /\ b = End(p)
  OBVIOUS
<1>6. a \in SeqNumbers /\ Off(z, a) = o + 1 /\ b \in SeqNumbers /\ Off(z, b) = E[p] /\ a # None
  <2>1. Off(z, s) <= Window
    BY <1>1, <1>2, <1>3
  <2> QED BY <2>1, <1>1, <1>2, <1>3, <1>5, NextNumber DEF SeqNumbers, None
<1>7. PICK e : e = Second(x, a, b)
  OBVIOUS
<1>8. PICK d1, d2, U2, F2, E2 :
        /\ d1 = m_piData1' /\ d2 = m_piData2' /\ U2 = Used' /\ F2 = Fst(z)' /\ E2 = Lst(z)'
  OBVIOUS
<1>9. e \in Numbers /\ (e = None => a = b) /\ (e # None => e = b /\ Off(z, a) < Off(z, b))
  <2>1. m_piData2[x] = None
    BY <1>4 DEF Reads, ListOK, Written
  <2>2. Off(z, a) <= Off(z, b) /\ Off(z, b) <= Window
    BY <1>1, <1>2, <1>3, <1>6
  <2> QED BY <2>1, <2>2, <1>1, <1>4, <1>6, <1>7, SecondIs
<1>10. /\ d1 \in [Node -> Numbers] /\ d2 \in [Node -> Numbers]
       /\ d1[p] = m_piData1[p] /\ d2[p] = w /\ d1[x] = a /\ d2[x] = e
       /\ \A m \in Node : m # x => d1[m] = m_piData1[m] /\ (m # p => d2[m] = m_piData2[m])
  BY <1>1, <1>4, <1>5, <1>6, <1>7, <1>8, <1>9 DEF SplitUp, LossTypes, Numbers
<1>11. /\ U2 \in SUBSET Node /\ Functions(F2, E2)
       /\ \A m \in Node : m \in U2 <=> d1[m] # None
       /\ \A m \in Node : m \in U <=> m_piData1[m] # None
       /\ \A m \in Node : F2[m] = Off(z, d1[m])
       /\ \A m \in Node : d2[m] = None => E2[m] = Off(z, d1[m])
       /\ \A m \in Node : d2[m] # None => E2[m] = Off(z, d2[m])
       /\ \A m \in Node : d1[m] = m_piData1[m] => F2[m] = F[m]
       /\ \A m \in Node : d1[m] = m_piData1[m] /\ d2[m] = m_piData2[m] => E2[m] = E[m]
       /\ \A m \in Node \ U : m_piData2[m] = None
       /\ \A m \in U : m_piData2[m] # None => F[m] < E[m]
       /\ Written(Used, Fst(z), Lst(z))'
            <=> /\ \A m \in Node \ U2 : d2[m] = None
                /\ \A m \in U2 : d2[m] # None => F2[m] < E2[m]
  BY <1>8, <1>10, Rewritten
<1>12. U2 = U \cup {x}
  BY <1>1, <1>4, <1>6, <1>10, <1>11
<1>13. F2[x] = o + 1 /\ E2[x] = E[p] /\ E2[p] = q /\ F2[p] = F[p]
  <2>1. F2[x] = o + 1 /\ E2[x] = E[p]
    BY <1>4, <1>6, <1>9, <1>10, <1>11
  <2>2. F2[p] = F[p] /\ E2[p] = q
    BY <1>1, <1>2, <1>10, <1>11
  <2> QED BY <2>1, <2>2
<1>14. \A m \in U : F2[m] = F[m] /\ (m # p => E2[m] = E[m])
  BY <1>1, <1>4, <1>10, <1>11
<1>15. Written(Used, Fst(z), Lst(z))'
  <2>1. \A m \in Node \ U2 : d2[m] = None
    BY <1>10, <1>11, <1>12
  <2>2. \A m \in U2 : d2[m] # None => F2[m] < E2[m]
    <3>1. d2[x] # None => F2[x] < E2[x]
      BY <1>6, <1>9, <1>10, <1>13
    <3>2. d2[p] # None => F2[p] < E2[p]
      BY <1>10, <1>13
    <3>3. \A m \in U : m # p => (d2[m] # None => F2[m] < E2[m])
      BY <1>1, <1>4, <1>10, <1>11, <1>14
    <3> QED BY <3>1, <3>2, <3>3, <1>12
  <2> QED BY <2>1, <2>2, <1>11
<1> QED
  BY <1>3, <1>4, <1>8, <1>10, <1>11, <1>12, <1>13, <1>14, <1>15
-------------------------------------------------------------------------------
(* CSndLossList::remove() *)

\* A call is over, or does nothing, and the window begins with y from here on.
LEMMA RebasedOK ==
  ASSUME LossTypes, NEW z, NEW c, NEW U, NEW F, NEW E, NEW top, Reads(z, c, U, F, E, top),
         pc # "coalesce", First = m_iHead,
         NEW y \in SeqNumbers, Off(z, y) <= top, \A n \in U : Off(z, y) <= F[n],
         hi = None => y = 0,
         UNCHANGED <<m_piData1, m_piData2, m_piNext, m_piPrior>>,
         UNCHANGED <<m_iHead, m_iTail, m_iLength, m_iLastInsertPos, side, hi>>,
         pc' = "idle", i' \in Nodes, seqno1' \in Numbers, seqno2' \in Numbers,
         lo' = y, losses' = Nums(z, U, F, E)
  PROVE  LossListInv'
<1>1. /\ z \in SeqNumbers /\ c \in Node /\ U \in SUBSET Node /\ None \notin U
      /\ top \in Nat /\ top <= Window /\ top <= m_iSize
      /\ top = Off(z, incseq(hi)) /\ Functions(F, E)
      /\ \A s \in SeqNumbers : Off(z, s) \in Nat
  BY Basics
<1>2. /\ Growing = None /\ m_iLength = Count(z, U, F, E, None)
      /\ Chain(U, F, E, m_piNext, First, None, c, top)
  BY AtRest
<1>3. PICK d \in Nat : d = Off(z, y)
  BY <1>1
<1>4. PICK top2 : top2 = Off(y, incseq(hi))
  OBVIOUS
<1>5. top2 \in Nat /\ top2 = top - d /\ top2 <= Window /\ top <= d + top2
  <2>1. incseq(hi) \in SeqNumbers
    BY BehindLast
  <2>2. top2 \in Nat
    BY <2>1, <1>4, OffsetIs
  <2>3. top2 = top - d
    BY <2>1, <1>1, <1>3, <1>4, Rebased
  <2> QED BY <2>2, <2>3, <1>1, <1>3, Sizes
<1>6. PICK c2 \in Node : c2 = At(c, d)
  BY <1>1, <1>3, Sizes DEF At, Node
<1>7. PICK U2, F2, E2, nx, h, d1, d2 :
        /\ U2 = Used' /\ F2 = Fst(y)' /\ E2 = Lst(y)' /\ nx = m_piNext /\ h = m_iHead
        /\ d1 = m_piData1 /\ d2 = m_piData2
  OBVIOUS
<1>8. /\ U2 = UsedOf(d1) /\ F2 = FirstsOf(y, d1) /\ E2 = LastsOf(y, d1, d2)
      /\ U = UsedOf(d1) /\ F = FirstsOf(z, d1) /\ E = LastsOf(z, d1, d2)
      /\ d1 \in [Node -> Numbers] /\ d2 \in [Node -> Numbers]
      /\ Written(U, F, E) /\ d1 = m_piData1' /\ d2 = m_piData2'
  BY <1>7, ReadingNow DEF Reads, ListOK, LossTypes
<1>9. Functions(F2, E2) /\ U2 = U
  BY <1>8, ReadingIs
<1>10. \A n \in U : /\ d <= F[n] /\ F2[n] = F[n] - d /\ E2[n] = E[n] - d
                    /\ Off(z, y) <= F[n] /\ E[n] <= Window
                    /\ F2[n] = F[n] - Off(z, y) /\ E2[n] = E[n] - Off(z, y)
  <2>1. TAKE n \in U
  <2>2. /\ n \in Node /\ m_piData1[n] \in SeqNumbers /\ End(n) \in SeqNumbers
        /\ F[n] = Off(z, m_piData1[n]) /\ E[n] = Off(z, End(n))
        /\ F[n] \in Nat /\ E[n] \in Nat /\ F[n] <= E[n] /\ E[n] < top
    BY NodeIs
  <2>3. EndOf(d1, d2, n) = End(n)
    BY <1>7 DEF EndOf, End
  <2>4. F2[n] = Off(y, m_piData1[n]) /\ E2[n] = Off(y, End(n))
    BY <2>2, <2>3, <1>7, <1>8 DEF FirstsOf, LastsOf
  <2>5. F2[n] = F[n] - Off(z, y)
    BY <2>2, <2>4, <1>1, Rebased
  <2>6. Off(z, y) <= Off(z, End(n))
    BY <2>2, <1>1
  <2>7. E2[n] = E[n] - Off(z, y)
    BY <2>2, <2>4, <2>6, <1>1, Rebased
  <2>8. E[n] <= Window
    BY <2>2, <1>1, Sizes
  <2> QED BY <2>5, <2>7, <2>8, <1>3
<1>11. Chain(U, F2, E2, nx, h, None, c2, top2)
  <2>1. Chain(U, F, E, nx, h, None, c, top)
    BY <1>2, <1>7
  <2>2. \A n \in U : d <= F[n] /\ F2[n] = F[n] - d /\ E2[n] = E[n] - d
    BY <1>10
  <2>3. Chain(U, F2, E2, nx, h, None, At(c, d), top2)
    BY <2>1, <2>2, <1>1, <1>5, <1>9, ChainRebased
  <2> QED BY <2>3, <1>6
<1>12. Nums(y, U, F2, E2) = Nums(z, U, F, E)
  BY <1>1, <1>9, <1>10, NumsRebased
<1>13. m_iLength' = Count(y, U, F2, E2, None)
  <2>1. m_iLength = Cardinality(Nums(z, U, F, E))
    BY <1>1, <1>2, CountWhole
  <2>2. Count(y, U, F2, E2, None) = Cardinality(Nums(y, U, F2, E2))
    BY <1>1, CountWhole
  <2> QED BY <2>1, <2>2, <1>12
<1>14. LossTypes'
  <2>1. losses' \subseteq SeqNumbers
    BY DEF Nums
  <2> QED BY <2>1 DEF LossTypes
<1>15. Growing' = None /\ First' = h /\ Top(y)' = top2
  BY <1>4, <1>7 DEF Growing, First, Top
<1>16. Off(y, lo') = 0
  BY Sizes DEF Off, SeqNumbers
<1>17. Written(Used, Fst(y), Lst(y))'
  <2>1. \A n \in Node \ U : d2[n] = None
    BY <1>7, <1>8 DEF Written
  <2>2. \A n \in U : d2[n] # None => F2[n] < E2[n]
    <3>1. TAKE n \in U
    <3>2. F[n] \in Nat /\ E[n] \in Nat
      BY NodeIs
    <3> QED BY <3>2, <1>3, <1>7, <1>8, <1>10 DEF Written
  <2> QED BY <2>1, <2>2, <1>7, <1>8, <1>9 DEF Written
<1>18. ListOK(y, c2, Used, Fst(y), Lst(y))'
  <2>1. CallOK(y, c2, Used, Fst(y), Lst(y))'
    BY <1>7, <1>9, <1>12 DEF CallOK, Idle
  <2>2. side' = "rcv" => RcvLinks(Used)'
    <3>1. side = "rcv" => RcvLinks(U)
      BY DEF Reads, ListOK
    <3>2. side = "rcv" => RcvLinks(U)'
      BY <3>1 DEF RcvLinks
    <3> QED BY <3>2, <1>7, <1>9 DEF RcvLinks
  <2>3. side' = "snd" => m_iLastInsertPos' \in Used' \cup {None}
    BY <1>7, <1>9 DEF Reads, ListOK
  <2>4. Chain(Used', Fst(y)', Lst(y)', m_piNext', First', Growing', c2, Top(y)')
    BY <1>7, <1>9, <1>11, <1>15
  <2>5. m_iLength' = Count(y, Used', Fst(y)', Lst(y)', Growing')
    BY <1>7, <1>9, <1>13, <1>15
  <2>6. Top(y)' <= Window /\ Off(y, lo)' <= Top(y)'
    BY <1>5, <1>15, <1>16
  <2> QED
    BY <2>1, <2>2, <2>3, <2>4, <2>5, <2>6, <1>17 DEF ListOK
<1> QED
  BY <1>6, <1>14, <1>18 DEF LossListInv

\* What an ACK of the numbers up to s leaves.
RemoveStep(z, U, F, E, s) ==
    /\ side = "snd" /\ UNCHANGED <<side, hi>>
    /\ s \in SeqNumbers /\ Off(z, s) < Top(z)
    /\ lo' = incseq(s) /\ (hi = None => lo' = 0)
    /\ losses' = {t \in Nums(z, U, F, E) : Off(z, s) < Off(z, t)}

\* What a removal from the sender's list begins with.
LEMMA RemoveStarts ==
  ASSUME LossTypes, NEW z, NEW c, NEW U, NEW F, NEW E, NEW top, Reads(z, c, U, F, E, top),
         pc = "idle" \/ pc = "find", NEW s, RemoveStep(z, U, F, E, s)
  PROVE  /\ s \in SeqNumbers /\ Off(z, s) \in Nat /\ Off(z, s) < top /\ Off(z, s) < Window
         /\ incseq(s) \in SeqNumbers /\ Off(z, incseq(s)) = Off(z, s) + 1
         /\ Off(z, s) + 1 <= top
<1>1. s \in SeqNumbers /\ Off(z, s) < top
  BY DEF RemoveStep, Reads
<1>2. /\ z \in SeqNumbers /\ Off(z, s) \in Nat /\ top \in Nat /\ top <= Window /\ Window \in Nat
  BY <1>1, Basics, Sizes
<1>3. Off(z, s) <= Window
  BY <1>1, <1>2
<1>4. incseq(s) \in SeqNumbers /\ Off(z, incseq(s)) = Off(z, s) + 1
  BY <1>1, <1>2, <1>3, NextNumber
<1> QED
  BY <1>1, <1>2, <1>4

\* A removal that finds nothing to remove.
LEMMA RemoveNothingOK ==
  ASSUME LossTypes, NEW z, NEW c, NEW U, NEW F, NEW E, NEW top, Reads(z, c, U, F, E, top),
         pc = "idle", z = lo, NEW s, RemoveStep(z, U, F, E, s), RemoveNothing(s)
  PROVE  LossListInv'
<1>1. /\ s \in SeqNumbers /\ Off(z, s) \in Nat /\ Off(z, s) < top /\ Off(z, s) < Window
      /\ incseq(s) \in SeqNumbers /\ Off(z, incseq(s)) = Off(z, s) + 1
      /\ Off(z, s) + 1 <= top
  BY RemoveStarts
<1>2. \A n \in U : F[n] \in Nat /\ E[n] \in Nat /\ Off(z, s) < F[n]
  <2>1. TAKE n \in U
  <2>2. F[n] \in Nat /\ E[n] \in Nat
    BY NodeIs
  <2>3. U # {} /\ pc # "clear" /\ pc # "coalesce"
    OBVIOUS
  <2>4. m_iLength > 0
    BY <2>3, EmptyList
  <2>5. seqoff(m_piData1[m_iHead], s) = Off(z, s) - F[m_iHead]
    BY <2>3, <1>1, PlaceIs
  <2>6. m_iHead \in U /\ F[m_iHead] <= F[n]
    BY <2>3, HeadIs
  <2>7. F[m_iHead] \in Nat
    BY <2>6, NodeIs
  <2> QED BY <2>2, <2>4, <2>5, <2>6, <2>7, <1>1 DEF RemoveNothing
<1>3. PICK y \in SeqNumbers : y = incseq(s)
  BY <1>1
<1>4. /\ UNCHANGED <<m_piData1, m_piData2, m_piNext, m_piPrior>>
      /\ UNCHANGED <<m_iHead, m_iTail, m_iLength, m_iLastInsertPos, side, hi>>
      /\ UNCHANGED <<pc, i, seqno1, seqno2>>
  BY DEF RemoveNothing, RemoveStep, arrays, ends, callVars
<1>5. losses' = Nums(z, U, F, E)
  <2>1. \A t \in SeqNumbers : Off(z, t) \in Nat
    BY Basics
  <2>2. \A t \in Nums(z, U, F, E) : Off(z, s) < Off(z, t)
    BY <2>1, <1>1, <1>2 DEF Nums
  <2> QED BY <2>2 DEF RemoveStep
<1>6. Off(z, y) <= top /\ \A n \in U : Off(z, y) <= F[n]
  BY <1>1, <1>2, <1>3
<1>8. /\ pc' = "idle" /\ i' \in Nodes /\ seqno1' \in Numbers /\ seqno2' \in Numbers
      /\ lo' = y /\ First = m_iHead /\ pc # "coalesce" /\ (hi = None => y = 0)
  BY <1>3, <1>4 DEF LossTypes, RemoveStep, First
<1> QED
  BY <1>4, <1>5, <1>6, <1>8, RebasedOK

\* The range at n is the last one that begins with s or before it.
LEMMA CutOK ==
  ASSUME LossTypes, NEW z, NEW c, NEW U, NEW F, NEW E, NEW top, Reads(z, c, U, F, E, top),
         pc = "idle" \/ pc = "find", NEW s, RemoveStep(z, U, F, E, s),
         NEW n \in U, F[n] <= Off(z, s), \A m \in U : F[m] <= F[n] \/ Off(z, s) < F[m],
         Cut(n, s)
  PROVE  LossListInv'
<1>1. /\ s \in SeqNumbers /\ Off(z, s) \in Nat /\ Off(z, s) < top /\ Off(z, s) < Window
      /\ incseq(s) \in SeqNumbers /\ Off(z, incseq(s)) = Off(z, s) + 1
      /\ Off(z, s) + 1 <= top
  BY RemoveStarts
<1>2. PICK o \in Nat : o = Off(z, s)
  BY <1>1
<1>3. /\ z \in SeqNumbers /\ c \in Node /\ U \in SUBSET Node /\ None \notin U
      /\ top \in Nat /\ top <= Window /\ top <= m_iSize
      /\ top = Top(z) /\ Functions(F, E) /\ Window \in Nat
      /\ \A t \in SeqNumbers : Off(z, t) \in Nat
  BY Basics, Sizes DEF Reads
<1>4. /\ m_iLength = Count(z, U, F, E, None) /\ m_iLength \in Nat
      /\ Chain(U, F, E, m_piNext, First, None, c, top)
      /\ \A m, k \in U : F[m] < F[k] => E[m] < F[k]
      /\ \A m, k \in U : F[m] = F[k] => m = k
      /\ First = m_iHead /\ pc # "clear" /\ U # {} /\ pc # "coalesce"
  BY AtRest DEF First
<1>5. /\ n \in Node /\ m_piData1[n] \in SeqNumbers /\ End(n) \in SeqNumbers
      /\ F[n] = Off(z, m_piData1[n]) /\ E[n] = Off(z, End(n))
      /\ F[n] \in Nat /\ E[n] \in Nat /\ F[n] <= E[n] /\ E[n] < top
  BY NodeIs
<1>6. seqcmp(End(n), s) > 0 <=> o < E[n]
  <2>1. Off(z, End(n)) <= Window /\ Off(z, s) <= Window
    BY <1>1, <1>3, <1>5
  <2> QED BY <2>1, <1>1, <1>2, <1>3, <1>5, Compared
<1>7. Place(s) = At(c, o)
  BY <1>1, <1>2, <1>4, PlaceIs
<1>8. /\ pc' = "clear" /\ i' = m_iHead /\ seqno1' = None /\ seqno2' = None
      /\ UNCHANGED <<m_piPrior, m_iTail, m_iLength, m_iLastInsertPos, side, hi>>
      /\ lo' = incseq(s) /\ side = "snd" /\ (hi = None => lo' = 0)
      /\ losses' = {t \in Nums(z, U, F, E) : o < Off(z, t)}
  BY <1>2 DEF Cut, Loop, RemoveStep
<1>9. m_iHead \in U
  BY <1>4, HeadIs
<1>10. PICK d1, d2, U2, F2, E2, nx, nx2, h :
         /\ d1 = m_piData1' /\ d2 = m_piData2' /\ U2 = Used' /\ F2 = Fst(z)' /\ E2 = Lst(z)'
         /\ nx = m_piNext /\ nx2 = m_piNext' /\ h = m_iHead
  OBVIOUS
<1>11. nx \in [Node -> Nodes \cup {Unset}] /\ nx[n] \in Nodes
  BY <1>3, <1>4, <1>5, <1>10 DEF LossTypes, Chain, Follows, Nodes
<1>12. Top(z)' = top /\ First' = h /\ Growing' = None /\ Off(z, lo') = o + 1 /\ Off(z, lo') <= top
  BY <1>1, <1>2, <1>3, <1>8, <1>10 DEF Top, First, Growing
<1>13. \A m \in U : F[m] \in Nat /\ E[m] \in Nat /\ F[m] <= E[m]
  BY NodeIs
<1>14. \A m \in U : m = n \/ E[m] < F[n] \/ o < F[m]
  <2>1. TAKE m \in U
  <2>2. F[m] < F[n] \/ F[m] = F[n] \/ o < F[m]
    BY <1>2, <1>5, <1>13
  <2> QED BY <2>2, <1>4
<1>15. CASE o < E[n]
  <2>1. PICK x, w : x = After(Place(s)) /\ w = IF m_piData1[n] = s THEN None ELSE s
    OBVIOUS
  <2>2. /\ d1 = [m_piData1 EXCEPT ![x] = incseq(s)]
        /\ d2 = [m_piData2 EXCEPT ![x] = Second(x, incseq(s), End(n)), ![n] = w]
        /\ nx2 = [nx EXCEPT ![x] = nx[n], ![n] = x]
        /\ m_iHead' = x
    BY <2>1, <1>6, <1>10, <1>15 DEF Cut
  <2>3. x = After(At(c, Off(z, s))) /\ F[n] <= Off(z, s) /\ Off(z, s) < E[n]
    BY <2>1, <1>2, <1>7, <1>15
  <2>4. w \in Numbers /\ (w = None => o = F[n]) /\ (w # None => Off(z, w) = o /\ F[n] < o)
    <3>1. m_piData1[n] = s => o = F[n]
      BY <1>2, <1>5
    <3>2. m_piData1[n] # s => F[n] < o
      <4>1. F[n] = o => m_piData1[n] = s
        BY <1>1, <1>2, <1>3, <1>5, SameOffset
      <4> QED BY <4>1, <1>2, <1>5
    <3>3. CASE m_piData1[n] = s
      BY <3>1, <3>3, <2>1 DEF Numbers
    <3>4. CASE m_piData1[n] # s
      <4>1. w = s
        BY <3>4, <2>1
      <4> QED BY <4>1, <3>2, <3>4, <1>1, <1>2 DEF Numbers, SeqNumbers, None
    <3> QED BY <3>3, <3>4
  <2>5. SplitUp(n, s, x, w)
    BY <2>2, <1>10 DEF SplitUp
  <2>6. /\ x \in Node /\ x \notin U /\ x = At(c, o + 1)
        /\ m_piData1' \in [Node -> Numbers] /\ m_piData2' \in [Node -> Numbers]
        /\ U2 = U \cup {x} /\ Functions(F2, E2)
        /\ F2[x] = o + 1 /\ E2[x] = E[n] /\ E2[n] = o
        /\ \A m \in U : F2[m] = F[m] /\ (m # n => E2[m] = E[m])
        /\ Written(Used, Fst(z), Lst(z))'
    <3>1. /\ x \in Node /\ x \notin U /\ x = At(c, Off(z, s) + 1)
          /\ m_piData1' \in [Node -> Numbers] /\ m_piData2' \in [Node -> Numbers]
          /\ Used' = U \cup {x} /\ Functions(Fst(z)', Lst(z)')
          /\ Fst(z)'[x] = Off(z, s) + 1 /\ Lst(z)'[x] = E[n] /\ Lst(z)'[n] = o
          /\ \A m \in U : Fst(z)'[m] = F[m] /\ (m # n => Lst(z)'[m] = E[m])
          /\ Written(Used, Fst(z), Lst(z))'
      <4>1. F[n] <= o /\ o <= Off(z, s) /\ o \in Nat /\ s \in SeqNumbers
        BY <2>3, <1>1, <1>2
      <4> QED BY <4>1, <2>3, <2>4, <2>5, <1>4, RangeSplitUp
    <3> QED BY <3>1, <1>2, <1>10
  <2>7. /\ nx2 \in [Node -> Nodes \cup {Unset}] /\ nx2[n] = x /\ nx2[x] = nx[n]
        /\ \A m \in U : m # n => nx2[m] = nx[m]
    BY <2>2, <2>6, <1>3, <1>5, <1>11 DEF Nodes
  <2>14. Halved(U, F, E, nx, F2, E2, nx2, n, x)
    <3>1. F[n] <= E2[n] /\ E2[n] < F2[x] /\ F2[x] <= E[n] /\ E2[x] = E[n]
      BY <2>3, <2>6, <1>2, <1>5, <1>15
    <3>2. \A m \in U : F2[m] = F[m] /\ (m # n => E2[m] = E[m] /\ nx2[m] = nx[m])
      BY <2>6, <2>7
    <3> QED BY <3>1, <3>2, <2>6, <2>7 DEF Halved
  <2>8. Chain(U \cup {x}, F2, E2, nx2, h, None, c, top)
    <3>1. Chain(U, F, E, nx, h, None, c, top)
      BY <1>4, <1>10
    <3>2. x = At(c, F2[x]) /\ Functions(F2, E2)
      BY <2>6
    <3> QED BY <3>1, <3>2, <2>14, <1>3, ChainSplit
  <2>9. m_iLength' = Count(z, U \cup {x}, F2, E2, None)
    <3>1. Chain(U, F, E, nx, h, None, c, top)
      BY <1>4, <1>10
    <3>2. Functions(F2, E2)
      BY <2>6
    <3>3. Count(z, U \cup {x}, F2, E2, None) = Count(z, U, F, E, None) - (F2[x] - E2[n] - 1)
      BY <3>1, <3>2, <2>8, <2>14, <1>3, CountSplit
    <3> QED BY <3>3, <2>6, <1>4, <1>8
  <2>10. \A m \in U2 : F2[x] <= F2[m] <=> m = x \/ (m \in U /\ o < F[m])
    BY <2>6, <1>13
  <2>11. losses' = Nums(z, {m \in U2 : m_iHead' # None /\ F2[m_iHead'] <= F2[m]}, F2, E2)
    <3>1. m_iHead' = x /\ x # None
      BY <2>2, <2>6 DEF Node, None
    <3>2. ASSUME NEW t \in SeqNumbers
          PROVE  (t \in Nums(z, U, F, E) /\ o < Off(z, t))
                   <=> (\E m \in U2 : F2[x] <= F2[m] /\ F2[m] <= Off(z, t) /\ Off(z, t) <= E2[m])
      <4>1. Off(z, t) \in Nat
        BY <1>3
      <4>2. ASSUME NEW m \in U, F[m] <= Off(z, t), Off(z, t) <= E[m], o < Off(z, t)
            PROVE  \E k \in U2 : F2[x] <= F2[k] /\ F2[k] <= Off(z, t) /\ Off(z, t) <= E2[k]
        <5>1. CASE m = n
          <6>1. x \in U2 /\ F2[x] <= F2[x] /\ F2[x] <= Off(z, t) /\ Off(z, t) <= E2[x]
            BY <5>1, <4>1, <4>2, <2>6
          <6> QED BY <6>1
        <5>2. CASE m # n
          <6>1. o < F[m]
            BY <5>2, <4>1, <4>2, <1>2, <1>5, <1>13, <1>14
          <6>2. m \in U2 /\ F2[x] <= F2[m] /\ F2[m] = F[m] /\ E2[m] = E[m]
            BY <6>1, <5>2, <2>6, <2>10
          <6> QED BY <6>2, <4>2
        <5> QED BY <5>1, <5>2
      <4>3. ASSUME NEW m \in U2, F2[x] <= F2[m], F2[m] <= Off(z, t), Off(z, t) <= E2[m]
            PROVE  (\E k \in U : F[k] <= Off(z, t) /\ Off(z, t) <= E[k]) /\ o < Off(z, t)
        <5>1. CASE m = x
          <6>1. F[n] <= Off(z, t) /\ Off(z, t) <= E[n] /\ o < Off(z, t)
            BY <5>1, <4>1, <4>3, <2>6, <1>2, <1>5
          <6> QED BY <6>1
        <5>2. CASE m # x
          <6>1. m \in U /\ o < F[m]
            BY <5>2, <4>3, <2>10
          <6>2. m # n
            BY <6>1, <1>2, <1>5
          <6>3. F2[m] = F[m] /\ E2[m] = E[m] /\ F[m] \in Nat
            BY <6>1, <6>2, <2>6, <1>13
          <6>4. F[m] <= Off(z, t) /\ Off(z, t) <= E[m] /\ o < Off(z, t)
            BY <6>1, <6>3, <4>1, <4>3
          <6> QED BY <6>1, <6>4
        <5> QED BY <5>1, <5>2
      <4> QED BY <4>2, <4>3 DEF Nums
    <3>3. Nums(z, {m \in U2 : F2[x] <= F2[m]}, F2, E2)
            = {t \in SeqNumbers : \E m \in U2 : F2[x] <= F2[m] /\ F2[m] <= Off(z, t) /\ Off(z, t) <= E2[m]}
      BY DEF Nums
    <3>4. Nums(z, U, F, E) \subseteq SeqNumbers
      BY DEF Nums
    <3>5. losses' = Nums(z, {m \in U2 : F2[x] <= F2[m]}, F2, E2)
      BY <3>2, <3>3, <3>4, <1>8
    <3> QED BY <3>1, <3>5
  <2>12. LossTypes'
    <3>1. losses' \subseteq SeqNumbers
      BY <1>8 DEF Nums
    <3> QED BY <3>1, <2>2, <2>6, <2>7, <1>1, <1>4, <1>8, <1>10 DEF LossTypes, Nodes, Numbers
  <2>13. ListOK(z, c, Used, Fst(z), Lst(z))'
    <3>1. CallOK(z, c, Used, Fst(z), Lst(z))'
      <4>1. m_iHead' \in U2 /\ Off(z, lo') <= F2[m_iHead']
        BY <2>2, <2>6, <1>2, <1>12
      <4> QED BY <4>1, <2>11, <1>8, <1>10 DEF CallOK, Clearing
    <3>2. m_iLastInsertPos' \in U2 \cup {None}
      BY <2>6, <1>8 DEF Reads, ListOK
    <3> QED
      BY <3>1, <3>2, <2>6, <2>8, <2>9, <1>3, <1>8, <1>10, <1>12 DEF ListOK
  <2> QED
    BY <2>12, <2>13, <1>3 DEF LossListInv
<1>16. CASE ~(o < E[n])
  <2>1. UNCHANGED <<m_piData1, m_piData2, m_piNext>> /\ m_iHead' = nx[n]
    BY <1>6, <1>10, <1>16 DEF Cut
  <2>2. /\ Used' = U /\ Fst(z)' = F /\ Lst(z)' = E
        /\ Written(Used, Fst(z), Lst(z))'
    BY <2>1, ArraysKept
  <2>3. PICK y : y = nx[n]
    OBVIOUS
  <2>4. /\ y = None => \A m \in U : F[m] <= F[n]
        /\ y # None => y \in U /\ F[n] < F[y] /\ \A m \in U : F[m] <= F[n] \/ F[y] <= F[m]
    BY <2>3, <1>4, <1>10 DEF Chain, Follows
  <2>5. y # None => o < F[y]
    BY <2>4, <1>2, <1>5, <1>13
  <2>6. losses' = Nums(z, {m \in U : y # None /\ F[y] <= F[m]}, F, E)
    <3>1. ASSUME NEW t \in SeqNumbers, NEW m \in U, F[m] <= Off(z, t), Off(z, t) <= E[m]
          PROVE  o < Off(z, t) <=> y # None /\ F[y] <= F[m]
      <4>1. Off(z, t) \in Nat
        BY <1>3
      <4>2. CASE o < F[m]
        <5>1. ~(F[m] <= F[n])
          BY <4>2, <1>2, <1>5, <1>13
        <5> QED BY <5>1, <4>1, <4>2, <3>1, <2>4, <1>13
      <4>3. CASE ~(o < F[m])
        <5>1. E[m] <= o
          <6>1. m = n \/ E[m] < F[n]
            BY <4>3, <1>14
          <6> QED BY <6>1, <1>2, <1>5, <1>13, <1>16
        <5>2. y # None => ~(F[y] <= F[m])
          BY <4>3, <2>4, <2>5, <1>2, <1>13
        <5> QED BY <5>1, <5>2, <4>1, <3>1, <1>2, <1>13
      <4> QED BY <4>2, <4>3
    <3> QED BY <3>1, <1>8 DEF Nums
  <2>7. LossTypes'
    <3>1. losses' \subseteq SeqNumbers
      BY <1>8 DEF Nums
    <3> QED BY <3>1, <2>1, <1>1, <1>4, <1>8, <1>10, <1>11 DEF LossTypes, Nodes, Numbers
  <2>8. ListOK(z, c, Used, Fst(z), Lst(z))'
    <3>1. CallOK(z, c, Used, Fst(z), Lst(z))'
      <4>1. y # None => y \in U /\ Off(z, lo') <= F[y]
        BY <2>4, <2>5, <1>2, <1>12, <1>13
      <4> QED BY <4>1, <2>1, <2>2, <2>3, <2>6, <1>8 DEF CallOK, Clearing
    <3>2. m_iLastInsertPos' \in U \cup {None}
      BY <1>8 DEF Reads, ListOK
    <3>3. Chain(U, F, E, m_piNext', h, None, c, top)
      BY <2>1, <1>4, <1>10
    <3> QED
      BY <3>1, <3>2, <3>3, <2>2, <1>3, <1>4, <1>8, <1>12 DEF ListOK
  <2> QED
    BY <2>7, <2>8, <1>3 DEF LossListInv
<1> QED
  BY <1>15, <1>16

\* The last number to remove is the first number of a range.
LEMMA RemoveAtOK ==
  ASSUME LossTypes, NEW z, NEW c, NEW U, NEW F, NEW E, NEW top, Reads(z, c, U, F, E, top),
         pc = "idle", NEW s, RemoveStep(z, U, F, E, s), RemoveAt(s)
  PROVE  LossListInv'
<1>1. s \in SeqNumbers /\ Off(z, s) \in Nat /\ Off(z, s) < Window
  BY RemoveStarts
<1>2. pc # "coalesce" /\ pc # "clear"
  OBVIOUS
<1>3. U # {}
  BY <1>2, EmptyList DEF RemoveAt
<1>4. Place(s) \in U /\ F[Place(s)] = Off(z, s)
  BY <1>1, <1>2, <1>3, PlaceIs DEF RemoveAt
<1>5. PICK n \in U : n = Place(s)
  BY <1>4
<1>6. F[n] <= Off(z, s) /\ \A m \in U : F[m] <= F[n] \/ Off(z, s) < F[m]
  <2>1. \A m \in U : F[m] \in Nat
    BY NodeIs
  <2> QED BY <2>1, <1>1, <1>4, <1>5
<1>7. Cut(n, s)
  BY <1>5 DEF RemoveAt
<1> QED
  BY <1>6, <1>7, CutOK

\* The last number to remove is behind the head, and the search for its range begins.
LEMMA RemoveFindOK ==
  ASSUME LossTypes, NEW z, NEW c, NEW U, NEW F, NEW E, NEW top, Reads(z, c, U, F, E, top),
         pc = "idle", NEW s, RemoveStep(z, U, F, E, s), RemoveFind(s)
  PROVE  LossListInv'
<1>1. /\ s \in SeqNumbers /\ Off(z, s) \in Nat /\ Off(z, s) < top /\ Off(z, s) < Window
      /\ incseq(s) \in SeqNumbers /\ Off(z, incseq(s)) = Off(z, s) + 1
      /\ Off(z, s) + 1 <= top
  BY RemoveStarts
<1>2. pc # "coalesce" /\ pc # "clear"
  OBVIOUS
<1>3. /\ z \in SeqNumbers /\ c \in Node /\ U \subseteq Node /\ top = Top(z) /\ top <= Window
  BY Basics DEF Reads
<1>4. /\ m_iLength = Count(z, U, F, E, None)
      /\ Chain(U, F, E, m_piNext, First, None, c, top) /\ First = m_iHead
  BY <1>2, AtRest DEF First
<1>5. U # {}
  BY <1>2, EmptyList DEF RemoveFind
<1>6. m_iHead \in U /\ F[m_iHead] < Off(z, s)
  <2>1. m_iHead \in U
    BY <1>2, <1>5, HeadIs
  <2>2. F[m_iHead] \in Nat
    BY <2>1, NodeIs
  <2>3. seqoff(m_piData1[m_iHead], s) = Off(z, s) - F[m_iHead]
    BY <1>1, <1>2, <1>5, PlaceIs
  <2> QED BY <2>1, <2>2, <2>3, <1>1 DEF RemoveFind
<1>7. /\ pc' = "find" /\ i' = m_iHead /\ seqno1' = s /\ seqno2' = None
      /\ UNCHANGED <<m_piData1, m_piData2, m_piNext, m_piPrior>>
      /\ UNCHANGED <<m_iHead, m_iTail, m_iLength, m_iLastInsertPos, side, hi>>
      /\ m_piData1[Place(s)] # s
      /\ side = "snd" /\ lo' = incseq(s) /\ (hi = None => lo' = 0)
      /\ losses' = {t \in Nums(z, U, F, E) : Off(z, s) < Off(z, t)}
  BY DEF RemoveFind, RemoveStep, Loop, arrays, ends
<1>8. /\ Used' = U /\ Fst(z)' = F /\ Lst(z)' = E
      /\ Written(Used, Fst(z), Lst(z))'
  BY <1>7, ArraysKept
<1>9. LossTypes'
  <2>1. losses' \subseteq SeqNumbers
    BY <1>7 DEF Nums
  <2> QED BY <2>1, <1>1, <1>7 DEF LossTypes, Nodes, Numbers
<1>10. First' = m_iHead /\ Growing' = None /\ Top(z)' = top
  BY <1>3, <1>7 DEF First, Growing, Top
<1>11. ListOK(z, c, Used, Fst(z), Lst(z))'
  <2>1. m_piData1'[Place(seqno1)'] # s
    BY <1>7 DEF Place
  <2>2. CallOK(z, c, Used, Fst(z), Lst(z))'
    BY <2>1, <1>1, <1>6, <1>7, <1>8, <1>10 DEF CallOK, Finding
  <2>3. m_iLastInsertPos' \in U \cup {None}
    BY <1>7 DEF Reads, ListOK
  <2>4. Off(z, lo') <= top
    BY <1>1, <1>7
  <2>5. Chain(U, F, E, m_piNext', m_iHead, None, c, top)
    BY <1>4, <1>7
  <2> QED
    BY <2>2, <2>3, <2>4, <2>5, <1>3, <1>4, <1>7, <1>8, <1>10 DEF ListOK
<1> QED
  BY <1>3, <1>9, <1>11 DEF LossListInv

\* In the search, and what the comparison says of the next range.
LEMMA FindIs ==
  ASSUME LossTypes, NEW z, NEW c, NEW U, NEW F, NEW E, NEW top, Reads(z, c, U, F, E, top),
         pc = "find", NEW n, n = i, NEW x, x = m_piNext[n]
  PROVE  /\ side = "snd" /\ n \in U
         /\ seqno1 \in SeqNumbers /\ Off(z, seqno1) \in Nat /\ Off(z, seqno1) < top
         /\ F[n] < Off(z, seqno1) /\ \A m \in U : F[m] # Off(z, seqno1)
         /\ m_piData1[Place(seqno1)] # seqno1
         /\ lo = incseq(seqno1)
         /\ losses = {s \in Nums(z, U, F, E) : Off(z, seqno1) < Off(z, s)}
         /\ IF x = None THEN \A m \in U : F[m] <= F[n]
            ELSE x \in U /\ F[n] < F[x] /\ \A m \in U : F[m] <= F[n] \/ F[x] <= F[m]
         /\ NextIsBefore(seqno1) <=> x # None /\ F[x] < Off(z, seqno1)
<1>1. /\ Finding(z, U, F, E) /\ side = "snd" /\ top = Top(z) /\ pc # "clear" /\ pc # "coalesce"
  BY DEF Reads, ListOK, CallOK, LossTypes
<1>2. /\ n \in U /\ seqno1 \in SeqNumbers
      /\ F[n] < Off(z, seqno1) /\ Off(z, seqno1) < top
      /\ m_piData1[Place(seqno1)] # seqno1
      /\ lo = incseq(seqno1)
      /\ losses = {s \in Nums(z, U, F, E) : Off(z, seqno1) < Off(z, s)}
  BY <1>1 DEF Finding
<1>3. /\ z \in SeqNumbers /\ top \in Nat /\ top <= Window /\ Window \in Nat /\ None \notin U
      /\ Off(z, seqno1) \in Nat
      /\ Chain(U, F, E, m_piNext, First, Growing, c, top)
  BY <1>2, Basics, Sizes
<1>4. U # {} /\ Off(z, seqno1) < Window
  BY <1>2, <1>3
<1>5. \A m \in U : F[m] # Off(z, seqno1)
  BY <1>1, <1>2, <1>4, PlaceIs
<1>6. IF x = None THEN \A m \in U : F[m] <= F[n]
      ELSE x \in U /\ F[n] < F[x] /\ \A m \in U : F[m] <= F[n] \/ F[x] <= F[m]
  BY <1>2, <1>3 DEF Chain, Follows
<1>7. NextIsBefore(seqno1) <=> x # None /\ F[x] < Off(z, seqno1)
  <2>1. CASE x = None
    BY <2>1 DEF NextIsBefore
  <2>2. CASE x \in U
    <3>1. m_piData1[x] \in SeqNumbers /\ F[x] = Off(z, m_piData1[x]) /\ F[x] \in Nat /\ F[x] < top
      <4>1. /\ m_piData1[x] \in SeqNumbers /\ F[x] = Off(z, m_piData1[x]) /\ F[x] \in Nat
            /\ F[x] <= E[x] /\ E[x] < top /\ E[x] \in Nat
        BY <2>2, NodeIs
      <4> QED BY <4>1, <1>3
    <3>2. Off(z, m_piData1[x]) <= Window /\ Off(z, seqno1) <= Window
      BY <3>1, <1>3, <1>4
    <3>3. seqcmp(m_piData1[x], seqno1) < 0 <=> F[x] < Off(z, seqno1)
      BY <3>1, <3>2, <1>2, <1>3, Compared
    <3>4. x # None
      BY <2>2, <1>3
    <3> QED BY <3>3, <3>4 DEF NextIsBefore
  <2> QED BY <2>1, <2>2, <1>6
<1> QED
  BY <1>1, <1>2, <1>3, <1>5, <1>6, <1>7

\* The search moves on to the next range.
LEMMA FindNextOK ==
  ASSUME LossTypes, NEW z, NEW c, NEW U, NEW F, NEW E, NEW top, Reads(z, c, U, F, E, top),
         FindNext
  PROVE  LossListInv'
<1>1. PICK n, x : n = i /\ x = m_piNext[n]
  OBVIOUS
<1>2. pc = "find" /\ pc # "coalesce"
  BY DEF FindNext
<1>3. /\ side = "snd" /\ n \in U /\ x \in U /\ F[x] < Off(z, seqno1)
  BY <1>1, <1>2, FindIs DEF FindNext
<1>4. /\ pc' = "find" /\ i' = x /\ seqno1' = seqno1 /\ seqno2' = None
      /\ UNCHANGED <<m_piData1, m_piData2, m_piNext, m_piPrior>>
      /\ UNCHANGED <<m_iHead, m_iTail, m_iLength, m_iLastInsertPos, side, lo, hi, losses>>
  BY <1>1 DEF FindNext, Loop, arrays, ends, window
<1>5. /\ z \in SeqNumbers /\ c \in Node /\ top = Top(z) /\ U \subseteq Node /\ top <= Window /\ Off(z, lo) <= top
  BY Basics DEF Reads
<1>6. /\ m_iLength = Count(z, U, F, E, None)
      /\ Chain(U, F, E, m_piNext, First, None, c, top) /\ First = m_iHead
  BY <1>2, AtRest DEF First
<1>7. /\ Used' = U /\ Fst(z)' = F /\ Lst(z)' = E
      /\ Written(Used, Fst(z), Lst(z))'
  BY <1>4, ArraysKept
<1>8. LossTypes'
  BY <1>2, <1>3, <1>4, <1>5 DEF LossTypes, Nodes, Numbers
<1>9. First' = m_iHead /\ Growing' = None /\ Top(z)' = top
  BY <1>4, <1>5 DEF First, Growing, Top
<1>10. ListOK(z, c, Used, Fst(z), Lst(z))'
  <2>1. Finding(z, U, F, E)
    BY <1>2 DEF Reads, ListOK, CallOK
  <2>2. m_piData1'[Place(seqno1)'] # seqno1
    BY <2>1, <1>4 DEF Place, Finding
  <2>3. CallOK(z, c, Used, Fst(z), Lst(z))'
    BY <2>1, <2>2, <1>3, <1>4, <1>5, <1>7, <1>9 DEF CallOK, Finding
  <2>4. Chain(U, F, E, m_piNext', First', Growing', c, top)
    BY <1>4, <1>6, <1>9
  <2>5. m_iLastInsertPos' \in U \cup {None}
    BY <1>3, <1>4 DEF Reads, ListOK
  <2> QED
    BY <2>3, <2>4, <2>5, <1>3, <1>4, <1>5, <1>6, <1>7, <1>9 DEF ListOK
<1> QED
  BY <1>5, <1>8, <1>10 DEF LossListInv

\* The search ends, and the range it has found is cut.
LEMMA FindDoneOK ==
  ASSUME LossTypes, NEW z, NEW c, NEW U, NEW F, NEW E, NEW top, Reads(z, c, U, F, E, top),
         FindDone
  PROVE  LossListInv'
<1>1. PICK n, x, s : n = i /\ x = m_piNext[n] /\ s = seqno1
  OBVIOUS
<1>2. pc = "find"
  BY DEF FindDone
<1>3. /\ side = "snd" /\ n \in U
      /\ s \in SeqNumbers /\ Off(z, s) \in Nat /\ Off(z, s) < top
      /\ F[n] < Off(z, s) /\ \A m \in U : F[m] # Off(z, s)
      /\ lo = incseq(s)
      /\ losses = {t \in Nums(z, U, F, E) : Off(z, s) < Off(z, t)}
      /\ IF x = None THEN \A m \in U : F[m] <= F[n]
         ELSE x \in U /\ F[n] < F[x] /\ \A m \in U : F[m] <= F[n] \/ F[x] <= F[m]
      /\ ~(x # None /\ F[x] < Off(z, s))
  BY <1>1, <1>2, FindIs DEF FindDone
<1>4. \A m \in U : F[m] \in Nat
  BY NodeIs
<1>5. F[n] <= Off(z, s) /\ \A m \in U : F[m] <= F[n] \/ Off(z, s) < F[m]
  BY <1>3, <1>4
<1>6. UNCHANGED <<side, lo, hi, losses>> /\ Cut(n, s)
  BY <1>1 DEF FindDone, window
<1>7. RemoveStep(z, U, F, E, s)
  BY <1>3, <1>6 DEF RemoveStep, Reads, LossTypes
<1> QED
  BY <1>2, <1>3, <1>5, <1>6, <1>7, CutOK

\* One of the ranges before the cut is cleared.
LEMMA ClearOK ==
  ASSUME LossTypes, NEW z, NEW c, NEW U, NEW F, NEW E, NEW top, Reads(z, c, U, F, E, top),
         Clear
  PROVE  LossListInv'
<1>1. PICK n, k, nx, nx2, y : n = i /\ k = m_iHead /\ nx = m_piNext /\ nx2 = m_piNext' /\ y = nx[n]
  OBVIOUS
<1>2. pc = "clear" /\ n # k
  BY <1>1 DEF Clear
<1>3. /\ z \in SeqNumbers /\ c \in Node /\ U \in SUBSET Node /\ None \notin U
      /\ top \in Nat /\ top <= Window /\ top <= m_iSize
      /\ top = Top(z) /\ Functions(F, E) /\ Off(z, lo) <= top
  BY Basics DEF Reads
<1>4. /\ m_iLength = Count(z, U, F, E, None) /\ m_iLength \in Nat
      /\ Chain(U, F, E, nx, n, None, c, top)
      /\ \A m, j \in U : F[m] = F[j] => m = j
      /\ side = "snd" /\ Clearing(z, U, F, E) /\ First = n
  <2>1. pc # "coalesce" /\ First = n
    BY <1>1, <1>2 DEF First
  <2>2. side = "snd" /\ Clearing(z, U, F, E)
    BY <1>2 DEF LossTypes, Reads, ListOK, CallOK
  <2> QED BY <2>1, <2>2, <1>1, AtRest
<1>5. /\ k # None => k \in U /\ Off(z, lo) <= F[k]
      /\ losses = Nums(z, {m \in U : k # None /\ F[k] <= F[m]}, F, E)
  BY <1>1, <1>4 DEF Clearing
<1>6. n \in U /\ \A m \in U : F[n] <= F[m]
  <2>1. Begins(U, F, n)
    BY <1>4 DEF Chain
  <2> QED BY <2>1, <1>2, <1>5 DEF Begins
<1>7. /\ n \in Node /\ m_piData1[n] \in SeqNumbers /\ End(n) \in SeqNumbers
      /\ F[n] = Off(z, m_piData1[n]) /\ E[n] = Off(z, End(n))
      /\ F[n] \in Nat /\ E[n] \in Nat /\ F[n] <= E[n] /\ E[n] < top
  BY <1>6, NodeIs
<1>8. seqlen(m_piData1[n], End(n)) = E[n] - F[n] + 1
  BY <1>3, <1>7, Length
<1>9. /\ m_piData1' = [m_piData1 EXCEPT ![n] = None] /\ m_piData2' = [m_piData2 EXCEPT ![n] = None]
      /\ nx2 = [nx EXCEPT ![n] = Unset]
      /\ m_iLength' = m_iLength - (E[n] - F[n] + 1)
      /\ m_iLastInsertPos' = (IF m_iLastInsertPos = n THEN None ELSE m_iLastInsertPos)
      /\ pc' = "clear" /\ i' = y /\ seqno1' = None /\ seqno2' = None
      /\ UNCHANGED <<m_piPrior, m_iHead, m_iTail, side, lo, hi, losses>>
  BY <1>1, <1>8 DEF Clear, Loop, window
<1>10. PICK U2, F2, E2 : U2 = Used' /\ F2 = Fst(z)' /\ E2 = Lst(z)'
  OBVIOUS
<1>11. /\ m_piData1' \in [Node -> Numbers] /\ m_piData2' \in [Node -> Numbers]
       /\ U2 = U \ {n} /\ Functions(F2, E2)
       /\ \A m \in U \ {n} : F2[m] = F[m] /\ E2[m] = E[m]
       /\ Written(Used, Fst(z), Lst(z))'
       /\ Count(z, U2, F2, E2, None) = Count(z, U, F, E, None) - (E[n] - F[n] + 1)
  <2>1. Dropped(n) /\ pc # "coalesce"
    BY <1>2, <1>9 DEF Dropped
  <2> QED BY <2>1, <1>6, <1>10, RangeDropped
<1>12. /\ nx2 \in [Node -> Nodes \cup {Unset}] /\ y \in Nodes
       /\ \A m \in U \ {n} : nx2[m] = nx[m]
  <2>1. nx \in [Node -> Nodes \cup {Unset}]
    BY <1>1 DEF LossTypes
  <2>2. y \in Nodes
    BY <1>1, <1>3, <1>4, <1>6 DEF Chain, Follows, Nodes
  <2> QED BY <2>1, <2>2, <1>3, <1>9
<1>13. Chain(U \ {n}, F2, E2, nx2, y, None, c, top)
  <2>1. \A m \in U \ {n} : F2[m] = F[m] /\ E2[m] = E[m] /\ nx2[m] = nx[m]
    BY <1>11, <1>12
  <2>2. Shifted(U, F, E, nx, F2, E2, nx2, n)
    BY <2>1, <1>6 DEF Shifted
  <2>3. Chain(U \ {n}, F2, E2, nx2, nx[n], None, c, top)
    BY <2>2, <1>3, <1>4, <1>11, ChainShifted
  <2> QED BY <2>3, <1>1
<1>14. \A m \in U : F[m] \in Nat
  BY NodeIs
<1>15. k # None => k \in U2 /\ F2[k] = F[k] /\ F[n] < F[k]
  BY <1>2, <1>4, <1>5, <1>6, <1>11, <1>14
<1>16. losses' = Nums(z, {m \in U2 : k # None /\ F2[k] <= F2[m]}, F2, E2)
  <2>1. {m \in U2 : k # None /\ F2[k] <= F2[m]} = {m \in U : k # None /\ F[k] <= F[m]}
    BY <1>6, <1>11, <1>14, <1>15
  <2>2. \A m \in {j \in U2 : k # None /\ F2[k] <= F2[j]} : F2[m] = F[m] /\ E2[m] = E[m]
    BY <1>11
  <2>3. PICK V : V = {m \in U2 : k # None /\ F2[k] <= F2[m]}
    OBVIOUS
  <2>4. Nums(z, V, F2, E2) = Nums(z, V, F, E)
    BY <2>2, <2>3, NumsSame
  <2> QED BY <2>1, <2>3, <2>4, <1>5, <1>9
<1>17. LossTypes'
  <2>1. m_iLength' \in Int
    BY <1>4, <1>7, <1>9
  <2> QED BY <2>1, <1>1, <1>4, <1>9, <1>11, <1>12 DEF LossTypes, Nodes, Numbers
<1>18. First' = y /\ Growing' = None /\ Top(z)' = top
  BY <1>3, <1>9 DEF First, Growing, Top
<1>19. ListOK(z, c, Used, Fst(z), Lst(z))'
  <2>1. CallOK(z, c, Used, Fst(z), Lst(z))'
    BY <1>1, <1>5, <1>9, <1>10, <1>15, <1>16 DEF CallOK, Clearing
  <2>2. m_iLastInsertPos' \in U2 \cup {None}
    <3>1. m_iLastInsertPos \in U \cup {None}
      BY <1>4 DEF Reads, ListOK
    <3> QED BY <3>1, <1>9, <1>11
  <2> QED
    BY <2>1, <2>2, <1>1, <1>3, <1>4, <1>9, <1>10, <1>11, <1>13, <1>18 DEF ListOK
<1> QED
  BY <1>3, <1>17, <1>19 DEF LossListInv

\* All ranges before the cut are cleared.
LEMMA ClearDoneOK ==
  ASSUME LossTypes, NEW z, NEW c, NEW U, NEW F, NEW E, NEW top, Reads(z, c, U, F, E, top),
         ClearDone
  PROVE  LossListInv'
<1>1. PICK k : k = m_iHead
  OBVIOUS
<1>2. pc = "clear" /\ First = k /\ pc # "coalesce" /\ First = m_iHead
  BY <1>1 DEF ClearDone, First
<1>3. Off(z, lo) <= top /\ lo \in SeqNumbers /\ (hi = None => lo = 0)
  BY Basics DEF LossTypes
<1>4. /\ k # None => k \in U /\ Off(z, lo) <= F[k]
      /\ losses = Nums(z, {m \in U : k # None /\ F[k] <= F[m]}, F, E)
  BY <1>1, <1>2 DEF Reads, ListOK, CallOK, Clearing
<1>5. U # {} => k \in U /\ k # None /\ \A m \in U : F[k] <= F[m]
  <2>1. Begins(U, F, k) /\ None \notin U
    BY <1>2, Basics DEF Chain
  <2> QED BY <2>1 DEF Begins
<1>6. losses = Nums(z, U, F, E)
  <2>1. {m \in U : k # None /\ F[k] <= F[m]} = U
    BY <1>5
  <2> QED BY <2>1, <1>4
<1>7. \A m \in U : Off(z, lo) <= F[m]
  <2>1. \A m \in U : F[m] \in Nat
    BY NodeIs
  <2>2. Off(z, lo) \in Nat
    BY Basics
  <2> QED BY <2>1, <2>2, <1>4, <1>5
<1>8. /\ UNCHANGED <<m_piData1, m_piData2, m_piNext, m_piPrior>>
      /\ UNCHANGED <<m_iHead, m_iTail, m_iLength, m_iLastInsertPos, side, hi>>
      /\ pc' = "idle" /\ i' \in Nodes /\ seqno1' \in Numbers /\ seqno2' \in Numbers
      /\ lo' = lo /\ losses' = losses
  BY DEF ClearDone, Over, Loop, arrays, ends, window, Nodes, Numbers
<1>9. PICK y \in SeqNumbers : y = lo
  BY <1>3
<1>10. /\ Off(z, y) <= top /\ (\A m \in U : Off(z, y) <= F[m]) /\ (hi = None => y = 0)
       /\ lo' = y /\ losses' = Nums(z, U, F, E)
  BY <1>3, <1>6, <1>7, <1>8, <1>9
<1> QED
  BY <1>2, <1>8, <1>10, RebasedOK

\* An acknowledgement: what it acknowledges is removed, and the window begins behind it.
LEMMA AckedOK ==
  ASSUME LossTypes, NEW z, NEW c, NEW U, NEW F, NEW E, NEW top, Reads(z, c, U, F, E, top),
         Acked
  PROVE  LossListInv'
<1>1. PICK s \in Outstanding :
        /\ lo' = incseq(s)
        /\ RemoveNothing(s) \/ RemoveAt(s) \/ RemoveFind(s)
        /\ losses' = {t \in losses : seqcmp(t, s) > 0}
  BY DEF Acked
<1>2. pc = "idle" /\ side = "snd" /\ UNCHANGED <<side, hi>>
  BY DEF Acked
<1>3. z = lo /\ losses = Nums(z, U, F, E) /\ top = Top(z)
  BY <1>2 DEF Reads, ListOK, CallOK, Idle
<1>4. s \in SeqNumbers /\ Off(z, s) < top
  BY <1>1, <1>3, OutstandingIs
<1>5. /\ z \in SeqNumbers /\ top \in Nat /\ top <= Window /\ Window \in Nat /\ top = Off(z, incseq(hi))
      /\ \A t \in SeqNumbers : Off(z, t) \in Nat
  BY Basics, Sizes
<1>6. ASSUME NEW t \in Nums(z, U, F, E) PROVE seqcmp(t, s) > 0 <=> Off(z, s) < Off(z, t)
  <2>1. PICK n \in U : F[n] <= Off(z, t) /\ Off(z, t) <= E[n]
    BY DEF Nums
  <2>2. E[n] \in Nat /\ E[n] < top
    BY NodeIs
  <2>3. t \in SeqNumbers /\ Off(z, t) <= Window /\ Off(z, s) <= Window
    BY <2>1, <2>2, <1>4, <1>5 DEF Nums
  <2> QED BY <2>3, <1>4, <1>5, Compared
<1>7. hi = None => lo' = 0
  <2>1. hi = None => lo = 0 /\ incseq(hi) = 0
    BY Sizes DEF LossTypes, incseq, None
  <2>2. hi = None => top = 0
    BY <2>1, <1>3, <1>5 DEF Off
  <2> QED BY <2>2, <1>4, <1>5
<1>8. RemoveStep(z, U, F, E, s)
  BY <1>1, <1>2, <1>3, <1>4, <1>6, <1>7 DEF RemoveStep
<1> QED
  BY <1>1, <1>2, <1>3, <1>8, RemoveNothingOK, RemoveAtOK, RemoveFindOK

-------------------------------------------------------------------------------
(* CSndLossList::getLostSeq() *)

\* FirstSeq() of the numbers on the list is the first number of the head.
LEMMA FirstSeqIs ==
  ASSUME LossTypes, NEW z, NEW c, NEW U, NEW F, NEW E, NEW top, Reads(z, c, U, F, E, top),
         pc = "idle", U # {}
  PROVE  FirstSeq(losses) = m_piData1[m_iHead] /\ m_piData1[m_iHead] \in losses
<1>1. pc # "clear" /\ pc # "coalesce"
  OBVIOUS
<1>2. PICK h \in U : h = m_iHead /\ \A n \in U : F[h] <= F[n]
  BY <1>1, HeadIs
<1>3. losses = Nums(z, U, F, E)
  BY DEF Reads, ListOK, CallOK, Idle
<1>4. PICK s \in SeqNumbers : s = m_piData1[h] /\ Off(z, s) = F[h] /\ F[h] \in Nat /\ F[h] <= E[h]
  BY NodeIs
<1>5. s \in losses
  BY <1>3, <1>4 DEF Nums
<1>6. /\ z \in SeqNumbers /\ top \in Nat /\ top <= Window /\ Window \in Nat
      /\ \A t \in SeqNumbers : Off(z, t) \in Nat
  BY Basics, Sizes
<1>7. \A t \in losses : t \in SeqNumbers /\ F[h] <= Off(z, t) /\ Off(z, t) <= Window
  <2>1. TAKE t \in losses
  <2>2. t \in SeqNumbers
    BY <1>3 DEF Nums
  <2>3. PICK n \in U : F[n] <= Off(z, t) /\ Off(z, t) <= E[n]
    BY <1>3 DEF Nums
  <2>4. F[n] \in Nat /\ E[n] \in Nat /\ E[n] < top
    BY NodeIs
  <2> QED BY <2>2, <2>3, <2>4, <1>2, <1>4, <1>6
<1>8. Off(z, s) <= Window
  BY <1>5, <1>7
<1>9. \A t \in losses : seqcmp(s, t) <= 0
  BY <1>4, <1>6, <1>7, <1>8, Compared
<1>10. ASSUME NEW u \in losses, \A t \in losses : seqcmp(u, t) <= 0 PROVE u = s
  <2>1. seqcmp(u, s) <= 0
    BY <1>5, <1>10
  <2>2. Off(z, u) <= Off(z, s)
    BY <2>1, <1>6, <1>7, <1>8, Compared
  <2>3. Off(z, u) = Off(z, s)
    BY <2>2, <1>4, <1>6, <1>7
  <2> QED BY <2>3, <1>6, <1>7, SameOffset
<1> QED
  BY <1>2, <1>4, <1>5, <1>9, <1>10 DEF FirstSeq

\* getLostSeq takes the first number off the list.
LEMMA ResentOK ==
  ASSUME LossTypes, NEW z, NEW c, NEW U, NEW F, NEW E, NEW top, Reads(z, c, U, F, E, top),
         Resent
  PROVE  LossListInv'
<1>1. PICK h, nx, nx2 : h = m_iHead /\ nx = m_piNext /\ nx2 = m_piNext'
  OBVIOUS
<1>2. pc = "idle" /\ side = "snd" /\ UNCHANGED <<side, lo, hi>> /\ pc # "clear" /\ pc # "coalesce"
  BY DEF Resent
<1>3. /\ z \in SeqNumbers /\ c \in Node /\ U \in SUBSET Node /\ None \notin U
      /\ top \in Nat /\ top <= Window /\ top <= m_iSize
      /\ top = Top(z) /\ Functions(F, E) /\ Off(z, lo) <= top /\ z = lo
      /\ losses = Nums(z, U, F, E) /\ Window \in Nat
  BY <1>2, Basics, Sizes DEF Reads, ListOK, CallOK, Idle
<1>4. /\ m_iLength = Count(z, U, F, E, None) /\ m_iLength \in Nat
      /\ Chain(U, F, E, nx, h, None, c, top)
  BY <1>1, <1>2, AtRest DEF First
<1>5. U # {}
  BY <1>2, EmptyList DEF Resent, TakeFirst
<1>6. h \in U /\ \A m \in U : F[h] <= F[m]
  BY <1>1, <1>2, <1>5, HeadIs
<1>7. PICK s : s = m_piData1[h]
  OBVIOUS
<1>8. losses' = Nums(z, U, F, E) \ {s}
  BY <1>1, <1>2, <1>3, <1>5, <1>7, FirstSeqIs DEF Resent
<1>9. /\ h \in Node /\ s \in SeqNumbers /\ F[h] = Off(z, s)
      /\ F[h] \in Nat /\ E[h] \in Nat /\ F[h] <= E[h] /\ E[h] < top
      /\ m_piData2[h] = None => E[h] = F[h]
  BY <1>6, <1>7, NodeIs
<1>10. nx \in [Node -> Nodes \cup {Unset}] /\ nx[h] \in Nodes
  <2>1. nx \in [Node -> Nodes \cup {Unset}]
    BY <1>1 DEF LossTypes
  <2> QED BY <2>1, <1>3, <1>4, <1>6 DEF Chain, Follows, Nodes
<1>11. /\ m_iLength' = m_iLength - 1
       /\ m_iLastInsertPos' = (IF m_iLastInsertPos = h THEN None ELSE m_iLastInsertPos)
       /\ UNCHANGED <<m_piPrior, m_iTail, pc, i, seqno1, seqno2, side, lo, hi>>
  BY <1>1 DEF Resent, TakeFirst, callVars
<1>12. m_iLastInsertPos \in U \cup {None}
  BY <1>2 DEF Reads, ListOK
<1>13. Top(z)' = top /\ Growing' = None /\ First' = m_iHead'
  BY <1>2, <1>3, <1>11 DEF Top, Growing, First
<1>14. PICK U2, F2, E2 : U2 = Used' /\ F2 = Fst(z)' /\ E2 = Lst(z)'
  OBVIOUS
<1>15. m_iLength' \in Int /\ losses' \subseteq SeqNumbers
  BY <1>4, <1>8, <1>11 DEF Nums
<1>16. CASE m_piData2[h] = None
  <2>1. /\ m_piData1' = [m_piData1 EXCEPT ![h] = None] /\ m_piData2' = m_piData2
        /\ nx2 = [nx EXCEPT ![h] = Unset]
        /\ m_iHead' = nx[h]
    BY <1>1, <1>16 DEF Resent, TakeFirst
  <2>2. Dropped(h)
    <3>1. m_piData2 = [m_piData2 EXCEPT ![h] = None]
      BY <1>9, <1>16 DEF LossTypes
    <3> QED BY <2>1, <3>1 DEF Dropped
  <2>3. /\ m_piData1' \in [Node -> Numbers] /\ m_piData2' \in [Node -> Numbers]
        /\ U2 = U \ {h} /\ Functions(F2, E2)
        /\ \A m \in U \ {h} : F2[m] = F[m] /\ E2[m] = E[m]
        /\ Written(Used, Fst(z), Lst(z))'
        /\ Count(z, U2, F2, E2, None) = Count(z, U, F, E, None) - (E[h] - F[h] + 1)
        /\ Nums(z, U2, F2, E2) = Nums(z, U, F, E) \ Between(z, F[h], E[h])
    BY <2>2, <1>2, <1>6, <1>14, RangeDropped
  <2>4. Between(z, F[h], E[h]) = {s}
    <3>1. E[h] = F[h]
      BY <1>9, <1>16
    <3>2. \A t \in SeqNumbers : Off(z, t) \in Nat /\ (Off(z, t) = F[h] <=> t = s)
      BY <1>3, <1>9, Basics, SameOffset
    <3>3. \A t \in SeqNumbers : (F[h] <= Off(z, t) /\ Off(z, t) <= E[h]) <=> t = s
      BY <3>1, <3>2, <1>9
    <3> QED BY <3>3, <1>9 DEF Between
  <2>5. /\ nx2 \in [Node -> Nodes \cup {Unset}]
        /\ \A m \in U \ {h} : nx2[m] = nx[m]
    BY <2>1, <1>3, <1>10
  <2>6. Chain(U \ {h}, F2, E2, nx2, nx[h], None, c, top)
    <3>1. \A m \in U \ {h} : F2[m] = F[m] /\ E2[m] = E[m] /\ nx2[m] = nx[m]
      BY <2>3, <2>5
    <3>2. Shifted(U, F, E, nx, F2, E2, nx2, h)
      BY <3>1, <1>6 DEF Shifted
    <3> QED BY <3>2, <2>3, <1>3, <1>4, ChainShifted
  <2>7. LossTypes'
    BY <2>1, <2>3, <2>5, <1>1, <1>2, <1>9, <1>10, <1>11, <1>15 DEF LossTypes, Nodes
  <2>8. ListOK(z, c, Used, Fst(z), Lst(z))'
    <3>1. losses' = Nums(z, U2, F2, E2)
      BY <2>3, <2>4, <1>8
    <3>2. CallOK(z, c, Used, Fst(z), Lst(z))'
      BY <3>1, <1>2, <1>3, <1>11, <1>14 DEF CallOK, Idle
    <3>3. m_iLastInsertPos' \in U2 \cup {None}
      BY <2>3, <1>11, <1>12
    <3>4. m_iLength' = Count(z, U2, F2, E2, None)
      <4>1. E[h] = F[h]
        BY <1>9, <1>16
      <4> QED BY <4>1, <2>3, <1>4, <1>9, <1>11
    <3> QED
      BY <3>2, <3>3, <3>4, <2>1, <2>3, <2>6, <1>1, <1>2, <1>3, <1>11, <1>13, <1>14 DEF ListOK
  <2> QED
    BY <2>7, <2>8, <1>3 DEF LossListInv
<1>17. CASE m_piData2[h] # None
  <2>1. PICK x : x = After(h)
    OBVIOUS
  <2>2. /\ m_piData1' = [m_piData1 EXCEPT ![x] = incseq(s), ![h] = None]
        /\ m_piData2' = [m_piData2 EXCEPT ![x] = Second(x, incseq(s), m_piData2[h]), ![h] = None]
        /\ nx2 = [nx EXCEPT ![x] = nx[h], ![h] = Unset]
        /\ m_iHead' = x
    BY <2>1, <1>1, <1>7, <1>17 DEF Resent, TakeFirst
  <2>3. MovedOn(h, x)
    BY <2>2, <1>7 DEF MovedOn
  <2>4. /\ x \in Node /\ x \notin U /\ x # h
        /\ m_piData1' \in [Node -> Numbers] /\ m_piData2' \in [Node -> Numbers]
        /\ U2 = (U \ {h}) \cup {x} /\ Functions(F2, E2)
        /\ F2[x] = F[h] + 1 /\ E2[x] = E[h] /\ F[h] + 1 <= E[h] /\ x = At(c, F[h] + 1)
        /\ \A m \in U \ {h} : F2[m] = F[m] /\ E2[m] = E[m]
        /\ Written(Used, Fst(z), Lst(z))'
        /\ Nums(z, U2, F2, E2) = Nums(z, U, F, E) \ {s}
    <3>1. /\ x \in Node /\ x \notin U /\ x # h
          /\ m_piData1' \in [Node -> Numbers] /\ m_piData2' \in [Node -> Numbers]
          /\ Used' = (U \ {h}) \cup {x} /\ Functions(Fst(z)', Lst(z)')
          /\ Fst(z)'[x] = F[h] + 1 /\ Lst(z)'[x] = E[h] /\ F[h] + 1 <= E[h] /\ x = At(c, F[h] + 1)
          /\ \A m \in U \ {h} : Fst(z)'[m] = F[m] /\ Lst(z)'[m] = E[m]
          /\ Written(Used, Fst(z), Lst(z))'
          /\ Nums(z, Used', Fst(z)', Lst(z)') = Nums(z, U, F, E) \ {m_piData1[h]}
      BY <2>1, <2>3, <1>2, <1>6, <1>17, RangeMovedOn
    <3> QED BY <3>1, <1>7, <1>14
  <2>5. /\ nx2 \in [Node -> Nodes \cup {Unset}] /\ nx2[x] = nx[h]
        /\ \A m \in U \ {h} : nx2[m] = nx[m]
    BY <2>2, <2>4, <1>3, <1>9, <1>10
  <2>6. Advanced(U, F, E, nx, F2, E2, nx2, h, x)
    <3>1. \A m \in U : nx[m] # h
      BY <1>3, <1>4, <1>6 DEF Chain, Follows, Functions
    <3>2. \A m \in U \ {h} : nx2[m] = IF nx[m] = h THEN x ELSE nx[m]
      BY <3>1, <2>5
    <3>3. F[h] < F2[x] /\ F2[x] <= E[h]
      BY <2>4, <1>9
    <3> QED BY <3>2, <3>3, <2>4, <2>5, <1>6 DEF Advanced
  <2>7. PICK h2 : h2 = IF h = h THEN x ELSE h
    OBVIOUS
  <2>8. x = At(c, F2[x]) /\ Functions(F2, E2)
    BY <2>4
  <2>9. Chain((U \ {h}) \cup {x}, F2, E2, nx2, h2, None, c, top)
    BY <2>6, <2>7, <2>8, <1>3, <1>4, ChainAdvanced
  <2>10. m_iLength' = Count(z, (U \ {h}) \cup {x}, F2, E2, None)
    <3>1. Count(z, (U \ {h}) \cup {x}, F2, E2, None) = Count(z, U, F, E, None) - (F2[x] - F[h])
      BY <2>6, <2>8, <2>9, <1>3, <1>4, CountAdvanced
    <3> QED BY <3>1, <2>4, <1>4, <1>9, <1>11
  <2>11. LossTypes'
    BY <2>2, <2>4, <2>5, <1>1, <1>2, <1>11, <1>12, <1>15 DEF LossTypes, Nodes
  <2>12. ListOK(z, c, Used, Fst(z), Lst(z))'
    <3>1. losses' = Nums(z, U2, F2, E2)
      BY <2>4, <1>8
    <3>2. CallOK(z, c, Used, Fst(z), Lst(z))'
      BY <3>1, <1>2, <1>3, <1>11, <1>14 DEF CallOK, Idle
    <3>3. m_iLastInsertPos' \in U2 \cup {None}
      BY <2>4, <1>11, <1>12
    <3>4. h2 = x
      BY <2>7
    <3> QED
      BY <3>2, <3>3, <3>4, <2>2, <2>4, <2>9, <2>10, <1>1, <1>2, <1>3, <1>11, <1>13, <1>14 DEF ListOK
  <2> QED
    BY <2>11, <2>12, <1>3 DEF LossListInv
<1> QED
  BY <1>16, <1>17

-------------------------------------------------------------------------------
(* The window grows, CRcvLossList::insert(), and the calls that insert *)

\* A longer window.
LEMMA ChainLonger ==
  ASSUME NEW U, NEW F, NEW E, Functions(F, E), NEW nx, NEW h, NEW g, NEW c,
         NEW top \in Nat, Chain(U, F, E, nx, h, g, c, top), NEW top2 \in Nat, top <= top2
  PROVE  Chain(U, F, E, nx, h, g, c, top2)
<1>1. \A n \in U : E[n] \in Int /\ E[n] < top
  BY DEF Chain, Placed, Functions
<1> QED
  BY <1>1 DEF Chain, Placed

\* Between two calls.
LEMMA IdleIs ==
  ASSUME LossTypes, NEW z, NEW c, NEW U, NEW F, NEW E, NEW top, Reads(z, c, U, F, E, top),
         pc = "idle"
  PROVE  /\ z = lo /\ losses = Nums(z, U, F, E) /\ First = m_iHead
         /\ Room = Window - top
         /\ side = "rcv" => RcvLinks(U)
<1>1. z = lo /\ losses = Nums(z, U, F, E) /\ First = m_iHead /\ (side = "rcv" => RcvLinks(U))
  BY DEF Reads, ListOK, CallOK, Idle, First
<1>2. z \in SeqNumbers /\ top = Off(z, incseq(hi)) /\ incseq(hi) \in SeqNumbers /\ Off(z, z) = 0
      /\ top \in Nat /\ Window \in Nat
  BY Basics, BehindLast, Sizes DEF Off, SeqNumbers
<1>3. seqlen(lo, incseq(hi)) = top + 1
  <2>1. Off(z, z) <= Off(z, incseq(hi))
    BY <1>2
  <2> QED BY <2>1, <1>1, <1>2, Length
<1> QED
  BY <1>1, <1>2, <1>3 DEF Room

\* One more number is outstanding.
LEMMA OneMoreOK ==
  ASSUME LossTypes, NEW z, NEW c, NEW U, NEW F, NEW E, NEW top, Reads(z, c, U, F, E, top),
         pc = "idle", Room > 0, hi' = incseq(hi),
         UNCHANGED <<arrays, ends, callVars, side, lo, losses>>
  PROVE  LossListInv'
<1>1. /\ UNCHANGED <<m_piData1, m_piData2, m_piNext, m_piPrior, m_iHead, m_iTail, m_iLength>>
      /\ UNCHANGED <<m_iLastInsertPos, pc, i, seqno1, seqno2, side, lo, losses>>
  BY DEF arrays, ends, callVars
<1>2. /\ z \in SeqNumbers /\ c \in Node /\ top \in Nat /\ top <= Window /\ top = Off(z, incseq(hi))
      /\ Functions(F, E) /\ Off(z, lo) <= top /\ Off(z, lo) \in Nat /\ Window \in Nat
      /\ incseq(hi) \in SeqNumbers
  BY Basics, BehindLast, Sizes
<1>3. z = lo /\ losses = Nums(z, U, F, E) /\ top + 1 <= Window
  BY <1>2, IdleIs
<1>4. /\ m_iLength = Count(z, U, F, E, None) /\ Chain(U, F, E, m_piNext, First, None, c, top)
      /\ First = m_iHead
  BY AtRest DEF First
<1>5. PICK top2 \in Nat : top2 = top + 1
  BY <1>2
<1>6. Top(z)' = top2
  <2>1. PICK s \in SeqNumbers : s = incseq(hi)
    BY <1>2
  <2>2. Off(z, incseq(s)) = Off(z, s) + 1
    BY <2>1, <1>2, NextNumber
  <2> QED BY <2>1, <2>2, <1>2, <1>5 DEF Top
<1>7. Chain(U, F, E, m_piNext, First, None, c, top2)
  BY <1>2, <1>4, <1>5, ChainLonger
<1>8. /\ Used' = U /\ Fst(z)' = F /\ Lst(z)' = E
      /\ Written(Used, Fst(z), Lst(z))'
  BY <1>1, ArraysKept
<1>9. LossTypes'
  <2>1. hi' \in SeqNumbers /\ hi' # None
    BY <1>2 DEF SeqNumbers, None
  <2> QED BY <2>1, <1>1 DEF LossTypes, Numbers
<1>10. First' = m_iHead /\ Growing' = None
  BY <1>1 DEF First, Growing
<1>11. ListOK(z, c, Used, Fst(z), Lst(z))'
  <2>1. CallOK(z, c, Used, Fst(z), Lst(z))'
    BY <1>1, <1>3, <1>8 DEF CallOK, Idle
  <2>2. side' = "snd" => m_iLastInsertPos' \in U \cup {None}
    BY <1>1 DEF Reads, ListOK
  <2>3. side' = "rcv" => RcvLinks(U)'
    <3>1. side = "rcv" => RcvLinks(U)
      BY DEF Reads, ListOK
    <3> QED BY <3>1, <1>1 DEF RcvLinks
  <2>4. side' = "rcv" => RcvLinks(Used)'
    BY <2>3, <1>8 DEF RcvLinks
  <2>5. Chain(U, F, E, m_piNext', First', None, c, top2)
    BY <1>1, <1>4, <1>7, <1>10
  <2>6. top2 <= Window /\ Off(z, lo') <= top2
    BY <1>1, <1>2, <1>3, <1>5
  <2> QED
    BY <2>1, <2>2, <2>4, <2>5, <2>6, <1>1, <1>4, <1>6, <1>8, <1>10 DEF ListOK
<1> QED
  BY <1>2, <1>9, <1>11 DEF LossListInv

\* Packets that the peer reports as lost are inserted into the sender's list.
LEMMA LostOK ==
  ASSUME LossTypes, NEW z, NEW c, NEW U, NEW F, NEW E, NEW top, Reads(z, c, U, F, E, top),
         Lost
  PROVE  LossListInv'
<1>1. PICK a \in Outstanding, b \in Outstanding :
        seqcmp(a, b) <= 0 /\ Insert(a, b) /\ losses' = losses \cup SeqRange(a, b)
  BY DEF Lost
<1>2. pc = "idle" /\ side = "snd" /\ UNCHANGED <<side, lo, hi>>
  BY DEF Lost
<1>3. z = lo /\ top = Top(z)
  BY <1>2 DEF Reads, ListOK, CallOK, Idle
<1>4. a \in SeqNumbers /\ Off(z, a) < top /\ b \in SeqNumbers /\ Off(z, b) < top
  BY <1>1, <1>3, OutstandingIs
<1>5. /\ z \in SeqNumbers /\ top \in Nat /\ top <= Window /\ Window \in Nat
      /\ Off(z, a) \in Nat /\ Off(z, b) \in Nat
  BY <1>4, Basics, Sizes
<1>6. Off(z, a) <= Window /\ Off(z, b) <= Window
  BY <1>4, <1>5
<1>7. Off(z, a) <= Off(z, b) /\ SeqRange(a, b) = Between(z, Off(z, a), Off(z, b))
  BY <1>1, <1>4, <1>5, <1>6, Compared, RangeBetween
<1>8. InsertStep(z, a, b)
  BY <1>1, <1>2, <1>3, <1>4, <1>7 DEF InsertStep
<1> QED
  BY <1>1, <1>8, InsertFirstOK, InsertBeforeOK, InsertAtOK, InsertSearchOK DEF Insert

\* The numbers from a to b, which are the next ones, are lost.
GapStep(z, a, b) ==
    /\ side = "rcv" /\ pc = "idle" /\ UNCHANGED <<side, lo>>
    /\ a \in SeqNumbers /\ b \in SeqNumbers
    /\ Off(z, a) = Top(z) /\ Off(z, a) <= Off(z, b) /\ Off(z, b) + 2 <= Window
    /\ hi' \in SeqNumbers /\ Top(z)' = Off(z, b) + 2
    /\ losses' = losses \cup Between(z, Off(z, a), Off(z, b))
    /\ m_iLength' = m_iLength + (Off(z, b) - Off(z, a) + 1)
    /\ UNCHANGED <<m_iLastInsertPos, pc, i, seqno1, seqno2>>

\* What an insertion into the receiver's list begins with.
LEMMA GapStarts ==
  ASSUME LossTypes, NEW z, NEW c, NEW U, NEW F, NEW E, NEW top, Reads(z, c, U, F, E, top),
         NEW a, NEW b, GapStep(z, a, b)
  PROVE  /\ a \in SeqNumbers /\ b \in SeqNumbers
         /\ Off(z, a) = top /\ Off(z, b) \in Nat /\ top <= Off(z, b) /\ Off(z, b) <= Window
         /\ Off(z, a) < Window /\ Off(z, a) <= Off(z, b)
         /\ Top(z)' \in Nat /\ Top(z)' = Off(z, b) + 2 /\ Top(z)' <= Window
         /\ top <= Top(z)' /\ Off(z, b) < Top(z)' /\ Off(z, lo') <= Top(z)'
         /\ pc = "idle" /\ pc' = "idle" /\ pc # "clear" /\ pc # "coalesce"
         /\ side = "rcv" /\ side' = "rcv" /\ lo' = z /\ z = lo
         /\ losses = Nums(z, U, F, E) /\ RcvLinks(U)
         /\ m_iLength = Count(z, U, F, E, None) /\ m_iLength \in Nat /\ m_iLength' \in Int
         /\ Chain(U, F, E, m_piNext, m_iHead, None, c, top)
         /\ First' = m_iHead' /\ Growing' = None
<1>1. /\ a \in SeqNumbers /\ b \in SeqNumbers /\ Off(z, a) = top /\ top <= Off(z, b)
      /\ Off(z, b) + 2 <= Window /\ Top(z)' = Off(z, b) + 2
      /\ pc = "idle" /\ side = "rcv" /\ pc' = "idle" /\ side' = "rcv" /\ lo' = lo
      /\ m_iLength' = m_iLength + (Off(z, b) - Off(z, a) + 1)
  BY DEF GapStep, Reads
<1>2. /\ Off(z, b) \in Nat /\ top \in Nat /\ Window \in Nat /\ Off(z, lo) <= top /\ Off(z, lo) \in Nat
  BY <1>1, Basics, Sizes
<1>3. z = lo /\ losses = Nums(z, U, F, E) /\ RcvLinks(U) /\ First = m_iHead
  BY <1>1, IdleIs
<1>4. /\ m_iLength = Count(z, U, F, E, None) /\ m_iLength \in Nat
      /\ Chain(U, F, E, m_piNext, m_iHead, None, c, top)
  BY <1>1, <1>3, AtRest
<1>5. First' = m_iHead' /\ Growing' = None
  BY <1>1 DEF First, Growing
<1>6. /\ Off(z, b) <= Window /\ Off(z, a) < Window /\ Off(z, a) <= Off(z, b) /\ Top(z)' \in Nat
      /\ Top(z)' <= Window /\ top <= Top(z)' /\ Off(z, b) < Top(z)' /\ Off(z, lo') <= Top(z)'
      /\ m_iLength' \in Int
  BY <1>1, <1>2, <1>4
<1> QED
  BY <1>1, <1>2, <1>3, <1>4, <1>5, <1>6

\* The first range of the receiver's list.
LEMMA RcvInsertFirstOK ==
  ASSUME LossTypes, NEW z, NEW c, NEW U, NEW F, NEW E, NEW top, Reads(z, c, U, F, E, top),
         NEW a, NEW b, GapStep(z, a, b), RcvInsertFirst(a, b)
  PROVE  LossListInv'
<1>1. /\ z \in SeqNumbers /\ U \in SUBSET Node /\ top \in Nat /\ top <= Window /\ top <= m_iSize
  BY Basics
<1>2. PICK oa \in Nat, ob \in Nat, top2 \in Nat : oa = Off(z, a) /\ ob = Off(z, b) /\ top2 = Top(z)'
  BY <1>1, GapStarts
<1>3. /\ a \in SeqNumbers /\ b \in SeqNumbers /\ oa <= ob /\ ob <= Window /\ oa < Window
      /\ top2 <= Window /\ ob < top2 /\ Off(z, lo') <= top2
      /\ pc = "idle" /\ pc' = "idle" /\ pc # "coalesce" /\ side' = "rcv" /\ lo' = z
      /\ losses = Nums(z, U, F, E) /\ m_iLength' \in Int
      /\ First' = m_iHead' /\ Growing' = None
  BY <1>2, GapStarts
<1>4. U = {}
  BY <1>3, EmptyList DEF RcvInsertFirst
<1>5. PICK x \in Node : x = 0
  BY Sizes DEF Node
<1>6. PICK c2 \in Node : At(c2, oa) = x
  <2>1. CASE oa = 0
    BY <2>1, <1>5, Sizes DEF At, Node
  <2>2. CASE oa > 0
    <3>1. m_iSize - oa \in Node /\ At(m_iSize - oa, oa) = x
      BY <2>2, <1>1, <1>3, <1>5, Sizes DEF At, Node
    <3> QED BY <3>1
  <2> QED BY <2>1, <2>2
<1>7. PICK U2, F2, E2, nx, pr : /\ U2 = Used' /\ F2 = Fst(z)' /\ E2 = Lst(z)'
                                /\ nx = m_piNext' /\ pr = m_piPrior'
  OBVIOUS
<1>8. /\ m_piData1' \in [Node -> Numbers] /\ m_piData2' \in [Node -> Numbers]
      /\ U2 = {x} /\ Functions(F2, E2) /\ F2[x] = oa /\ E2[x] = ob
      /\ Written(Used, Fst(z), Lst(z))'
  <2>1. NewWritten(x, a, b)
    BY <1>5 DEF NewWritten, RcvInsertFirst
  <2>2. /\ m_piData1' \in [Node -> Numbers] /\ m_piData2' \in [Node -> Numbers]
        /\ Used' = U \cup {x} /\ Functions(Fst(z)', Lst(z)')
        /\ Fst(z)'[x] = Off(z, a) /\ Lst(z)'[x] = Off(z, b)
        /\ Written(Used, Fst(z), Lst(z))'
    BY <2>1, <1>2, <1>3, <1>4, RangeWritten
  <2> QED BY <2>2, <1>2, <1>4, <1>7
<1>9. /\ nx \in [Node -> Nodes \cup {Unset}] /\ nx[x] = None /\ pr \in [Node -> Nodes \cup {Unset}]
      /\ m_iHead' = x /\ m_iTail' = x
  BY <1>5, <1>7 DEF LossTypes, RcvInsertFirst, Nodes
<1>10. Chain({x}, F2, E2, nx, x, None, c2, top2)
  BY <1>3, <1>6, <1>8, <1>9, ChainFirst
<1>11. m_iLength' = Count(z, {x}, F2, E2, None)
  <2>1. Nums(z, {}, F2, E2) = {}
    BY DEF Nums
  <2>2. PICK V : V = {x}
    OBVIOUS
  <2>3. x \in V /\ Functions(F2, E2) /\ Chain(V, F2, E2, nx, x, None, c2, top2)
    BY <2>2, <1>8, <1>10
  <2>4. Count(z, V, F2, E2, None) = Cardinality(Nums(z, V \ {x}, F2, E2)) + E2[x] - F2[x] + 1
    BY <2>3, <1>1, <1>3, CountApart
  <2>5. V \ {x} = {} /\ Cardinality(Nums(z, V \ {x}, F2, E2)) = 0
    BY <2>1, <2>2, FS_EmptySet
  <2>6. m_iLength = 0 /\ m_iLength' = m_iLength + (ob - oa + 1)
    BY <1>2 DEF RcvInsertFirst, GapStep
  <2> QED BY <2>2, <2>4, <2>5, <2>6, <1>8
<1>12. losses' = Nums(z, {x}, F2, E2)
  <2>1. losses = {}
    BY <1>3, <1>4 DEF Nums
  <2>2. Nums(z, {x}, F2, E2) = Between(z, oa, ob)
    BY <1>8 DEF Nums, Between
  <2> QED BY <2>1, <2>2, <1>2 DEF GapStep
<1>13. LossTypes'
  <2>1. /\ UNCHANGED <<m_iLastInsertPos, pc, i, seqno1, seqno2, side, lo>>
        /\ hi' \in SeqNumbers /\ hi' # None /\ losses' \subseteq SeqNumbers
    BY <1>12 DEF GapStep, Nums, SeqNumbers, None
  <2> QED BY <2>1, <1>3, <1>7, <1>8, <1>9 DEF LossTypes, Nodes, Numbers
<1>14. ListOK(z, c2, Used, Fst(z), Lst(z))'
  <2>1. CallOK(z, c2, Used, Fst(z), Lst(z))'
    BY <1>3, <1>7, <1>8, <1>12 DEF CallOK, Idle
  <2>2. RcvLinks(Used)'
    BY <1>7, <1>8, <1>9 DEF RcvLinks
  <2> QED
    BY <2>1, <2>2, <1>2, <1>3, <1>7, <1>8, <1>9, <1>10, <1>11 DEF ListOK
<1> QED
  BY <1>1, <1>6, <1>13, <1>14 DEF LossListInv

\* The new range continues the last one.
LEMMA RcvInsertJoinOK ==
  ASSUME LossTypes, NEW z, NEW c, NEW U, NEW F, NEW E, NEW top, Reads(z, c, U, F, E, top),
         NEW a, NEW b, GapStep(z, a, b), RcvInsertJoin(a, b)
  PROVE  LossListInv'
<1>1. /\ z \in SeqNumbers /\ c \in Node /\ U \in SUBSET Node /\ top \in Nat /\ top <= Window
      /\ Functions(F, E) /\ Window \in Nat
      /\ \A s \in SeqNumbers : Off(z, s) \in Nat
  BY Basics, Sizes
<1>2. PICK oa \in Nat, ob \in Nat, top2 \in Nat : oa = Off(z, a) /\ ob = Off(z, b) /\ top2 = Top(z)'
  BY <1>1, GapStarts
<1>3. /\ a \in SeqNumbers /\ b \in SeqNumbers /\ oa = top /\ oa <= ob /\ ob <= Window /\ oa < Window
      /\ top2 <= Window /\ top <= top2 /\ ob < top2 /\ Off(z, lo') <= top2
      /\ pc = "idle" /\ pc' = "idle" /\ pc # "coalesce" /\ side = "rcv" /\ side' = "rcv" /\ lo' = z
      /\ losses = Nums(z, U, F, E) /\ RcvLinks(U)
      /\ m_iLength = Count(z, U, F, E, None) /\ m_iLength \in Nat /\ m_iLength' \in Int
      /\ First' = m_iHead' /\ Growing' = None
      /\ Chain(U, F, E, m_piNext, m_iHead, None, c, top)
  BY <1>2, GapStarts
<1>4. U # {}
  BY <1>3, EmptyList DEF RcvInsertJoin
<1>5. PICK x, h, nx : x = m_iTail /\ h = m_iHead /\ nx = m_piNext
  OBVIOUS
<1>6. x \in U /\ nx[x] = None
  BY <1>3, <1>4, <1>5 DEF RcvLinks
<1>7. /\ m_piData2[x] # None /\ incseq(m_piData2[x]) = a
      /\ m_piData2' = [m_piData2 EXCEPT ![x] = b]
      /\ UNCHANGED <<m_piData1, m_piNext, m_piPrior, m_iHead, m_iTail>>
  BY <1>5 DEF RcvInsertJoin
<1>8. /\ x \in Node /\ F[x] \in Nat /\ E[x] \in Nat /\ F[x] < E[x] /\ E[x] < top
      /\ m_piData2[x] \in SeqNumbers /\ E[x] = Off(z, m_piData2[x])
  BY <1>6, <1>7, NodeIs
<1>9. E[x] + 1 = oa
  <2>1. Off(z, m_piData2[x]) <= Window
    BY <1>1, <1>8
  <2> QED BY <2>1, <1>1, <1>2, <1>7, <1>8, NextNumber
<1>10. PICK d1, d2, U2, F2, E2 : /\ d1 = m_piData1' /\ d2 = m_piData2'
                                 /\ U2 = Used' /\ F2 = Fst(z)' /\ E2 = Lst(z)'
  OBVIOUS
<1>11. /\ d1 \in [Node -> Numbers] /\ d2 \in [Node -> Numbers] /\ d2[x] = b /\ b # None
       /\ \A m \in Node : d1[m] = m_piData1[m] /\ (m # x => d2[m] = m_piData2[m])
  BY <1>3, <1>7, <1>8, <1>10 DEF LossTypes, Numbers, SeqNumbers, None
<1>12. /\ U2 = U /\ Functions(F2, E2) /\ E2[x] = ob
       /\ \A m \in U : F2[m] = F[m] /\ (m # x => E2[m] = E[m])
       /\ Written(Used, Fst(z), Lst(z))'
  <2>1. /\ U2 \in SUBSET Node /\ Functions(F2, E2)
        /\ \A m \in Node : m \in U2 <=> d1[m] # None
        /\ \A m \in Node : m \in U <=> m_piData1[m] # None
        /\ \A m \in Node : d2[m] # None => E2[m] = Off(z, d2[m])
        /\ \A m \in Node : d1[m] = m_piData1[m] => F2[m] = F[m]
        /\ \A m \in Node : d1[m] = m_piData1[m] /\ d2[m] = m_piData2[m] => E2[m] = E[m]
        /\ \A m \in Node \ U : m_piData2[m] = None
        /\ \A m \in U : m_piData2[m] # None => F[m] < E[m]
        /\ Written(Used, Fst(z), Lst(z))'
             <=> /\ \A m \in Node \ U2 : d2[m] = None
                 /\ \A m \in U2 : d2[m] # None => F2[m] < E2[m]
    BY <1>10, <1>11, Rewritten
  <2>2. U2 = U
    BY <2>1, <1>1, <1>11
  <2>3. E2[x] = ob /\ \A m \in U : F2[m] = F[m] /\ (m # x => E2[m] = E[m])
    BY <2>1, <1>1, <1>2, <1>8, <1>11
  <2>4. \A m \in Node \ U2 : d2[m] = None
    BY <2>1, <2>2, <1>6, <1>11
  <2>5. \A m \in U2 : d2[m] # None => F2[m] < E2[m]
    <3>1. F2[x] < E2[x]
      BY <2>3, <1>3, <1>6, <1>8
    <3> QED BY <3>1, <2>1, <2>2, <2>3, <1>1, <1>11
  <2> QED BY <2>1, <2>2, <2>3, <2>4, <2>5
<1>13. F2 = F
  <2>1. UsedOf(d1) = UsedOf(m_piData1) /\ F2 = FirstsOf(z, d1) /\ F = FirstsOf(z, m_piData1)
        /\ d1 = m_piData1
    BY <1>7, <1>10, ReadingNow DEF Reads
  <2> QED BY <2>1
<1>14. Chain(U, F, E2, nx, h, None, c, top2)
  <2>1. Chain(U, F, E, nx, h, None, c, top)
    BY <1>3, <1>5
  <2>2. F[x] <= E2[x] /\ E2[x] < top2
    BY <1>3, <1>8, <1>12
  <2>3. Functions(F, E2) /\ \A m \in U : m # x => E2[m] = E[m]
    BY <1>12, <1>13
  <2> QED BY <2>1, <2>2, <2>3, <1>1, <1>3, <1>6, ChainResized
<1>15. m_iLength' = Count(z, U, F, E2, None)
  <2>1. Chain(U, F, E, nx, h, None, c, top)
    BY <1>3, <1>5
  <2>2. Functions(F, E2) /\ \A m \in U : m # x => E2[m] = E[m]
    BY <1>12, <1>13
  <2>3. Count(z, U, F, E2, None) = Count(z, U, F, E, None) + E2[x] - E[x]
    BY <2>1, <2>2, <1>1, <1>3, <1>6, <1>14, CountResized
  <2>4. m_iLength' = m_iLength + (ob - oa + 1)
    BY <1>2 DEF GapStep
  <2> QED BY <2>3, <2>4, <1>3, <1>8, <1>9, <1>12
<1>16. losses' = Nums(z, U, F, E2)
  <2>0. x \in U
    BY <1>6
  <2>1. Nums(z, U, F, E) = Nums(z, U \ {x}, F, E) \cup Between(z, F[x], E[x])
    BY ONLY <2>0, NumsWith
  <2>2. Nums(z, U, F, E2) = Nums(z, U \ {x}, F, E2) \cup Between(z, F[x], E2[x])
    BY ONLY <2>0, NumsWith
  <2>3. Nums(z, U \ {x}, F, E2) = Nums(z, U \ {x}, F, E)
    BY <1>12, NumsSame
  <2>4. Between(z, F[x], E2[x]) = Between(z, F[x], E[x]) \cup Between(z, oa, ob)
    BY <1>1, <1>3, <1>8, <1>9, <1>12 DEF Between
  <2>5. losses' = losses \cup Between(z, oa, ob)
    BY <1>2 DEF GapStep
  <2> QED BY <2>1, <2>2, <2>3, <2>4, <2>5, <1>3
<1>17. LossTypes'
  <2>1. /\ UNCHANGED <<m_iLastInsertPos, pc, i, seqno1, seqno2, side, lo>>
        /\ hi' \in SeqNumbers /\ hi' # None /\ losses' \subseteq SeqNumbers
    BY <1>16 DEF GapStep, Nums, SeqNumbers, None
  <2> QED BY <2>1, <1>3, <1>7, <1>10, <1>11 DEF LossTypes, Numbers
<1>18. ListOK(z, c, Used, Fst(z), Lst(z))'
  <2>1. CallOK(z, c, Used, Fst(z), Lst(z))'
    BY <1>3, <1>10, <1>12, <1>13, <1>16 DEF CallOK, Idle
  <2>2. RcvLinks(Used)'
    BY <1>3, <1>7, <1>10, <1>12 DEF RcvLinks
  <2> QED
    BY <2>1, <2>2, <1>2, <1>3, <1>5, <1>7, <1>10, <1>12, <1>13, <1>14, <1>15 DEF ListOK
<1> QED
  BY <1>1, <1>17, <1>18 DEF LossListInv

\* The new range becomes the last one.
LEMMA RcvInsertLastOK ==
  ASSUME LossTypes, NEW z, NEW c, NEW U, NEW F, NEW E, NEW top, Reads(z, c, U, F, E, top),
         NEW a, NEW b, GapStep(z, a, b), RcvInsertLast(a, b)
  PROVE  LossListInv'
<1>1. /\ z \in SeqNumbers /\ c \in Node /\ U \in SUBSET Node /\ top \in Nat /\ top <= Window
      /\ Functions(F, E) /\ Window \in Nat /\ m_iSize \in Nat /\ Window <= m_iSize /\ None \notin U
      /\ top <= m_iSize
  BY Basics, Sizes
<1>2. PICK oa \in Nat, ob \in Nat, top2 \in Nat : oa = Off(z, a) /\ ob = Off(z, b) /\ top2 = Top(z)'
  BY <1>1, GapStarts
<1>3. /\ a \in SeqNumbers /\ b \in SeqNumbers /\ oa = top /\ oa <= ob /\ ob <= Window /\ oa < Window
      /\ top2 <= Window /\ top <= top2 /\ ob < top2 /\ Off(z, lo') <= top2
      /\ pc = "idle" /\ pc' = "idle" /\ pc # "coalesce" /\ pc # "clear"
      /\ side = "rcv" /\ side' = "rcv" /\ lo' = z
      /\ losses = Nums(z, U, F, E) /\ RcvLinks(U)
      /\ m_iLength = Count(z, U, F, E, None) /\ m_iLength \in Nat /\ m_iLength' \in Int
      /\ First' = m_iHead' /\ Growing' = None
      /\ Chain(U, F, E, m_piNext, m_iHead, None, c, top)
  BY <1>2, GapStarts
<1>4. U # {}
  BY <1>3, EmptyList DEF RcvInsertLast
<1>5. PICK t, h, nx, nx2, pr, pr2 :
        /\ t = m_iTail /\ h = m_iHead /\ nx = m_piNext /\ nx2 = m_piNext'
        /\ pr = m_piPrior /\ pr2 = m_piPrior'
  OBVIOUS
<1>6. /\ t \in U /\ nx[t] = None /\ h \in U
      /\ \A n \in U : n # h => pr[n] \in U /\ nx[pr[n]] = n
  <2>1. h \in U
    BY <1>3, <1>4, <1>5, HeadIs
  <2> QED BY <2>1, <1>3, <1>4, <1>5 DEF RcvLinks
<1>7. \A n \in U : F[n] \in Nat /\ E[n] \in Nat /\ F[n] <= E[n] /\ E[n] < top
  BY NodeIs
<1>8. PICK x \in Node : x = Place(a) /\ x = At(c, oa) /\ x \notin U
  <2>0. Off(z, a) < Window /\ a \in SeqNumbers /\ pc # "clear" /\ U # {}
    BY <1>2, <1>3, <1>4
  <2>4. Place(a) = At(c, Off(z, a)) /\ Place(a) \in Node
    BY <2>0, PlaceIs
  <2>1. Place(a) = At(c, oa) /\ Place(a) \in Node
    BY <2>4, <1>2
  <2>2. oa < m_iSize /\ \A n \in U : F[n] # oa
    BY <1>1, <1>3, <1>7
  <2>3. At(c, oa) \notin U
    BY <2>2, <1>1, <1>3, FreePlace
  <2> QED BY <2>1, <2>3
<1>9. /\ m_piData1' = [m_piData1 EXCEPT ![x] = a]
      /\ m_piData2' = [m_piData2 EXCEPT ![x] = Second(x, a, b)]
      /\ nx2 = [nx EXCEPT ![x] = None, ![t] = x]
      /\ pr2 = [pr EXCEPT ![x] = t]
      /\ m_iTail' = x /\ m_iHead' = h
  BY <1>5, <1>8 DEF RcvInsertLast
<1>10. PICK U2, F2, E2 : U2 = Used' /\ F2 = Fst(z)' /\ E2 = Lst(z)'
  OBVIOUS
<1>11. /\ m_piData1' \in [Node -> Numbers] /\ m_piData2' \in [Node -> Numbers]
       /\ U2 = U \cup {x} /\ Functions(F2, E2) /\ F2[x] = oa /\ E2[x] = ob
       /\ \A m \in U : F2[m] = F[m] /\ E2[m] = E[m]
       /\ Written(Used, Fst(z), Lst(z))'
  <2>1. NewWritten(x, a, b)
    BY <1>9 DEF NewWritten
  <2>2. /\ m_piData1' \in [Node -> Numbers] /\ m_piData2' \in [Node -> Numbers]
        /\ Used' = U \cup {x} /\ Functions(Fst(z)', Lst(z)')
        /\ Fst(z)'[x] = Off(z, a) /\ Lst(z)'[x] = Off(z, b)
        /\ \A m \in U : Fst(z)'[m] = F[m] /\ Lst(z)'[m] = E[m]
        /\ Written(Used, Fst(z), Lst(z))'
    <3>1. Off(z, a) <= Off(z, b) /\ Off(z, b) <= Window
      BY <1>2, <1>3
    <3>2. a \in SeqNumbers /\ b \in SeqNumbers /\ x \in Node /\ x \notin U
      BY <1>3, <1>8
    <3> QED BY <2>1, <3>1, <3>2, RangeWritten
  <2> QED BY <2>2, <1>2, <1>10
<1>12. /\ nx2 \in [Node -> Nodes \cup {Unset}] /\ nx2[t] = x /\ nx2[x] = None
       /\ \A m \in U : m # t => nx2[m] = nx[m]
       /\ pr2 \in [Node -> Nodes \cup {Unset}] /\ pr2[x] = t
       /\ \A m \in U : pr2[m] = pr[m]
  <2>1. /\ nx \in [Node -> Nodes \cup {Unset}] /\ t \in Node /\ t # x /\ x \in Nodes /\ t \in Nodes
        /\ pr \in [Node -> Nodes \cup {Unset}]
    BY <1>1, <1>5, <1>6, <1>8 DEF LossTypes, Nodes
  <2> QED BY <2>1, <1>1, <1>8, <1>9 DEF Nodes
<1>13. Chain(U \cup {x}, F2, E2, nx2, h, None, c, top2)
  <2>1. Chain(U, F, E, nx, h, None, c, top)
    BY <1>3, <1>5
  <2>2. Linked(U, F, E, nx, F2, E2, nx2, t, x)
    BY <1>3, <1>6, <1>7, <1>11, <1>12 DEF Linked
  <2>3. x \in Node /\ x \notin U /\ x = At(c, F2[x]) /\ F2[x] <= E2[x] /\ E2[x] < top2 /\ Functions(F2, E2)
    BY <1>3, <1>8, <1>11
  <2> QED BY <2>1, <2>2, <2>3, <1>1, <1>3, <1>6, ChainNew
<1>14. m_iLength' = Count(z, U \cup {x}, F2, E2, None)
  <2>1. Count(z, U \cup {x}, F2, E2, None) = Count(z, U, F, E, None) + E2[x] - F2[x] + 1
    BY <1>1, <1>3, <1>8, <1>11, <1>13, CountLast
  <2>2. m_iLength' = m_iLength + (ob - oa + 1)
    BY <1>2 DEF GapStep
  <2> QED BY <2>1, <2>2, <1>3, <1>11
<1>15. losses' = Nums(z, U2, F2, E2)
  <2>1. Nums(z, U2, F2, E2) = Nums(z, U, F, E) \cup Between(z, oa, ob)
    BY <1>11 DEF Nums, Between
  <2> QED BY <2>1, <1>2, <1>3 DEF GapStep
<1>16. LossTypes'
  <2>1. /\ UNCHANGED <<m_iLastInsertPos, pc, i, seqno1, seqno2, side, lo>>
        /\ hi' \in SeqNumbers /\ hi' # None /\ losses' \subseteq SeqNumbers
    BY <1>15 DEF GapStep, Nums, SeqNumbers, None
  <2> QED BY <2>1, <1>1, <1>3, <1>5, <1>6, <1>8, <1>9, <1>11, <1>12 DEF LossTypes, Nodes, Numbers
<1>17. ListOK(z, c, Used, Fst(z), Lst(z))'
  <2>1. CallOK(z, c, Used, Fst(z), Lst(z))'
    BY <1>3, <1>10, <1>15 DEF CallOK, Idle
  <2>2. RcvLinks(Used)'
    <3>1. ASSUME NEW n \in U2, n # h PROVE pr2[n] \in U2 /\ nx2[pr2[n]] = n
      <4>1. CASE n = x
        BY <4>1, <1>6, <1>11, <1>12
      <4>2. CASE n \in U
        <5>1. pr[n] \in U /\ nx[pr[n]] = n /\ n # None /\ pr2[n] = pr[n]
          BY <4>2, <3>1, <1>1, <1>6, <1>12
        <5>2. pr[n] # t
          BY <5>1, <1>6
        <5> QED BY <5>1, <5>2, <1>11, <1>12
      <4> QED BY <4>1, <4>2, <1>11
    <3>2. x \in U2 /\ nx2[x] = None
      BY <1>11, <1>12
    <3> QED BY <3>1, <3>2, <1>5, <1>9, <1>10 DEF RcvLinks
  <2> QED
    BY <2>1, <2>2, <1>2, <1>3, <1>5, <1>9, <1>10, <1>11, <1>13, <1>14 DEF ListOK
<1> QED
  BY <1>1, <1>16, <1>17 DEF LossListInv

\* A packet arrives that is not the next one.
LEMMA ArrivesAfterGapOK ==
  ASSUME LossTypes, NEW z, NEW c, NEW U, NEW F, NEW E, NEW top, Reads(z, c, U, F, E, top),
         ArrivesAfterGap
  PROVE  LossListInv'
<1>1. PICK n \in 1 .. Room - 1 :
        /\ hi' = incseqBy(incseq(hi), n)
        /\ RcvInsert(incseq(hi), decseq(hi'))
        /\ losses' = losses \cup SeqRange(incseq(hi), decseq(hi'))
  BY DEF ArrivesAfterGap
<1>2. pc = "idle" /\ side = "rcv" /\ UNCHANGED <<side, lo>>
  BY DEF ArrivesAfterGap
<1>3. /\ z \in SeqNumbers /\ top \in Nat /\ Window \in Nat /\ top = Off(z, incseq(hi)) /\ top = Top(z)
      /\ Room = Window - top
  BY <1>2, Basics, IdleIs, Sizes DEF Reads
<1>4. n \in Nat /\ n >= 1 /\ top + n + 1 <= Window
  BY <1>1, <1>3
<1>5. PICK a \in SeqNumbers : a = incseq(hi) /\ Off(z, a) = top
  BY <1>3, BehindLast
<1>6. PICK k \in SeqNumbers : k = hi' /\ Off(z, k) = top + n
  <2>1. Off(z, a) + n <= Window
    BY <1>3, <1>4, <1>5
  <2>2. incseqBy(a, n) \in SeqNumbers /\ Off(z, incseqBy(a, n)) = Off(z, a) + n
    BY <2>1, <1>3, <1>4, Further
  <2> QED BY <2>2, <1>1, <1>5
<1>7. PICK b \in SeqNumbers : b = decseq(k) /\ Off(z, b) = top + n - 1
  BY <1>3, <1>4, <1>6, NextNumber
<1>8. Off(z, incseq(k)) = top + n + 1
  <2>1. Off(z, k) <= Window
    BY <1>3, <1>4, <1>6
  <2> QED BY <2>1, <1>3, <1>6, NextNumber
<1>9. Off(z, a) <= Window /\ Off(z, b) <= Window /\ Off(z, a) <= Off(z, b)
  BY <1>3, <1>4, <1>5, <1>7
<1>10. SeqRange(a, b) = Between(z, Off(z, a), Off(z, b)) /\ seqlen(a, b) = Off(z, b) - Off(z, a) + 1
  BY <1>3, <1>9, RangeBetween, Length
<1>11. /\ RcvInsert(a, b) /\ hi' \in SeqNumbers
       /\ losses' = losses \cup Between(z, Off(z, a), Off(z, b))
  BY <1>1, <1>5, <1>6, <1>7, <1>10
<1>12. GapStep(z, a, b)
  <2>1. Top(z)' = Off(z, b) + 2
    BY <1>3, <1>4, <1>6, <1>7, <1>8 DEF Top
  <2>2. Off(z, a) = Top(z) /\ Off(z, b) + 2 <= Window
    BY <1>3, <1>4, <1>5, <1>7
  <2>3. m_iLength' = m_iLength + (Off(z, b) - Off(z, a) + 1)
    BY <1>10, <1>11 DEF RcvInsert
  <2>4. UNCHANGED <<m_iLastInsertPos, pc, i, seqno1, seqno2>>
    BY <1>11 DEF RcvInsert, callVars
  <2> QED BY <2>1, <2>2, <2>3, <2>4, <1>2, <1>9, <1>11 DEF GapStep
<1> QED
  BY <1>11, <1>12, RcvInsertFirstOK, RcvInsertJoinOK, RcvInsertLastOK DEF RcvInsert


-------------------------------------------------------------------------------
(* CRcvLossList::remove() *)

\* The links of the receiver's list: what they lead back from, and what has no range behind it.
LEMMA LinksAre ==
  ASSUME LossTypes, NEW z, NEW c, NEW U, NEW F, NEW E, NEW top, Reads(z, c, U, F, E, top),
         side = "rcv", NEW nx, nx = m_piNext, NEW pr, pr = m_piPrior,
         NEW h, h = m_iHead, NEW t, t = m_iTail, NEW n \in U
  PROVE  /\ h \in U /\ t \in U /\ nx[t] = None
         /\ \A m \in U : m # h => pr[m] \in U /\ nx[pr[m]] = m
         /\ \A m \in U : nx[m] \in Nodes /\ nx[m] # m /\ nx[m] # h
         /\ \A m, k \in U : nx[m] = k => pr[k] = m
         /\ \A m \in U : nx[m] = None => m = t
         /\ nx \in [Node -> Nodes \cup {Unset}] /\ pr \in [Node -> Nodes \cup {Unset}]
<1>1. pc # "coalesce" /\ pc # "clear" /\ U # {}
  BY DEF LossTypes
<1>2. /\ Chain(U, F, E, nx, h, None, c, top) /\ U \subseteq Node /\ None \notin U
      /\ \A m, k \in U : F[m] = F[k] => m = k
  BY <1>1, AtRest, HeadIs, Basics
<1>3. \A m \in U : F[m] \in Nat
  BY NodeIs
<1>4. RcvLinks(U)
  BY DEF Reads, ListOK
<1>5. /\ t \in U /\ nx[t] = None
      /\ \A m \in U : m # h => pr[m] \in U /\ nx[pr[m]] = m
  BY <1>1, <1>4 DEF RcvLinks
<1>6. h \in U /\ \A m \in U : F[h] <= F[m]
  BY <1>1, HeadIs
<1>7. /\ \A m \in U : nx[m] = None => \A k \in U : F[k] <= F[m]
      /\ \A m \in U : nx[m] # None => /\ nx[m] \in U /\ F[m] < F[nx[m]]
                                      /\ \A k \in U : F[k] <= F[m] \/ F[nx[m]] <= F[k]
  BY <1>2 DEF Chain, Follows
<1>8. \A m \in U : nx[m] \in Nodes /\ nx[m] # m /\ nx[m] # h
  <2>1. TAKE m \in U
  <2>2. CASE nx[m] = None
    BY <2>2, <1>2, <1>6 DEF Nodes
  <2>3. CASE nx[m] # None
    BY <2>3, <1>2, <1>3, <1>6, <1>7 DEF Nodes
  <2> QED BY <2>2, <2>3
<1>9. ASSUME NEW m \in U, NEW k \in U, nx[m] = k PROVE pr[k] = m
  <2>1. k # h /\ k # None
    BY <1>2, <1>8, <1>9
  <2>2. PICK p \in U : p = pr[k] /\ nx[p] = k
    BY <2>1, <1>5
  <2>3. /\ F[m] < F[k] /\ (F[p] <= F[m] \/ F[k] <= F[p])
        /\ F[p] < F[k] /\ (F[m] <= F[p] \/ F[k] <= F[m])
    BY <2>1, <2>2, <1>7, <1>9
  <2>4. F[m] = F[p]
    BY <2>3, <1>3
  <2> QED BY <2>2, <2>4, <1>2
<1>10. ASSUME NEW m \in U, nx[m] = None PROVE m = t
  <2>1. F[m] <= F[t] /\ F[t] <= F[m]
    BY <1>5, <1>7, <1>10
  <2> QED BY <2>1, <1>2, <1>3, <1>5
<1> QED
  BY <1>5, <1>6, <1>8, <1>9, <1>10 DEF LossTypes

\* A number that the list has is in the last range that begins with it or before it.
LEMMA OnlyThere ==
  ASSUME LossTypes, NEW z, NEW c, NEW U, NEW F, NEW E, NEW top, Reads(z, c, U, F, E, top),
         pc # "coalesce", NEW o \in Nat, NEW n \in U, F[n] <= o,
         \A m \in U : F[m] <= F[n] \/ o < F[m]
  PROVE  \A m \in U : F[m] <= o /\ o <= E[m] => m = n
<1>1. \A m \in U : F[m] \in Nat /\ E[m] \in Nat
  BY NodeIs
<1>2. /\ \A m, k \in U : F[m] < F[k] => E[m] < F[k]
      /\ \A m, k \in U : F[m] = F[k] => m = k
  BY AtRest
<1> QED
  BY <1>1, <1>2

\* One number less is on the list, and the call is over.
RcvSettled(z, c, U2, F2, E2, top) ==
    /\ U2 = Used' /\ F2 = Fst(z)' /\ E2 = Lst(z)'
    /\ m_piData1' \in [Node -> Numbers] /\ m_piData2' \in [Node -> Numbers]
    /\ m_piNext' \in [Node -> Nodes \cup {Unset}] /\ m_piPrior' \in [Node -> Nodes \cup {Unset}]
    /\ m_iHead' \in Nodes /\ m_iTail' \in Nodes
    /\ UNCHANGED <<m_iLastInsertPos, side, lo, hi>>
    /\ pc' = "idle" /\ i' \in Nodes /\ seqno1' \in Numbers /\ seqno2' \in Numbers
    /\ Chain(U2, F2, E2, m_piNext', m_iHead', None, c, top)
    /\ Written(Used, Fst(z), Lst(z))'
    /\ m_iLength' = m_iLength - 1 /\ m_iLength' = Count(z, U2, F2, E2, None)
    /\ RcvLinks(U2)'
    /\ losses' = Nums(z, U2, F2, E2)

\* When a removal from the receiver's list is over, the invariant holds if the chain is in order.
LEMMA RcvSettledOK ==
  ASSUME LossTypes, NEW z, NEW c, NEW U, NEW F, NEW E, NEW top, Reads(z, c, U, F, E, top),
         side = "rcv", z = lo, NEW U2, NEW F2, NEW E2, RcvSettled(z, c, U2, F2, E2, top)
  PROVE  LossListInv'
<1>1. /\ z \in SeqNumbers /\ c \in Node /\ top <= Window /\ Off(z, lo) <= top /\ top = Top(z)
  BY Basics DEF Reads
<1>2. /\ U2 = Used' /\ F2 = Fst(z)' /\ E2 = Lst(z)'
      /\ m_piData1' \in [Node -> Numbers] /\ m_piData2' \in [Node -> Numbers]
      /\ m_piNext' \in [Node -> Nodes \cup {Unset}] /\ m_piPrior' \in [Node -> Nodes \cup {Unset}]
      /\ m_iHead' \in Nodes /\ m_iTail' \in Nodes
      /\ UNCHANGED <<m_iLastInsertPos, side, lo, hi>>
      /\ pc' = "idle" /\ i' \in Nodes /\ seqno1' \in Numbers /\ seqno2' \in Numbers
      /\ Chain(U2, F2, E2, m_piNext', m_iHead', None, c, top)
      /\ Written(Used, Fst(z), Lst(z))'
      /\ m_iLength' = m_iLength - 1 /\ m_iLength' = Count(z, U2, F2, E2, None)
      /\ losses' = Nums(z, U2, F2, E2)
  BY DEF RcvSettled
<1>3. RcvLinks(Used)'
  BY <1>2 DEF RcvSettled, RcvLinks
<1>4. Top(z)' = top /\ Growing' = None /\ First' = m_iHead'
  BY <1>1, <1>2 DEF Top, Growing, First
<1>5. LossTypes'
  <2>1. losses' \subseteq SeqNumbers /\ m_iLength' \in Int
    BY <1>2 DEF Nums, LossTypes
  <2> QED BY <2>1, <1>2 DEF LossTypes
<1>6. ListOK(z, c, Used, Fst(z), Lst(z))'
  <2>1. CallOK(z, c, Used, Fst(z), Lst(z))'
    BY <1>2 DEF CallOK, Idle
  <2>2. Top(z)' <= Window /\ Off(z, lo') <= Top(z)'
    BY <1>1, <1>2, <1>4
  <2> QED BY <2>1, <2>2, <1>2, <1>3, <1>4 DEF ListOK
<1> QED
  BY <1>1, <1>5, <1>6 DEF LossListInv

\* The number s is to be taken off.
FoundStep(z, U, F, E, s) ==
    /\ side = "rcv" /\ pc = "idle" /\ UNCHANGED <<side, lo, hi>>
    /\ s \in SeqNumbers /\ Off(z, s) < Top(z)
    /\ losses' = Nums(z, U, F, E) \ {s}

\* What a removal from the receiver's list begins with.
LEMMA FoundStarts ==
  ASSUME LossTypes, NEW z, NEW c, NEW U, NEW F, NEW E, NEW top, Reads(z, c, U, F, E, top),
         NEW s, FoundStep(z, U, F, E, s)
  PROVE  /\ z = lo /\ side = "rcv" /\ pc = "idle" /\ pc # "clear" /\ pc # "coalesce"
         /\ s \in SeqNumbers /\ Off(z, s) \in Nat /\ Off(z, s) < top /\ Off(z, s) < Window
         /\ UNCHANGED <<side, lo, hi>> /\ losses' = Nums(z, U, F, E) \ {s}
<1>1. /\ side = "rcv" /\ pc = "idle" /\ s \in SeqNumbers /\ Off(z, s) < top
      /\ UNCHANGED <<side, lo, hi>> /\ losses' = Nums(z, U, F, E) \ {s}
  BY DEF FoundStep, Reads
<1>2. z = lo
  BY <1>1, IdleIs
<1>3. Off(z, s) \in Nat /\ top \in Nat /\ top <= Window /\ Window \in Nat
  BY <1>1, Basics, Sizes
<1> QED
  BY <1>1, <1>2, <1>3

\* A number that is not on the list: the call leaves all as it is.
LEMMA NotThereOK ==
  ASSUME LossTypes, NEW z, NEW c, NEW U, NEW F, NEW E, NEW top, Reads(z, c, U, F, E, top),
         z = lo, pc = "idle" \/ pc = "back", NEW s \in SeqNumbers,
         \A n \in U : ~(F[n] <= Off(z, s) /\ Off(z, s) <= E[n]),
         losses' = Nums(z, U, F, E) \ {s},
         UNCHANGED <<m_piData1, m_piData2, m_piNext, m_piPrior>>,
         UNCHANGED <<m_iHead, m_iTail, m_iLength, m_iLastInsertPos, side, lo, hi>>,
         pc' = "idle", i' \in Nodes, seqno1' \in Numbers, seqno2' \in Numbers
  PROVE  LossListInv'
<1>1. z \in SeqNumbers /\ Off(z, z) = 0 /\ top \in Nat
  BY Basics, Sizes DEF Off, SeqNumbers
<1>2. \A n \in U : F[n] \in Nat
  BY NodeIs
<1>3. PICK y \in SeqNumbers : y = z
  BY <1>1
<1>4. /\ Off(z, y) <= top /\ \A n \in U : Off(z, y) <= F[n]
      /\ pc # "coalesce" /\ First = m_iHead /\ (hi = None => y = 0) /\ lo' = y
  BY <1>1, <1>2, <1>3 DEF First, LossTypes
<1>5. losses' = Nums(z, U, F, E)
  BY DEF Nums
<1> QED
  BY <1>4, <1>5, RebasedOK

\* The receiver's list is empty.
LEMMA RcvRemoveNothingOK ==
  ASSUME LossTypes, NEW z, NEW c, NEW U, NEW F, NEW E, NEW top, Reads(z, c, U, F, E, top),
         NEW s, FoundStep(z, U, F, E, s), RcvRemoveNothing(s)
  PROVE  LossListInv'
<1>1. /\ z = lo /\ side = "rcv" /\ pc = "idle" /\ pc # "clear" /\ pc # "coalesce"
      /\ s \in SeqNumbers /\ Off(z, s) \in Nat /\ Off(z, s) < top /\ Off(z, s) < Window
      /\ UNCHANGED <<side, lo, hi>> /\ losses' = Nums(z, U, F, E) \ {s}
  BY FoundStarts
<1>2. ASSUME NEW n \in U PROVE ~(F[n] <= Off(z, s) /\ Off(z, s) <= E[n])
  <2>1. U # {}
    OBVIOUS
  <2>2. m_iLength > 0
    BY <2>1, <1>1, EmptyList
  <2>3. seqoff(m_piData1[m_iHead], s) = Off(z, s) - F[m_iHead]
    BY <2>1, <1>1, PlaceIs
  <2>4. PICK h \in U : h = m_iHead /\ F[h] <= F[n]
    BY <2>1, <1>1, HeadIs
  <2>5. F[h] \in Nat /\ F[n] \in Nat
    BY NodeIs
  <2> QED BY <2>2, <2>3, <2>4, <2>5, <1>1 DEF RcvRemoveNothing
<1>3. /\ UNCHANGED <<m_piData1, m_piData2, m_piNext, m_piPrior>>
      /\ UNCHANGED <<m_iHead, m_iTail, m_iLength, m_iLastInsertPos, side, lo, hi>>
      /\ pc' = "idle" /\ i' \in Nodes /\ seqno1' \in Numbers /\ seqno2' \in Numbers
  BY <1>1 DEF RcvRemoveNothing, arrays, ends, callVars, LossTypes
<1> QED
  BY <1>1, <1>2, <1>3, NotThereOK

\* A range of one number goes, and its neighbours are linked.
LEMMA RcvUnlinkOK ==
  ASSUME LossTypes, NEW z, NEW c, NEW U, NEW F, NEW E, NEW top, Reads(z, c, U, F, E, top),
         NEW s, FoundStep(z, U, F, E, s), NEW n \in U, m_piData1[n] = s, RcvUnlink(n),
         m_iLength' = m_iLength - 1, UNCHANGED <<m_iLastInsertPos, callVars>>
  PROVE  LossListInv'
<1>1. /\ z = lo /\ side = "rcv" /\ pc = "idle" /\ pc # "clear" /\ pc # "coalesce"
      /\ s \in SeqNumbers /\ Off(z, s) \in Nat
      /\ UNCHANGED <<side, lo, hi>> /\ losses' = Nums(z, U, F, E) \ {s}
  BY FoundStarts
<1>2. /\ z \in SeqNumbers /\ c \in Node /\ U \in SUBSET Node /\ None \notin U
      /\ top \in Nat /\ top <= Window /\ top <= m_iSize /\ Functions(F, E)
  BY Basics
<1>3. PICK nx, pr, h, t, nx2, pr2 :
        /\ nx = m_piNext /\ pr = m_piPrior /\ h = m_iHead /\ t = m_iTail
        /\ nx2 = m_piNext' /\ pr2 = m_piPrior'
  OBVIOUS
<1>4. /\ h \in U /\ t \in U /\ nx[t] = None
      /\ \A m \in U : m # h => pr[m] \in U /\ nx[pr[m]] = m
      /\ \A m \in U : nx[m] \in Nodes /\ nx[m] # m /\ nx[m] # h
      /\ \A m, k \in U : nx[m] = k => pr[k] = m
      /\ \A m \in U : nx[m] = None => m = t
      /\ nx \in [Node -> Nodes \cup {Unset}] /\ pr \in [Node -> Nodes \cup {Unset}]
  BY <1>1, <1>3, LinksAre
<1>5. /\ m_iLength = Count(z, U, F, E, None) /\ m_iLength \in Nat
      /\ Chain(U, F, E, nx, h, None, c, top)
      /\ \A m, k \in U : F[m] = F[k] => m = k
  BY <1>1, <1>3, AtRest DEF First
<1>6. /\ n \in Node /\ F[n] = Off(z, s) /\ E[n] = F[n] /\ F[n] \in Nat
  BY <1>2, NodeIs DEF RcvUnlink
<1>7. PICK x : x = nx[n]
  OBVIOUS
<1>8. /\ m_piData2[n] = None
      /\ m_piData1' = [m_piData1 EXCEPT ![n] = None] /\ m_piData2' = m_piData2
      /\ nx2 = [k \in Node |-> IF k = n THEN Unset
                               ELSE IF k = pr[n] /\ h # n THEN x ELSE nx[k]]
      /\ pr2 = [k \in Node |-> IF k = n THEN Unset ELSE IF k # x THEN pr[k]
                               ELSE IF h = n THEN None ELSE pr[n]]
      /\ m_iHead' = (IF h = n THEN x ELSE h)
      /\ m_iTail' = (IF h # n /\ x = None THEN pr[n] ELSE t)
  BY <1>3, <1>7 DEF RcvUnlink
<1>9. Dropped(n)
  <2>1. m_piData2 = [m_piData2 EXCEPT ![n] = None]
    BY <1>6, <1>8 DEF LossTypes
  <2> QED BY <2>1, <1>8 DEF Dropped
<1>10. PICK U2, F2, E2 : U2 = Used' /\ F2 = Fst(z)' /\ E2 = Lst(z)'
  OBVIOUS
<1>11. /\ m_piData1' \in [Node -> Numbers] /\ m_piData2' \in [Node -> Numbers]
       /\ U2 = U \ {n} /\ Functions(F2, E2)
       /\ \A m \in U \ {n} : F2[m] = F[m] /\ E2[m] = E[m]
       /\ Written(Used, Fst(z), Lst(z))'
       /\ Count(z, U2, F2, E2, None) = Count(z, U, F, E, None) - (E[n] - F[n] + 1)
       /\ Nums(z, U2, F2, E2) = Nums(z, U, F, E) \ Between(z, F[n], E[n])
  BY <1>1, <1>9, <1>10, RangeDropped
<1>12. losses' = Nums(z, U2, F2, E2)
  <2>1. \A u \in SeqNumbers : Off(z, u) \in Nat /\ (Off(z, u) = F[n] <=> u = s)
    BY <1>1, <1>2, <1>6, Basics, SameOffset
  <2>2. \A u \in SeqNumbers : (F[n] <= Off(z, u) /\ Off(z, u) <= E[n]) <=> u = s
    BY <2>1, <1>6
  <2>3. Between(z, F[n], E[n]) = {s}
    BY <2>2, <1>1 DEF Between
  <2> QED BY <2>3, <1>1, <1>11
<1>13. m_iLength' = Count(z, U2, F2, E2, None)
  BY <1>5, <1>6, <1>11
<1>14. x \in Nodes /\ (x # None => x \in U) /\ x # n
  <2>1. Follows(U, F, n, nx[n])
    BY <1>5 DEF Chain
  <2> QED BY <2>1, <1>4, <1>7 DEF Follows
<1>15. /\ \A m \in U \ {n} : nx2[m] = IF m = pr[n] /\ h # n THEN x ELSE nx[m]
       /\ \A m \in U \ {n} : pr2[m] = IF m # x THEN pr[m] ELSE IF h = n THEN None ELSE pr[n]
       /\ nx2 \in [Node -> Nodes \cup {Unset}] /\ pr2 \in [Node -> Nodes \cup {Unset}]
  <2>1. \A m \in U \ {n} : nx2[m] = IF m = pr[n] /\ h # n THEN x ELSE nx[m]
    BY <1>2, <1>8
  <2>2. \A m \in U \ {n} : pr2[m] = IF m # x THEN pr[m] ELSE IF h = n THEN None ELSE pr[n]
    BY <1>2, <1>8
  <2>3. nx2 \in [Node -> Nodes \cup {Unset}]
    BY <1>4, <1>8, <1>14
  <2>4. pr2 \in [Node -> Nodes \cup {Unset}]
    <3>1. pr[n] \in Nodes \cup {Unset} /\ None \in Nodes
      BY <1>4, <1>6 DEF Nodes
    <3> QED BY <3>1, <1>4, <1>8
  <2> QED BY <2>1, <2>2, <2>3, <2>4
<1>16. /\ m_iHead' \in Nodes /\ m_iTail' \in Nodes
       /\ Chain(U2, F2, E2, nx2, m_iHead', None, c, top)
       /\ RcvLinks(U2)'
  <2>1. CASE h = n
    <3>1. /\ m_iHead' = x /\ m_iTail' = t
          /\ \A m \in U \ {n} : nx2[m] = nx[m] /\ (m # x => pr2[m] = pr[m])
      BY <2>1, <1>8, <1>15
    <3>2. Chain(U \ {n}, F2, E2, nx2, nx[n], None, c, top)
      <4>1. Chain(U, F, E, nx, n, None, c, top)
        BY <2>1, <1>5
      <4>2. Shifted(U, F, E, nx, F2, E2, nx2, n)
        BY <3>1, <1>11 DEF Shifted
      <4> QED BY <4>1, <4>2, <1>2, <1>11, ChainShifted
    <3>3. ASSUME NEW m \in U2, m # x PROVE pr2[m] \in U2 /\ nx2[pr2[m]] = m
      <4>1. m \in U \ {n} /\ pr2[m] = pr[m] /\ pr[m] \in U /\ nx[pr[m]] = m
        BY <3>1, <3>3, <2>1, <1>4, <1>11
      <4>2. pr[m] # n
        BY <4>1, <3>3, <1>7
      <4> QED BY <4>1, <4>2, <3>1, <1>11
    <3>4. ASSUME U2 # {} PROVE t \in U2 /\ nx2[t] = None
      <4>1. t # n
        <5>1. SUFFICES ASSUME t = n PROVE FALSE
          OBVIOUS
        <5>2. PICK m \in U \ {n} : TRUE
          BY <3>4, <1>11
        <5>3. /\ Begins(U, F, n) /\ Follows(U, F, n, None)
          BY <5>1, <2>1, <1>4, <1>5 DEF Chain
        <5>4. F[m] <= F[n] /\ F[n] <= F[m] /\ F[m] \in Nat
          BY <5>2, <5>3, NodeIs DEF Begins, Follows
        <5> QED BY <5>2, <5>4, <1>5, <1>6
      <4> QED BY <4>1, <3>1, <1>4, <1>11
    <3>5. RcvLinks(U2)'
      BY <3>1, <3>3, <3>4, <1>3 DEF RcvLinks
    <3> QED BY <3>1, <3>2, <3>5, <1>2, <1>4, <1>7, <1>11, <1>14 DEF Nodes
  <2>2. CASE h # n
    <3>1. PICK p \in U : p = pr[n] /\ nx[p] = n /\ p # n
      BY <2>2, <1>4
    <3>2. /\ m_iHead' = h /\ m_iTail' = (IF x = None THEN p ELSE t)
          /\ nx2[p] = x
          /\ \A m \in U \ {n} : m # p => nx2[m] = nx[m]
          /\ \A m \in U \ {n} : pr2[m] = IF m # x THEN pr[m] ELSE p
      BY <3>1, <2>2, <1>8, <1>15
    <3>3. Chain(U \ {n}, F2, E2, nx2, h, None, c, top)
      <4>1. Unlinked(U, F, E, nx, F2, E2, nx2, p, n)
        BY <3>1, <3>2, <1>7, <1>11 DEF Unlinked
      <4> QED BY <4>1, <1>2, <1>5, <1>11, ChainUnlinked
    <3>4. ASSUME NEW m \in U2, m # h PROVE pr2[m] \in U2 /\ nx2[pr2[m]] = m
      <4>1. m \in U \ {n} /\ pr[m] \in U /\ nx[pr[m]] = m
        BY <3>4, <1>4, <1>11
      <4>2. CASE m = x
        BY <4>1, <4>2, <3>1, <3>2, <1>11
      <4>3. CASE m # x
        <5>1. pr2[m] = pr[m] /\ pr[m] # n /\ pr[m] # p
          BY <4>1, <4>3, <3>1, <3>2, <1>7
        <5> QED BY <5>1, <4>1, <3>2, <1>11
      <4> QED BY <4>2, <4>3
    <3>5. m_iTail' \in U2 /\ nx2[m_iTail'] = None
      <4>1. CASE x = None
        BY <4>1, <3>1, <3>2, <1>11
      <4>2. CASE x # None
        <5>1. m_iTail' = t /\ t # n /\ t # p
          BY <4>2, <3>1, <3>2, <1>2, <1>4, <1>7
        <5> QED BY <5>1, <3>2, <1>4, <1>11
      <4> QED BY <4>1, <4>2
    <3>6. RcvLinks(U2)'
      BY <3>2, <3>4, <3>5, <1>3 DEF RcvLinks
    <3> QED BY <3>2, <3>3, <3>5, <3>6, <1>2, <1>4, <1>11 DEF Nodes
  <2> QED BY <2>1, <2>2
<1>17. RcvSettled(z, c, U2, F2, E2, top)
  <2>1. /\ UNCHANGED <<m_iLastInsertPos, side, lo, hi>>
        /\ pc' = "idle" /\ i' \in Nodes /\ seqno1' \in Numbers /\ seqno2' \in Numbers
    BY <1>1 DEF callVars, LossTypes
  <2> QED
    BY <2>1, <1>3, <1>10, <1>11, <1>12, <1>13, <1>15, <1>16 DEF RcvSettled
<1> QED
  BY <1>1, <1>17, RcvSettledOK

\* The range loses its first number.
LEMMA RcvAdvanceOK ==
  ASSUME LossTypes, NEW z, NEW c, NEW U, NEW F, NEW E, NEW top, Reads(z, c, U, F, E, top),
         NEW s, FoundStep(z, U, F, E, s), NEW n \in U, m_piData1[n] = s, RcvAdvance(n),
         m_iLength' = m_iLength - 1, UNCHANGED <<m_iLastInsertPos, callVars>>
  PROVE  LossListInv'
<1>1. /\ z = lo /\ side = "rcv" /\ pc = "idle" /\ pc # "clear" /\ pc # "coalesce"
      /\ s \in SeqNumbers /\ Off(z, s) \in Nat
      /\ UNCHANGED <<side, lo, hi>> /\ losses' = Nums(z, U, F, E) \ {s}
  BY FoundStarts
<1>2. /\ z \in SeqNumbers /\ c \in Node /\ U \in SUBSET Node /\ None \notin U
      /\ top \in Nat /\ top <= Window /\ top <= m_iSize /\ Functions(F, E)
  BY Basics
<1>3. PICK nx, pr, h, t, nx2, pr2 :
        /\ nx = m_piNext /\ pr = m_piPrior /\ h = m_iHead /\ t = m_iTail
        /\ nx2 = m_piNext' /\ pr2 = m_piPrior'
  OBVIOUS
<1>4. /\ h \in U /\ t \in U /\ nx[t] = None
      /\ \A m \in U : m # h => pr[m] \in U /\ nx[pr[m]] = m
      /\ \A m \in U : nx[m] \in Nodes /\ nx[m] # m /\ nx[m] # h
      /\ \A m, k \in U : nx[m] = k => pr[k] = m
      /\ \A m \in U : nx[m] = None => m = t
      /\ nx \in [Node -> Nodes \cup {Unset}] /\ pr \in [Node -> Nodes \cup {Unset}]
  BY <1>1, <1>3, LinksAre
<1>5. /\ m_iLength = Count(z, U, F, E, None) /\ m_iLength \in Nat
      /\ Chain(U, F, E, nx, h, None, c, top)
  BY <1>1, <1>3, AtRest DEF First
<1>6. n \in Node /\ F[n] \in Nat /\ E[n] \in Nat
  BY NodeIs
<1>7. PICK x : x = After(n)
  OBVIOUS
<1>8. /\ m_piData2[n] # None
      /\ m_piData1' = [m_piData1 EXCEPT ![x] = incseq(m_piData1[n]), ![n] = None]
      /\ m_piData2' = [m_piData2 EXCEPT ![x] = Second(x, incseq(m_piData1[n]), m_piData2[n]), ![n] = None]
      /\ nx2 = [k \in Node |-> IF k = x THEN nx[n] ELSE IF k = n THEN Unset
                               ELSE IF k = pr[n] /\ h # n THEN x ELSE nx[k]]
      /\ pr2 = [k \in Node |-> IF k = x THEN pr[n] ELSE IF k = n THEN Unset
                               ELSE IF k = nx[n] /\ t # n THEN x ELSE pr[k]]
      /\ m_iHead' = (IF h = n THEN x ELSE h)
      /\ m_iTail' = (IF t = n THEN x ELSE t)
  BY <1>3, <1>7 DEF RcvAdvance
<1>9. MovedOn(n, x)
  BY <1>8 DEF MovedOn
<1>10. PICK U2, F2, E2 : U2 = Used' /\ F2 = Fst(z)' /\ E2 = Lst(z)'
  OBVIOUS
<1>11. /\ x \in Node /\ x \notin U /\ x # n
       /\ m_piData1' \in [Node -> Numbers] /\ m_piData2' \in [Node -> Numbers]
       /\ U2 = (U \ {n}) \cup {x} /\ Functions(F2, E2)
       /\ F2[x] = F[n] + 1 /\ E2[x] = E[n] /\ F[n] + 1 <= E[n] /\ x = At(c, F2[x])
       /\ \A m \in U \ {n} : F2[m] = F[m] /\ E2[m] = E[m]
       /\ Written(Used, Fst(z), Lst(z))'
       /\ Nums(z, U2, F2, E2) = Nums(z, U, F, E) \ {s}
  <2>1. /\ x \in Node /\ x \notin U /\ x # n
        /\ m_piData1' \in [Node -> Numbers] /\ m_piData2' \in [Node -> Numbers]
        /\ Used' = (U \ {n}) \cup {x} /\ Functions(Fst(z)', Lst(z)')
        /\ Fst(z)'[x] = F[n] + 1 /\ Lst(z)'[x] = E[n] /\ F[n] + 1 <= E[n] /\ x = At(c, F[n] + 1)
        /\ \A m \in U \ {n} : Fst(z)'[m] = F[m] /\ Lst(z)'[m] = E[m]
        /\ Written(Used, Fst(z), Lst(z))'
        /\ Nums(z, Used', Fst(z)', Lst(z)') = Nums(z, U, F, E) \ {m_piData1[n]}
    BY <1>1, <1>7, <1>8, <1>9, RangeMovedOn
  <2> QED BY <2>1, <1>10
<1>12. /\ nx2[x] = nx[n] /\ pr2[x] = pr[n]
       /\ \A m \in U \ {n} : nx2[m] = IF m = pr[n] /\ h # n THEN x ELSE nx[m]
       /\ \A m \in U \ {n} : pr2[m] = IF m = nx[n] /\ t # n THEN x ELSE pr[m]
       /\ nx2 \in [Node -> Nodes \cup {Unset}] /\ pr2 \in [Node -> Nodes \cup {Unset}]
  <2>1. nx2[x] = nx[n] /\ pr2[x] = pr[n]
    BY <1>8, <1>11
  <2>2. \A m \in U \ {n} : nx2[m] = IF m = pr[n] /\ h # n THEN x ELSE nx[m]
    BY <1>2, <1>8, <1>11
  <2>3. \A m \in U \ {n} : pr2[m] = IF m = nx[n] /\ t # n THEN x ELSE pr[m]
    BY <1>2, <1>8, <1>11
  <2>4. x \in Nodes /\ nx[n] \in Nodes /\ pr[n] \in Nodes \cup {Unset}
    BY <1>4, <1>6, <1>11 DEF Nodes
  <2>5. nx2 \in [Node -> Nodes \cup {Unset}]
    BY <2>4, <1>4, <1>8
  <2>6. pr2 \in [Node -> Nodes \cup {Unset}]
    BY <2>4, <1>4, <1>8
  <2> QED BY <2>1, <2>2, <2>3, <2>5, <2>6
<1>13. PICK h2, t2 : h2 = (IF h = n THEN x ELSE h) /\ t2 = (IF t = n THEN x ELSE t)
  OBVIOUS
<1>14. \A m \in U \ {n} : nx2[m] = IF nx[m] = n THEN x ELSE nx[m]
  <2>1. TAKE m \in U \ {n}
  <2>2. nx[m] = n <=> m = pr[n] /\ h # n
    BY <1>4
  <2> QED BY <2>2, <1>12
<1>15. Advanced(U, F, E, nx, F2, E2, nx2, n, x)
  <2>1. F[n] < F2[x] /\ F2[x] <= E[n]
    BY <1>6, <1>11
  <2> QED BY <2>1, <1>11, <1>12, <1>14 DEF Advanced
<1>16. Chain((U \ {n}) \cup {x}, F2, E2, nx2, h2, None, c, top)
  <2>1. x = At(c, F2[x]) /\ Functions(F2, E2)
    BY <1>11
  <2> QED BY <2>1, <1>2, <1>5, <1>13, <1>15, ChainAdvanced
<1>17. m_iLength' = Count(z, U2, F2, E2, None)
  <2>1. Count(z, (U \ {n}) \cup {x}, F2, E2, None) = Count(z, U, F, E, None) - (F2[x] - F[n])
    BY <1>2, <1>5, <1>11, <1>15, <1>16, CountAdvanced
  <2> QED BY <2>1, <1>5, <1>6, <1>11
<1>18. /\ \A m \in U2 : m # h2 => pr2[m] \in U2 /\ nx2[pr2[m]] = m
       /\ t2 \in U2 /\ nx2[t2] = None
  <2>1. ASSUME NEW m \in U2, m # h2 PROVE pr2[m] \in U2 /\ nx2[pr2[m]] = m
    <3>1. CASE m = x
      <4>1. h # n
        BY <3>1, <2>1, <1>13
      <4>2. pr[n] \in U /\ nx[pr[n]] = n /\ pr[n] # n
        BY <4>1, <1>4
      <4> QED BY <3>1, <4>2, <1>11, <1>12, <1>14
    <3>2. CASE m # x
      <4>1. m \in U \ {n} /\ m # h
        BY <3>2, <2>1, <1>11, <1>13
      <4>2. pr[m] \in U /\ nx[pr[m]] = m
        BY <4>1, <1>4
      <4>3. CASE pr[m] = n
        <5>1. nx[n] = m /\ t # n
          BY <4>1, <4>2, <4>3, <1>2, <1>4
        <5> QED BY <5>1, <4>1, <1>11, <1>12
      <4>4. CASE pr[m] # n
        <5>1. nx[n] # m
          BY <4>1, <4>4, <1>4
        <5>2. pr2[m] = pr[m]
          BY <5>1, <4>1, <1>12
        <5> QED BY <5>2, <4>1, <4>2, <4>4, <1>11, <1>14
      <4> QED BY <4>3, <4>4
    <3> QED BY <3>1, <3>2
  <2>2. t2 \in U2 /\ nx2[t2] = None
    <3>1. CASE t = n
      BY <3>1, <1>4, <1>11, <1>12, <1>13
    <3>2. CASE t # n
      BY <3>2, <1>2, <1>4, <1>11, <1>13, <1>14
    <3> QED BY <3>1, <3>2
  <2> QED BY <2>1, <2>2
<1>19. RcvLinks(U2)'
  BY <1>3, <1>8, <1>13, <1>18 DEF RcvLinks
<1>20. RcvSettled(z, c, U2, F2, E2, top)
  <2>1. /\ UNCHANGED <<m_iLastInsertPos, side, lo, hi>>
        /\ pc' = "idle" /\ i' \in Nodes /\ seqno1' \in Numbers /\ seqno2' \in Numbers
    BY <1>1 DEF callVars, LossTypes
  <2>2. m_iHead' \in Nodes /\ m_iTail' \in Nodes /\ m_iHead' = h2
    BY <1>2, <1>4, <1>8, <1>11, <1>13 DEF Nodes
  <2>3. losses' = Nums(z, U2, F2, E2)
    BY <1>1, <1>11
  <2>4. Chain(U2, F2, E2, m_piNext', m_iHead', None, c, top)
    BY <2>2, <1>3, <1>11, <1>16
  <2> QED
    BY <2>1, <2>2, <2>3, <2>4, <1>3, <1>10, <1>11, <1>12, <1>17, <1>19 DEF RcvSettled
<1> QED
  BY <1>1, <1>20, RcvSettledOK

\* The number is the first one of a range.
LEMMA RcvRemoveAtOK ==
  ASSUME LossTypes, NEW z, NEW c, NEW U, NEW F, NEW E, NEW top, Reads(z, c, U, F, E, top),
         NEW s, FoundStep(z, U, F, E, s), RcvRemoveAt(s)
  PROVE  LossListInv'
<1>1. /\ pc = "idle" /\ pc # "clear" /\ pc # "coalesce" /\ s \in SeqNumbers /\ Off(z, s) < Window
  BY FoundStarts
<1>2. U # {}
  BY <1>1, EmptyList DEF RcvRemoveAt
<1>3. Place(s) \in U /\ m_piData1[Place(s)] = s
  BY <1>1, <1>2, PlaceIs DEF RcvRemoveAt
<1>4. PICK n \in U : n = Place(s)
  BY <1>3
<1>5. /\ m_piData1[n] = s
      /\ RcvUnlink(n) \/ RcvAdvance(n)
      /\ m_iLength' = m_iLength - 1 /\ UNCHANGED <<m_iLastInsertPos, callVars>>
  BY <1>3, <1>4 DEF RcvRemoveAt
<1> QED
  BY <1>5, RcvUnlinkOK, RcvAdvanceOK

\* The places before that of s are looked at, beginning with the next one.
LEMMA RcvRemoveBackOK ==
  ASSUME LossTypes, NEW z, NEW c, NEW U, NEW F, NEW E, NEW top, Reads(z, c, U, F, E, top),
         NEW s, FoundStep(z, U, F, E, s), RcvRemoveBack(s)
  PROVE  LossListInv'
<1>1. /\ z = lo /\ side = "rcv" /\ pc = "idle" /\ pc # "clear" /\ pc # "coalesce"
      /\ s \in SeqNumbers /\ Off(z, s) \in Nat /\ Off(z, s) < top /\ Off(z, s) < Window
      /\ UNCHANGED <<side, lo, hi>> /\ losses' = Nums(z, U, F, E) \ {s}
  BY FoundStarts
<1>2. /\ z \in SeqNumbers /\ c \in Node /\ top \in Nat /\ top <= Window /\ top <= m_iSize
      /\ Off(z, lo) <= top /\ top = Top(z) /\ Window \in Nat
  BY Basics, Sizes DEF Reads
<1>3. U # {}
  BY <1>1, EmptyList DEF RcvRemoveBack
<1>4. /\ Place(s) = At(c, Off(z, s)) /\ seqoff(m_piData1[m_iHead], s) = Off(z, s) - F[m_iHead]
      /\ \A n \in U : F[n] # Off(z, s)
  BY <1>1, <1>3, PlaceIs DEF RcvRemoveBack
<1>5. /\ seqoff(m_piData1[m_iHead], s) >= 0
      /\ pc' = "back" /\ i' = Back(Place(s)) /\ seqno1' = s /\ seqno2' = None
      /\ UNCHANGED <<m_piData1, m_piData2, m_piNext, m_piPrior>>
      /\ UNCHANGED <<m_iHead, m_iTail, m_iLength, m_iLastInsertPos>>
  BY DEF RcvRemoveBack, Loop, arrays, ends
<1>6. m_iHead \in U /\ F[m_iHead] \in Nat
  <2>1. PICK h \in U : h = m_iHead
    BY <1>1, <1>3, HeadIs
  <2> QED BY <2>1, NodeIs
<1>7. \A n \in U : F[n] \in Nat
  BY NodeIs
<1>8. PICK o \in Nat : o = Off(z, s)
  BY <1>1
<1>9. F[m_iHead] < o /\ o > 0
  BY <1>4, <1>5, <1>6, <1>8
<1>10. PICK p \in Nat : p = o - 1
  BY <1>9
<1>11. i' = At(c, p) /\ i' \in Node
  <2>1. o < m_iSize /\ p < m_iSize
    BY <1>1, <1>2, <1>8, <1>10, Sizes
  <2>2. Back(At(c, o)) = At(c, o - 1)
    BY <2>1, <1>2, <1>9, PlaceBack
  <2>3. At(c, p) \in Node
    BY <2>1, <1>2, PlaceAt
  <2> QED BY <2>2, <2>3, <1>4, <1>5, <1>8, <1>10
<1>12. F[m_iHead] <= p /\ \A n \in U : F[n] <= p \/ o < F[n]
  BY <1>4, <1>6, <1>7, <1>8, <1>9, <1>10
<1>13. /\ Used' = U /\ Fst(z)' = F /\ Lst(z)' = E
       /\ Written(Used, Fst(z), Lst(z))'
  BY <1>5, ArraysKept
<1>14. GoingBack(z, c, Used, Fst(z), Lst(z))'
  <2>1. p \in 0 .. o - 1
    BY <1>10
  <2>2. Top(z)' = top
    BY <1>1, <1>2 DEF Top
  <2> QED BY <2>1, <2>2, <1>1, <1>3, <1>5, <1>8, <1>11, <1>12, <1>13 DEF GoingBack
<1>15. LossTypes'
  <2>1. losses' \subseteq SeqNumbers
    BY <1>1 DEF Nums
  <2> QED BY <2>1, <1>1, <1>5, <1>11 DEF LossTypes, Nodes, Numbers
<1>16. ListOK(z, c, Used, Fst(z), Lst(z))'
  <2>1. CallOK(z, c, Used, Fst(z), Lst(z))'
    BY <1>5, <1>14 DEF CallOK
  <2>2. RcvLinks(Used)'
    <3>1. RcvLinks(U)'
      BY <1>1, <1>5 DEF Reads, ListOK, RcvLinks
    <3> QED BY <3>1, <1>13 DEF RcvLinks
  <2>3. Top(z)' = top /\ First' = m_iHead /\ Growing' = None
    BY <1>1, <1>2, <1>5 DEF Top, First, Growing
  <2>4. m_iLength = Count(z, U, F, E, None) /\ Chain(U, F, E, m_piNext, m_iHead, None, c, top)
    BY <1>1, AtRest DEF First
  <2> QED
    BY <2>1, <2>2, <2>3, <2>4, <1>1, <1>2, <1>5, <1>13 DEF ListOK
<1> QED
  BY <1>2, <1>15, <1>16 DEF LossListInv

\* In the loop back: the number, and how far back the place is.
LEMMA BackAt ==
  ASSUME LossTypes, NEW z, NEW c, NEW U, NEW F, NEW E, NEW top, Reads(z, c, U, F, E, top),
         pc = "back", NEW n, n = i
  PROVE  /\ z = lo /\ side = "rcv" /\ pc # "clear" /\ pc # "coalesce" /\ U # {}
         /\ seqno1 \in SeqNumbers /\ Off(z, seqno1) \in Nat
         /\ losses = Nums(z, U, F, E) \ {seqno1}
         /\ n \in Node
         /\ \E p \in Nat : /\ p < Off(z, seqno1) /\ F[m_iHead] <= p /\ n = At(c, p) /\ p < m_iSize
                           /\ \A m \in U : F[m] <= p \/ Off(z, seqno1) < F[m]
                           /\ m_piData1[n] = None => n \notin U /\ \A m \in U : F[m] # p
                           /\ m_piData1[n] # None => n \in U /\ F[n] = p /\ Off(z, seqno1) < Window
<1>1. /\ GoingBack(z, c, U, F, E) /\ side = "rcv" /\ pc # "clear" /\ pc # "coalesce"
  BY DEF Reads, ListOK, CallOK, LossTypes
<1>2. /\ z = lo /\ seqno1 \in SeqNumbers /\ Off(z, seqno1) < top
      /\ losses = Nums(z, U, F, E) \ {seqno1} /\ U # {}
  BY <1>1 DEF GoingBack, Reads
<1>3. PICK p \in 0 .. Off(z, seqno1) - 1 :
        /\ F[m_iHead] <= p /\ n = At(c, p)
        /\ \A m \in U : F[m] <= p \/ Off(z, seqno1) < F[m]
  BY <1>1 DEF GoingBack
<1>4. /\ z \in SeqNumbers /\ c \in Node /\ top \in Nat /\ top <= Window /\ top <= m_iSize
      /\ Off(z, seqno1) \in Nat /\ U = Used /\ U \subseteq Node /\ Window \in Nat /\ m_iSize \in Nat
  BY <1>2, Basics, Sizes DEF Reads
<1>5. p \in Nat /\ p < Off(z, seqno1) /\ p < m_iSize /\ Off(z, seqno1) < Window
  BY <1>2, <1>3, <1>4
<1>6. n \in Node /\ (m_piData1[n] # None <=> n \in U)
  BY <1>3, <1>4, <1>5, PlaceAt DEF Used
<1>7. \A m \in U : F[m] \in Nat /\ m = At(c, F[m]) /\ F[m] < m_iSize
  <2>1. TAKE m \in U
  <2>2. F[m] \in Nat /\ m = At(c, F[m]) /\ E[m] \in Nat /\ F[m] <= E[m] /\ E[m] < top
    BY NodeIs
  <2> QED BY <2>2, <1>4
<1>8. m_piData1[n] # None => F[n] = p
  <2>1. SUFFICES ASSUME m_piData1[n] # None PROVE F[n] = p
    OBVIOUS
  <2>2. PICK f : f = F[n]
    OBVIOUS
  <2>3. f \in Nat /\ f < m_iSize /\ At(c, f) = At(c, p)
    BY <2>1, <2>2, <1>3, <1>6, <1>7
  <2> QED BY <2>2, <2>3, <1>4, <1>5, SamePlace
<1>9. m_piData1[n] = None => \A m \in U : F[m] # p
  BY <1>3, <1>6, <1>7
<1> QED
  BY <1>1, <1>2, <1>3, <1>4, <1>5, <1>6, <1>8, <1>9

\* The loop back moves on to the place before.
LEMMA BackNextOK ==
  ASSUME LossTypes, NEW z, NEW c, NEW U, NEW F, NEW E, NEW top, Reads(z, c, U, F, E, top),
         BackNext
  PROVE  LossListInv'
<1>1. /\ pc = "back" /\ m_piData1[i] = None
      /\ pc' = "back" /\ i' = Back(i) /\ seqno1' = seqno1 /\ seqno2' = None
      /\ UNCHANGED <<m_piData1, m_piData2, m_piNext, m_piPrior>>
      /\ UNCHANGED <<m_iHead, m_iTail, m_iLength, m_iLastInsertPos, side, lo, hi, losses>>
  BY DEF BackNext, Loop, arrays, ends, window
<1>2. PICK n : n = i
  OBVIOUS
<1>3. /\ z = lo /\ side = "rcv" /\ pc # "clear" /\ pc # "coalesce" /\ U # {}
      /\ seqno1 \in SeqNumbers /\ Off(z, seqno1) \in Nat
      /\ losses = Nums(z, U, F, E) \ {seqno1}
  BY <1>1, <1>2, BackAt
<1>4. PICK p \in Nat : /\ p < Off(z, seqno1) /\ F[m_iHead] <= p /\ n = At(c, p) /\ p < m_iSize
                       /\ \A m \in U : F[m] <= p \/ Off(z, seqno1) < F[m]
                       /\ \A m \in U : F[m] # p
  BY <1>1, <1>2, BackAt
<1>5. /\ z \in SeqNumbers /\ c \in Node /\ top <= Window /\ Off(z, lo) <= top /\ top = Top(z)
      /\ Off(z, seqno1) < top
  BY <1>1, Basics DEF Reads, ListOK, CallOK, GoingBack
<1>6. m_iHead \in U /\ F[m_iHead] \in Nat
  <2>1. PICK h \in U : h = m_iHead
    BY <1>3, HeadIs
  <2> QED BY <2>1, NodeIs
<1>7. \A m \in U : F[m] \in Nat
  BY NodeIs
<1>8. p > 0 /\ F[m_iHead] < p
  BY <1>4, <1>6
<1>9. PICK q \in Nat : q = p - 1
  BY <1>8
<1>10. i' = At(c, q) /\ i' \in Node
  <2>1. Back(At(c, p)) = At(c, p - 1)
    BY <1>4, <1>5, <1>8, PlaceBack
  <2>2. q < m_iSize
    BY <1>4, <1>9, Sizes
  <2>3. At(c, q) \in Node
    BY <2>2, <1>5, PlaceAt
  <2> QED BY <2>1, <2>3, <1>1, <1>2, <1>4, <1>9
<1>11. /\ q \in 0 .. Off(z, seqno1) - 1 /\ F[m_iHead] <= q
       /\ \A m \in U : F[m] <= q \/ Off(z, seqno1) < F[m]
  BY <1>3, <1>4, <1>6, <1>7, <1>8, <1>9
<1>12. /\ Used' = U /\ Fst(z)' = F /\ Lst(z)' = E
       /\ Written(Used, Fst(z), Lst(z))'
  BY <1>1, ArraysKept
<1>13. Top(z)' = top /\ First' = m_iHead /\ Growing' = None
  BY <1>1, <1>5 DEF Top, First, Growing
<1>14. GoingBack(z, c, Used, Fst(z), Lst(z))'
  BY <1>1, <1>3, <1>5, <1>10, <1>11, <1>12, <1>13 DEF GoingBack
<1>15. LossTypes'
  BY <1>1, <1>3, <1>10 DEF LossTypes, Nodes, Numbers
<1>16. ListOK(z, c, Used, Fst(z), Lst(z))'
  <2>1. CallOK(z, c, Used, Fst(z), Lst(z))'
    BY <1>1, <1>14 DEF CallOK
  <2>2. RcvLinks(Used)'
    <3>1. RcvLinks(U)'
      BY <1>1, <1>3 DEF Reads, ListOK, RcvLinks
    <3> QED BY <3>1, <1>12 DEF RcvLinks
  <2>3. m_iLength = Count(z, U, F, E, None) /\ Chain(U, F, E, m_piNext, m_iHead, None, c, top)
    BY <1>1, <1>3, AtRest DEF First
  <2> QED
    BY <2>1, <2>2, <2>3, <1>1, <1>3, <1>5, <1>12, <1>13 DEF ListOK
<1> QED
  BY <1>5, <1>15, <1>16 DEF LossListInv

\* A range is found: no other one can have the number.
LEMMA BackFound ==
  ASSUME LossTypes, NEW z, NEW c, NEW U, NEW F, NEW E, NEW top, Reads(z, c, U, F, E, top),
         pc = "back", m_piData1[i] # None, NEW n, n = i, NEW s, s = seqno1
  PROVE  /\ z = lo /\ side = "rcv" /\ pc # "clear" /\ pc # "coalesce" /\ n \in U /\ n \in Node
         /\ s \in SeqNumbers /\ Off(z, s) \in Nat /\ Off(z, s) <= Window /\ Off(z, s) < Window
         /\ losses = Nums(z, U, F, E) \ {s}
         /\ m_piData1[n] \in SeqNumbers /\ F[n] = Off(z, m_piData1[n])
         /\ F[n] \in Nat /\ E[n] \in Nat /\ F[n] < Off(z, s) /\ F[n] <= E[n]
         /\ E[n] < top /\ E[n] <= Window
         /\ \A m \in U : F[m] <= Off(z, s) /\ Off(z, s) <= E[m] => m = n
         /\ m_piData2[n] = None => E[n] = F[n]
         /\ m_piData2[n] # None => /\ m_piData2[n] \in SeqNumbers /\ E[n] = Off(z, m_piData2[n])
                                   /\ End(n) = m_piData2[n] /\ F[n] < E[n]
                                   /\ seqcmp(s, m_piData2[n]) > 0 <=> E[n] < Off(z, s)
                                   /\ seqcmp(s, m_piData2[n]) < 0 <=> Off(z, s) < E[n]
                                   /\ m_piData2[n] = s <=> E[n] = Off(z, s)
<1>1. /\ z = lo /\ side = "rcv" /\ pc # "clear" /\ pc # "coalesce" /\ U # {}
      /\ s \in SeqNumbers /\ Off(z, s) \in Nat
      /\ losses = Nums(z, U, F, E) \ {s} /\ n \in Node
  BY BackAt
<1>2. PICK p \in Nat : /\ p < Off(z, s) /\ n \in U /\ F[n] = p /\ Off(z, s) < Window
                       /\ \A m \in U : F[m] <= p \/ Off(z, s) < F[m]
  BY BackAt
<1>3. /\ m_piData1[n] \in SeqNumbers /\ End(n) \in SeqNumbers
      /\ F[n] = Off(z, m_piData1[n]) /\ E[n] = Off(z, End(n))
      /\ F[n] \in Nat /\ E[n] \in Nat /\ F[n] <= E[n] /\ E[n] < top
      /\ m_piData2[n] # None => F[n] < E[n] /\ End(n) = m_piData2[n] /\ m_piData2[n] \in SeqNumbers
      /\ m_piData2[n] = None => E[n] = F[n]
  BY <1>2, NodeIs
<1>4. /\ z \in SeqNumbers /\ top \in Nat /\ top <= Window /\ Window \in Nat
  BY Basics, Sizes
<1>5. Off(z, s) <= Window /\ E[n] <= Window
  BY <1>1, <1>2, <1>3, <1>4
<1>6. \A m \in U : F[m] <= Off(z, s) /\ Off(z, s) <= E[m] => m = n
  <2>1. PICK o \in Nat : o = Off(z, s)
    BY <1>1
  <2>2. F[n] <= o /\ \A m \in U : F[m] <= F[n] \/ o < F[m]
    BY <2>1, <1>2, <1>3
  <2>3. \A m \in U : F[m] <= o /\ o <= E[m] => m = n
    BY <2>2, <1>1, <1>2, OnlyThere
  <2> QED BY <2>1, <2>3
<1>7. ASSUME m_piData2[n] # None
      PROVE  /\ seqcmp(s, m_piData2[n]) > 0 <=> E[n] < Off(z, s)
             /\ seqcmp(s, m_piData2[n]) < 0 <=> Off(z, s) < E[n]
             /\ m_piData2[n] = s <=> E[n] = Off(z, s)
  <2>1. PICK b \in SeqNumbers : b = m_piData2[n] /\ Off(z, b) = E[n] /\ Off(z, b) <= Window
    BY <1>3, <1>5, <1>7
  <2>2. /\ seqcmp(s, b) > 0 <=> Off(z, s) > Off(z, b)
        /\ seqcmp(s, b) < 0 <=> Off(z, s) < Off(z, b)
    BY <2>1, <1>1, <1>4, <1>5, Compared
  <2>3. Off(z, b) = Off(z, s) => b = s
    BY <2>1, <1>1, <1>4, SameOffset
  <2> QED BY <2>1, <2>2, <2>3, <1>1, <1>3
<1> QED
  BY <1>1, <1>2, <1>3, <1>5, <1>6, <1>7

\* The range that is found does not have the number.
LEMMA BackNothingOK ==
  ASSUME LossTypes, NEW z, NEW c, NEW U, NEW F, NEW E, NEW top, Reads(z, c, U, F, E, top),
         BackNothing
  PROVE  LossListInv'
<1>1. /\ pc = "back" /\ m_piData1[i] # None
      /\ m_piData2[i] # None => seqcmp(seqno1, m_piData2[i]) > 0
      /\ pc' = "idle" /\ i' = None /\ seqno1' = None /\ seqno2' = None
      /\ UNCHANGED <<m_piData1, m_piData2, m_piNext, m_piPrior>>
      /\ UNCHANGED <<m_iHead, m_iTail, m_iLength, m_iLastInsertPos, side, lo, hi, losses>>
  BY DEF BackNothing, Over, Loop, arrays, ends, window
<1>2. PICK n, s : n = i /\ s = seqno1
  OBVIOUS
<1>3. /\ z = lo /\ n \in U /\ s \in SeqNumbers /\ Off(z, s) \in Nat
      /\ losses = Nums(z, U, F, E) \ {s}
      /\ F[n] \in Nat /\ E[n] \in Nat /\ F[n] < Off(z, s)
      /\ \A m \in U : F[m] <= Off(z, s) /\ Off(z, s) <= E[m] => m = n
      /\ m_piData2[n] = None => E[n] = F[n]
      /\ m_piData2[n] # None => (seqcmp(s, m_piData2[n]) > 0 <=> E[n] < Off(z, s))
  BY <1>1, <1>2, BackFound
<1>4. E[n] < Off(z, s)
  BY <1>1, <1>2, <1>3
<1>5. \A m \in U : ~(F[m] <= Off(z, s) /\ Off(z, s) <= E[m])
  BY <1>3, <1>4
<1>6. losses' = Nums(z, U, F, E) \ {s}
  BY <1>1, <1>3
<1>7. i' \in Nodes /\ seqno1' \in Numbers /\ seqno2' \in Numbers
  BY <1>1 DEF Nodes, Numbers
<1> QED
  BY <1>1, <1>3, <1>5, <1>6, <1>7, NotThereOK

\* What remains of the range before s, which is behind its first number.
LEMMA ShortenedIs ==
  ASSUME LossTypes, NEW z \in SeqNumbers, NEW n, n = i, NEW s \in SeqNumbers, s = seqno1,
         m_piData1[n] \in SeqNumbers, Off(z, m_piData1[n]) < Off(z, s), Off(z, s) <= Window,
         NEW w, w = Shortened
  PROVE  /\ w \in Numbers
         /\ w = None => Off(z, s) - 1 = Off(z, m_piData1[n])
         /\ w # None => /\ w \in SeqNumbers /\ Off(z, w) = Off(z, s) - 1
                        /\ Off(z, m_piData1[n]) < Off(z, s) - 1
<1>1. PICK a \in SeqNumbers : a = m_piData1[n]
  OBVIOUS
<1>2. Off(z, a) \in Nat /\ Off(z, s) \in Nat /\ Window \in Nat /\ Off(z, a) < Off(z, s)
  BY <1>1, OffsetIs, Sizes
<1>3. /\ incseq(a) \in SeqNumbers /\ Off(z, incseq(a)) = Off(z, a) + 1
      /\ decseq(s) \in SeqNumbers /\ Off(z, decseq(s)) = Off(z, s) - 1
  BY <1>2, NextNumber
<1>4. s = incseq(a) <=> Off(z, s) = Off(z, a) + 1
  BY <1>3, SameOffset
<1>5. w = (IF s = incseq(a) THEN None ELSE decseq(s)) /\ decseq(s) # None
  BY <1>1, <1>3 DEF Shortened, SeqNumbers, None
<1> QED
  BY <1>1, <1>2, <1>3, <1>4, <1>5 DEF Numbers

\* The number is the last one of its range.
LEMMA BackShortenOK ==
  ASSUME LossTypes, NEW z, NEW c, NEW U, NEW F, NEW E, NEW top, Reads(z, c, U, F, E, top),
         BackShorten
  PROVE  LossListInv'
<1>1. /\ pc = "back" /\ m_piData1[i] # None /\ m_piData2[i] = seqno1
      /\ m_piData2' = [m_piData2 EXCEPT ![i] = Shortened]
      /\ m_iLength' = m_iLength - 1
      /\ pc' = "idle" /\ i' = None /\ seqno1' = None /\ seqno2' = None
      /\ UNCHANGED <<m_piData1, m_piNext, m_piPrior, m_iHead, m_iTail, m_iLastInsertPos>>
      /\ UNCHANGED <<side, lo, hi, losses>>
  BY DEF BackShorten, Over, Loop, window
<1>2. PICK n, s, w : n = i /\ s = seqno1 /\ w = Shortened
  OBVIOUS
<1>3. /\ z = lo /\ side = "rcv" /\ pc # "clear" /\ pc # "coalesce" /\ n \in U /\ n \in Node
      /\ s \in SeqNumbers /\ Off(z, s) \in Nat /\ Off(z, s) <= Window
      /\ losses = Nums(z, U, F, E) \ {s}
      /\ m_piData1[n] \in SeqNumbers /\ F[n] = Off(z, m_piData1[n])
      /\ F[n] \in Nat /\ E[n] \in Nat /\ F[n] < Off(z, s) /\ E[n] < top
      /\ \A m \in U : F[m] <= Off(z, s) /\ Off(z, s) <= E[m] => m = n
      /\ m_piData2[n] # None => (m_piData2[n] = s <=> E[n] = Off(z, s))
  BY <1>1, <1>2, BackFound
<1>4. /\ z \in SeqNumbers /\ c \in Node /\ U \in SUBSET Node /\ Functions(F, E)
      /\ top \in Nat /\ top <= Window /\ \A u \in SeqNumbers : Off(z, u) \in Nat
  BY Basics
<1>5. PICK o \in Nat : o = Off(z, s)
  BY <1>3
<1>6. E[n] = o /\ o > 0 /\ s # None
  BY <1>1, <1>2, <1>3, <1>5 DEF SeqNumbers, None
<1>7. PICK q \in Nat : q = o - 1
  BY <1>6
<1>8. /\ w \in Numbers /\ (w = None => q = F[n])
      /\ w # None => w \in SeqNumbers /\ Off(z, w) = q /\ F[n] < q
  <2>1. Off(z, m_piData1[n]) < Off(z, s)
    BY <1>3
  <2>2. /\ w \in Numbers
        /\ w = None => Off(z, s) - 1 = Off(z, m_piData1[n])
        /\ w # None => /\ w \in SeqNumbers /\ Off(z, w) = Off(z, s) - 1
                       /\ Off(z, m_piData1[n]) < Off(z, s) - 1
    BY <2>1, <1>2, <1>3, <1>4, ShortenedIs
  <2> QED BY <2>2, <1>3, <1>5, <1>7
<1>9. PICK nx, h : nx = m_piNext /\ h = m_iHead
  OBVIOUS
<1>10. /\ m_iLength = Count(z, U, F, E, None) /\ m_iLength \in Nat
       /\ Chain(U, F, E, nx, h, None, c, top)
  BY <1>3, <1>9, AtRest DEF First
<1>11. PICK d1, d2, U2, F2, E2 :
         /\ d1 = m_piData1' /\ d2 = m_piData2' /\ U2 = Used' /\ F2 = Fst(z)' /\ E2 = Lst(z)'
  OBVIOUS
<1>12. /\ d1 \in [Node -> Numbers] /\ d2 \in [Node -> Numbers] /\ d2[n] = w /\ d1 = m_piData1
       /\ \A m \in Node : m # n => d2[m] = m_piData2[m]
  BY <1>1, <1>2, <1>3, <1>8, <1>11 DEF LossTypes
<1>13. /\ U2 \in SUBSET Node /\ Functions(F2, E2)
       /\ \A m \in Node : m \in U2 <=> d1[m] # None
       /\ \A m \in Node : m \in U <=> m_piData1[m] # None
       /\ \A m \in Node : F2[m] = Off(z, d1[m])
       /\ \A m \in Node : d2[m] = None => E2[m] = Off(z, d1[m])
       /\ \A m \in Node : d2[m] # None => E2[m] = Off(z, d2[m])
       /\ \A m \in Node : d1[m] = m_piData1[m] => F2[m] = F[m]
       /\ \A m \in Node : d1[m] = m_piData1[m] /\ d2[m] = m_piData2[m] => E2[m] = E[m]
       /\ \A m \in Node \ U : m_piData2[m] = None
       /\ \A m \in U : m_piData2[m] # None => F[m] < E[m]
       /\ Written(Used, Fst(z), Lst(z))'
            <=> /\ \A m \in Node \ U2 : d2[m] = None
                /\ \A m \in U2 : d2[m] # None => F2[m] < E2[m]
  BY <1>11, <1>12, Rewritten
<1>14. U2 = U
  BY <1>4, <1>12, <1>13
<1>15. F2 = F
  <2>1. UsedOf(d1) = UsedOf(m_piData1) /\ F2 = FirstsOf(z, d1) /\ F = FirstsOf(z, m_piData1)
        /\ d1 = m_piData1
    BY <1>11, <1>12, ReadingNow DEF Reads
  <2> QED BY <2>1
<1>16. E2[n] = q /\ \A m \in U : m # n => E2[m] = E[m]
  <2>1. E2[n] = q
    BY <1>3, <1>8, <1>12, <1>13
  <2>2. \A m \in U : m # n => E2[m] = E[m]
    BY <1>4, <1>12, <1>13
  <2> QED BY <2>1, <2>2
<1>17. Functions(F, E2) /\ F[n] <= E2[n] /\ E2[n] <= E[n] /\ E2[n] < top
  <2>1. Functions(F, E2)
    BY <1>13, <1>15
  <2>2. F[n] <= E2[n] /\ E2[n] <= E[n] /\ E2[n] < top
    BY <1>3, <1>4, <1>5, <1>6, <1>7, <1>16
  <2> QED BY <2>1, <2>2
<1>18. Chain(U, F, E2, nx, h, None, c, top)
  <2>1. top <= top
    BY <1>4
  <2> QED BY <2>1, <1>3, <1>4, <1>10, <1>16, <1>17, ChainResized
<1>19. m_iLength' = Count(z, U, F, E2, None)
  <2>1. Count(z, U, F, E2, None) = Count(z, U, F, E, None) + E2[n] - E[n]
    <3>1. ChainWith(z, U, F, E, nx, h, c, top, n) /\ ChainWith(z, U, F, E2, nx, h, c, top, n)
      BY <1>3, <1>4, <1>10, <1>17, <1>18 DEF ChainWith
    <3>2. Count(z, U, F, E, None) = Cardinality(Nums(z, U \ {n}, F, E)) + E[n] - F[n] + 1
      BY <3>1, CountWith
    <3>3. Count(z, U, F, E2, None) = Cardinality(Nums(z, U \ {n}, F, E2)) + E2[n] - F[n] + 1
      BY <3>1, CountWith
    <3>4. Nums(z, U \ {n}, F, E2) = Nums(z, U \ {n}, F, E)
      <4>1. \A m \in U \ {n} : F[m] = F[m] /\ E2[m] = E[m]
        BY <1>16
      <4> QED BY <4>1, NumsSame
    <3>5. Cardinality(Nums(z, U \ {n}, F, E)) \in Nat
      BY NumsFinite
    <3>6. F[n] \in Int /\ E[n] \in Int /\ E2[n] \in Int
      BY <1>3, <1>7, <1>16
    <3> QED BY <3>2, <3>3, <3>4, <3>5, <3>6
  <2> QED BY <2>1, <1>1, <1>6, <1>7, <1>10, <1>16
<1>20. losses' = Nums(z, U, F, E2)
  <2>1. ASSUME NEW u \in SeqNumbers
        PROVE  (\E m \in U : F[m] <= Off(z, u) /\ Off(z, u) <= E2[m])
                 <=> (\E m \in U : F[m] <= Off(z, u) /\ Off(z, u) <= E[m]) /\ u # s
    <3>1. Off(z, u) \in Nat /\ (Off(z, u) = o <=> u = s)
      BY <1>3, <1>4, <1>5, SameOffset
    <3>2. ASSUME NEW m \in U
          PROVE  F[m] <= Off(z, u) /\ Off(z, u) <= E2[m]
                   <=> F[m] <= Off(z, u) /\ Off(z, u) <= E[m] /\ u # s
      <4>1. CASE m = n
        BY <4>1, <3>1, <1>5, <1>6, <1>7, <1>16
      <4>2. CASE m # n
        <5>1. E2[m] = E[m]
          BY <4>2, <1>16
        <5>2. F[m] <= Off(z, u) /\ Off(z, u) <= E[m] => u # s
          BY <4>2, <1>3
        <5> QED BY <5>1, <5>2
      <4> QED BY <4>1, <4>2
    <3> QED BY <3>2
  <2> QED BY <2>1, <1>1, <1>3 DEF Nums
<1>21. Written(Used, Fst(z), Lst(z))'
  <2>1. \A m \in Node \ U2 : d2[m] = None
    BY <1>3, <1>12, <1>13, <1>14
  <2>2. \A m \in U2 : d2[m] # None => F2[m] < E2[m]
    <3>1. d2[n] # None => F2[n] < E2[n]
      BY <1>8, <1>12, <1>15, <1>16
    <3>2. \A m \in U : m # n => (d2[m] # None => F2[m] < E2[m])
      BY <1>4, <1>12, <1>13, <1>15, <1>16
    <3> QED BY <3>1, <3>2, <1>14
  <2> QED BY <2>1, <2>2, <1>13
<1>22. RcvLinks(U2)'
  <2>1. RcvLinks(U)
    BY <1>3 DEF Reads, ListOK
  <2> QED BY <2>1, <1>1, <1>14 DEF RcvLinks
<1>23. RcvSettled(z, c, U2, F2, E2, top)
  <2>1. /\ i' \in Nodes /\ seqno1' \in Numbers /\ seqno2' \in Numbers
        /\ m_piNext' \in [Node -> Nodes \cup {Unset}] /\ m_piPrior' \in [Node -> Nodes \cup {Unset}]
        /\ m_iHead' \in Nodes /\ m_iTail' \in Nodes
    BY <1>1 DEF Nodes, Numbers, LossTypes
  <2>2. Chain(U2, F2, E2, m_piNext', m_iHead', None, c, top)
    BY <1>1, <1>9, <1>14, <1>15, <1>18
  <2> QED
    BY <2>1, <2>2, <1>1, <1>11, <1>12, <1>14, <1>15, <1>19, <1>20, <1>21, <1>22 DEF RcvSettled
<1> QED
  BY <1>3, <1>23, RcvSettledOK

\* The number is inside its range, which is cut in two.
LEMMA BackSplitOK ==
  ASSUME LossTypes, NEW z, NEW c, NEW U, NEW F, NEW E, NEW top, Reads(z, c, U, F, E, top),
         BackSplit
  PROVE  LossListInv'
<1>1. /\ pc = "back" /\ m_piData1[i] # None
      /\ m_piData2[i] # None /\ seqcmp(seqno1, m_piData2[i]) < 0
      /\ m_iLength' = m_iLength - 1
      /\ pc' = "idle" /\ i' = None /\ seqno1' = None /\ seqno2' = None
      /\ UNCHANGED <<m_iHead, m_iLastInsertPos, side, lo, hi, losses>>
  BY DEF BackSplit, Over, Loop, window
<1>2. PICK n, s, w : n = i /\ s = seqno1 /\ w = Shortened
  OBVIOUS
<1>3. /\ z = lo /\ side = "rcv" /\ pc # "clear" /\ pc # "coalesce" /\ n \in U /\ n \in Node
      /\ s \in SeqNumbers /\ Off(z, s) \in Nat /\ Off(z, s) <= Window /\ Off(z, s) < Window
      /\ losses = Nums(z, U, F, E) \ {s}
      /\ m_piData1[n] \in SeqNumbers /\ F[n] = Off(z, m_piData1[n])
      /\ F[n] \in Nat /\ E[n] \in Nat /\ F[n] < Off(z, s) /\ E[n] < top
      /\ \A m \in U : F[m] <= Off(z, s) /\ Off(z, s) <= E[m] => m = n
      /\ m_piData2[n] # None => /\ End(n) = m_piData2[n]
                                /\ seqcmp(s, m_piData2[n]) < 0 <=> Off(z, s) < E[n]
  BY <1>1, <1>2, BackFound
<1>4. /\ z \in SeqNumbers /\ c \in Node /\ U \in SUBSET Node /\ Functions(F, E) /\ None \notin U
      /\ top \in Nat /\ top <= Window /\ top <= m_iSize /\ \A u \in SeqNumbers : Off(z, u) \in Nat
  BY Basics
<1>5. PICK o \in Nat : o = Off(z, s)
  BY <1>3
<1>6. o < E[n] /\ o > 0 /\ End(n) = m_piData2[n]
  BY <1>1, <1>2, <1>3, <1>5
<1>7. PICK q \in Nat : q = o - 1
  BY <1>6
<1>8. /\ w \in Numbers /\ (w = None => q = F[n])
      /\ w # None => w \in SeqNumbers /\ Off(z, w) = q /\ F[n] < q
  <2>1. Off(z, m_piData1[n]) < Off(z, s)
    BY <1>3
  <2>2. /\ w \in Numbers
        /\ w = None => Off(z, s) - 1 = Off(z, m_piData1[n])
        /\ w # None => /\ w \in SeqNumbers /\ Off(z, w) = Off(z, s) - 1
                       /\ Off(z, m_piData1[n]) < Off(z, s) - 1
    BY <2>1, <1>2, <1>3, <1>4, ShortenedIs
  <2> QED BY <2>2, <1>3, <1>5, <1>7
<1>9. PICK nx, pr, h, t, nx2, pr2 :
        /\ nx = m_piNext /\ pr = m_piPrior /\ h = m_iHead /\ t = m_iTail
        /\ nx2 = m_piNext' /\ pr2 = m_piPrior'
  OBVIOUS
<1>10. /\ h \in U /\ t \in U /\ nx[t] = None
       /\ \A m \in U : m # h => pr[m] \in U /\ nx[pr[m]] = m
       /\ \A m \in U : nx[m] \in Nodes /\ nx[m] # m /\ nx[m] # h
       /\ \A m, k \in U : nx[m] = k => pr[k] = m
       /\ \A m \in U : nx[m] = None => m = t
       /\ nx \in [Node -> Nodes \cup {Unset}] /\ pr \in [Node -> Nodes \cup {Unset}]
  BY <1>3, <1>9, LinksAre
<1>11. /\ m_iLength = Count(z, U, F, E, None) /\ m_iLength \in Nat
       /\ Chain(U, F, E, nx, h, None, c, top)
  BY <1>3, <1>9, AtRest DEF First
<1>12. PICK x : x = After(Place(s))
  OBVIOUS
<1>13. Place(s) = At(c, Off(z, s))
  <2>1. U # {} /\ Off(z, s) < Window /\ pc # "clear" /\ s \in SeqNumbers
    BY <1>3
  <2> QED BY <2>1, PlaceIs
<1>14. /\ m_piData1' = [m_piData1 EXCEPT ![x] = incseq(s)]
       /\ m_piData2' = [m_piData2 EXCEPT ![x] = Second(x, incseq(s), m_piData2[n]), ![n] = w]
       /\ nx2 = [nx EXCEPT ![x] = nx[n], ![n] = x]
       /\ pr2 = [k \in Node |-> IF k = x THEN n ELSE IF k = nx[n] /\ t # n THEN x ELSE pr[k]]
       /\ m_iTail' = (IF t = n THEN x ELSE t)
  BY <1>2, <1>9, <1>12 DEF BackSplit
<1>15. SplitUp(n, s, x, w)
  BY <1>6, <1>14 DEF SplitUp
<1>16. PICK U2, F2, E2 : U2 = Used' /\ F2 = Fst(z)' /\ E2 = Lst(z)'
  OBVIOUS
<1>17. /\ x \in Node /\ x \notin U /\ x = At(c, F2[x])
       /\ m_piData1' \in [Node -> Numbers] /\ m_piData2' \in [Node -> Numbers]
       /\ U2 = U \cup {x} /\ Functions(F2, E2)
       /\ F2[x] = o + 1 /\ E2[x] = E[n] /\ E2[n] = q
       /\ \A m \in U : F2[m] = F[m] /\ (m # n => E2[m] = E[m])
       /\ Written(Used, Fst(z), Lst(z))'
  <2>1. x = After(At(c, Off(z, s)))
    BY <1>12, <1>13
  <2>2. /\ F[n] <= q /\ q <= Off(z, s) /\ F[n] <= Off(z, s) /\ Off(z, s) < E[n]
        /\ w = None => q = F[n]
        /\ w # None => Off(z, w) = q /\ F[n] < q
    BY <1>3, <1>5, <1>6, <1>7, <1>8
  <2>3. /\ x \in Node /\ x \notin U /\ x = At(c, Off(z, s) + 1)
        /\ m_piData1' \in [Node -> Numbers] /\ m_piData2' \in [Node -> Numbers]
        /\ Used' = U \cup {x} /\ Functions(Fst(z)', Lst(z)')
        /\ Fst(z)'[x] = Off(z, s) + 1 /\ Lst(z)'[x] = E[n] /\ Lst(z)'[n] = q
        /\ \A m \in U : Fst(z)'[m] = F[m] /\ (m # n => Lst(z)'[m] = E[m])
        /\ Written(Used, Fst(z), Lst(z))'
    BY <2>1, <2>2, <1>3, <1>8, <1>15, RangeSplitUp
  <2> QED BY <2>3, <1>5, <1>16
<1>18. /\ nx2 \in [Node -> Nodes \cup {Unset}] /\ nx2[n] = x /\ nx2[x] = nx[n]
       /\ \A m \in U : m # n => nx2[m] = nx[m]
       /\ pr2 \in [Node -> Nodes \cup {Unset}] /\ pr2[x] = n
       /\ \A m \in U : pr2[m] = IF m = nx[n] /\ t # n THEN x ELSE pr[m]
  <2>1. x \in Nodes /\ n \in Nodes /\ nx[n] \in Nodes /\ x # n
    BY <1>3, <1>10, <1>17 DEF Nodes
  <2>2. /\ nx2 \in [Node -> Nodes \cup {Unset}] /\ nx2[n] = x /\ nx2[x] = nx[n]
        /\ \A m \in U : m # n => nx2[m] = nx[m]
    BY <2>1, <1>3, <1>4, <1>10, <1>14, <1>17
  <2>3. pr2 \in [Node -> Nodes \cup {Unset}]
    BY <2>1, <1>10, <1>14
  <2>4. pr2[x] = n /\ \A m \in U : pr2[m] = IF m = nx[n] /\ t # n THEN x ELSE pr[m]
    BY <1>4, <1>14, <1>17
  <2> QED BY <2>2, <2>3, <2>4
<1>19. Halved(U, F, E, nx, F2, E2, nx2, n, x)
  <2>1. F[n] <= E2[n] /\ E2[n] < F2[x] /\ F2[x] <= E[n] /\ E2[x] = E[n]
    BY <1>3, <1>5, <1>6, <1>7, <1>17
  <2>2. \A m \in U : F2[m] = F[m] /\ (m # n => E2[m] = E[m] /\ nx2[m] = nx[m])
    BY <1>17, <1>18
  <2> QED BY <2>1, <2>2, <1>3, <1>17, <1>18 DEF Halved
<1>20. Chain(U \cup {x}, F2, E2, nx2, h, None, c, top)
  <2>1. x = At(c, F2[x]) /\ Functions(F2, E2)
    BY <1>17
  <2> QED BY <2>1, <1>4, <1>11, <1>19, ChainSplit
<1>21. m_iLength' = Count(z, U2, F2, E2, None)
  <2>1. Functions(F2, E2)
    BY <1>17
  <2>2. Count(z, U \cup {x}, F2, E2, None) = Count(z, U, F, E, None) - (F2[x] - E2[n] - 1)
    BY <2>1, <1>4, <1>11, <1>19, <1>20, CountSplit
  <2> QED BY <2>2, <1>1, <1>7, <1>11, <1>17
<1>22. losses' = Nums(z, U2, F2, E2)
  <2>1. ASSUME NEW u \in SeqNumbers
        PROVE  (\E m \in U2 : F2[m] <= Off(z, u) /\ Off(z, u) <= E2[m])
                 <=> (\E m \in U : F[m] <= Off(z, u) /\ Off(z, u) <= E[m]) /\ u # s
    <3>1. Off(z, u) \in Nat /\ (Off(z, u) = o <=> u = s)
      BY <1>3, <1>4, <1>5, SameOffset
    <3>2. ASSUME NEW m \in U \ {n}
          PROVE  F2[m] <= Off(z, u) /\ Off(z, u) <= E2[m]
                   <=> F[m] <= Off(z, u) /\ Off(z, u) <= E[m] /\ u # s
      <4>1. F2[m] = F[m] /\ E2[m] = E[m]
        BY <1>17
      <4>2. F[m] <= Off(z, u) /\ Off(z, u) <= E[m] => u # s
        BY <1>3
      <4> QED BY <4>1, <4>2
    <3>3. (F2[n] <= Off(z, u) /\ Off(z, u) <= E2[n]) \/ (F2[x] <= Off(z, u) /\ Off(z, u) <= E2[x])
            <=> F[n] <= Off(z, u) /\ Off(z, u) <= E[n] /\ u # s
      <4>1. F2[n] = F[n] /\ E2[n] = o - 1 /\ F2[x] = o + 1 /\ E2[x] = E[n]
        BY <1>3, <1>7, <1>17
      <4>2. F[n] \in Nat /\ E[n] \in Nat /\ F[n] < o /\ o < E[n]
        BY <1>3, <1>5, <1>6
      <4> QED BY <4>1, <4>2, <3>1
    <3>4. (\E m \in U2 : F2[m] <= Off(z, u) /\ Off(z, u) <= E2[m])
            <=> \/ \E m \in U \ {n} : F2[m] <= Off(z, u) /\ Off(z, u) <= E2[m]
                \/ F2[n] <= Off(z, u) /\ Off(z, u) <= E2[n]
                \/ F2[x] <= Off(z, u) /\ Off(z, u) <= E2[x]
      BY <1>3, <1>17
    <3>5. (\E m \in U : F[m] <= Off(z, u) /\ Off(z, u) <= E[m])
            <=> \/ \E m \in U \ {n} : F[m] <= Off(z, u) /\ Off(z, u) <= E[m]
                \/ F[n] <= Off(z, u) /\ Off(z, u) <= E[n]
      BY <1>3
    <3> QED BY <3>2, <3>3, <3>4, <3>5
  <2> QED BY <2>1, <1>1, <1>3 DEF Nums
<1>23. PICK t2 : t2 = (IF t = n THEN x ELSE t)
  OBVIOUS
<1>24. /\ \A m \in U2 : m # h => pr2[m] \in U2 /\ nx2[pr2[m]] = m
       /\ t2 \in U2 /\ nx2[t2] = None
  <2>1. ASSUME NEW m \in U2, m # h PROVE pr2[m] \in U2 /\ nx2[pr2[m]] = m
    <3>1. CASE m = x
      BY <3>1, <1>3, <1>17, <1>18
    <3>2. CASE m # x
      <4>1. m \in U /\ pr[m] \in U /\ nx[pr[m]] = m
        BY <3>2, <2>1, <1>10, <1>17
      <4>2. CASE pr[m] = n
        <5>1. nx[n] = m /\ t # n
          BY <4>1, <4>2, <1>4, <1>10
        <5> QED BY <5>1, <4>1, <1>17, <1>18
      <4>3. CASE pr[m] # n
        <5>1. nx[n] # m
          BY <4>1, <4>3, <1>3, <1>10
        <5>2. pr2[m] = pr[m]
          BY <5>1, <4>1, <1>18
        <5> QED BY <5>2, <4>1, <4>3, <1>17, <1>18
      <4> QED BY <4>2, <4>3
    <3> QED BY <3>1, <3>2
  <2>2. t2 \in U2 /\ nx2[t2] = None
    <3>1. CASE t = n
      BY <3>1, <1>10, <1>17, <1>18, <1>23
    <3>2. CASE t # n
      BY <3>2, <1>10, <1>17, <1>18, <1>23
    <3> QED BY <3>1, <3>2
  <2> QED BY <2>1, <2>2
<1>25. RcvLinks(U2)'
  BY <1>1, <1>9, <1>14, <1>23, <1>24 DEF RcvLinks
<1>26. RcvSettled(z, c, U2, F2, E2, top)
  <2>1. i' \in Nodes /\ seqno1' \in Numbers /\ seqno2' \in Numbers
    BY <1>1 DEF Nodes, Numbers
  <2>2. m_iHead' \in Nodes /\ m_iTail' \in Nodes /\ m_iHead' = h
    BY <1>1, <1>4, <1>9, <1>10, <1>14, <1>17 DEF Nodes
  <2>3. Chain(U2, F2, E2, m_piNext', m_iHead', None, c, top)
    BY <2>2, <1>9, <1>17, <1>20
  <2> QED
    BY <2>1, <2>2, <2>3, <1>1, <1>9, <1>16, <1>17, <1>18, <1>21, <1>22, <1>25 DEF RcvSettled
<1> QED
  BY <1>3, <1>26, RcvSettledOK

\* A packet arrives that was lost: the removal of its number.
LEMMA FoundOK ==
  ASSUME LossTypes, NEW z, NEW c, NEW U, NEW F, NEW E, NEW top, Reads(z, c, U, F, E, top),
         Found
  PROVE  LossListInv'
<1>1. PICK s \in Outstanding :
        /\ RcvRemoveNothing(s) \/ RcvRemoveAt(s) \/ RcvRemoveBack(s)
        /\ losses' = losses \ {s}
  BY DEF Found
<1>2. pc = "idle" /\ side = "rcv" /\ UNCHANGED <<side, lo, hi>>
  BY DEF Found
<1>3. z = lo /\ losses = Nums(z, U, F, E) /\ top = Top(z)
  BY <1>2, IdleIs DEF Reads
<1>4. s \in SeqNumbers /\ Off(z, s) < top
  BY <1>1, <1>3, OutstandingIs
<1>5. FoundStep(z, U, F, E, s)
  BY <1>1, <1>2, <1>3, <1>4 DEF FoundStep
<1> QED
  BY <1>1, <1>5, RcvRemoveNothingOK, RcvRemoveAtOK, RcvRemoveBackOK

\* The window begins with the first number that is lost, or behind all that arrived.
LEMMA AcknowledgesOK ==
  ASSUME LossTypes, NEW z, NEW c, NEW U, NEW F, NEW E, NEW top, Reads(z, c, U, F, E, top),
         Acknowledges
  PROVE  LossListInv'
<1>1. /\ pc = "idle" /\ side = "rcv" /\ pc # "clear" /\ pc # "coalesce"
      /\ lo' = (IF m_iLength = 0 THEN incseq(hi) ELSE FirstLost)
      /\ UNCHANGED <<m_piData1, m_piData2, m_piNext, m_piPrior>>
      /\ UNCHANGED <<m_iHead, m_iTail, m_iLength, m_iLastInsertPos, side, hi>>
      /\ UNCHANGED <<pc, i, seqno1, seqno2>> /\ UNCHANGED losses
  BY DEF Acknowledges, arrays, ends, callVars
<1>2. z = lo /\ losses = Nums(z, U, F, E) /\ First = m_iHead
  BY <1>1, IdleIs
<1>3. /\ z \in SeqNumbers /\ top \in Nat /\ top = Off(z, incseq(hi)) /\ incseq(hi) \in SeqNumbers
      /\ (m_iLength = 0 <=> U = {})
  BY <1>1, Basics, BehindLast, EmptyList
<1>4. PICK y \in SeqNumbers : /\ y = lo' /\ Off(z, y) <= top /\ \A n \in U : Off(z, y) <= F[n]
                              /\ hi = None => y = 0
  <2>1. CASE U = {}
    <3>1. lo' = incseq(hi) /\ Off(z, incseq(hi)) <= top
      BY <2>1, <1>1, <1>3
    <3>2. hi = None => incseq(hi) = 0
      BY Sizes DEF incseq, None
    <3> QED BY <3>1, <3>2, <2>1, <1>3
  <2>2. CASE U # {}
    <3>1. PICK h \in U : h = m_iHead /\ \A n \in U : F[h] <= F[n]
      BY <2>2, <1>1, HeadIs
    <3>2. /\ m_piData1[h] \in SeqNumbers /\ F[h] = Off(z, m_piData1[h])
          /\ F[h] \in Nat /\ E[h] \in Nat /\ F[h] <= E[h] /\ E[h] < top
      BY NodeIs
    <3>3. lo' = m_piData1[h]
      BY <2>2, <3>1, <1>1, <1>3 DEF FirstLost
    <3>4. hi # None
      <4>1. SUFFICES ASSUME hi = None PROVE FALSE
        OBVIOUS
      <4>2. z = 0 /\ incseq(hi) = 0
        BY <4>1, <1>2, Sizes DEF LossTypes, incseq, None
      <4>3. top = 0
        BY <4>2, <1>3 DEF Off
      <4> QED BY <4>3, <3>2
    <3>5. Off(z, m_piData1[h]) <= top
      BY <3>2, <1>3
    <3> QED BY <3>1, <3>2, <3>3, <3>4, <3>5
  <2> QED BY <2>1, <2>2
<1>5. /\ pc' = "idle" /\ i' \in Nodes /\ seqno1' \in Numbers /\ seqno2' \in Numbers
      /\ lo' = y /\ losses' = Nums(z, U, F, E)
  BY <1>1, <1>2, <1>4 DEF LossTypes
<1> QED
  BY <1>1, <1>2, <1>4, <1>5, RebasedOK

-------------------------------------------------------------------------------
(* The invariant *)

\* The lists are empty before the first packet.
LEMMA InitOK ==
  ASSUME Init
  PROVE  LossListInv
<1>1. PICK z \in SeqNumbers : z = ISN
  BY Sizes
<1>2. PICK c \in Node : TRUE
  BY Sizes DEF Node
<1>3. LossTypes
  BY Sizes DEF Init, LossTypes, Numbers, Nodes, SeqNumbers, None
<1>4. PICK F, E : F = Fst(z) /\ E = Lst(z)
  OBVIOUS
<1>5. Used = {} /\ Written({}, F, E) /\ First = None /\ Growing = None
  BY DEF Init, Used, Written, First, Growing
<1>6. Top(z) = 0
  BY <1>1, Sizes DEF Init, Top, Off, incseq, SeqNumbers, None
<1>7. Off(z, lo) = 0
  BY <1>1, Sizes DEF Init, Off, SeqNumbers
<1>8. Chain({}, F, E, m_piNext, None, None, c, 0)
  BY DEF Chain, Placed, Apart, Follows, Begins
<1>9. Nums(z, {}, F, E) = {} /\ Nums(z, {} \ {None}, F, E) = {}
  BY DEF Nums
<1>10. m_iLength = Count(z, {}, F, E, None)
  BY <1>9, FS_EmptySet DEF Init, Count
<1>11. RcvLinks({}) /\ m_iLastInsertPos = None
  BY DEF Init, RcvLinks
<1>12. CallOK(z, c, {}, F, E)
  BY <1>1, <1>9 DEF Init, CallOK, Idle
<1>13. ListOK(z, c, Used, Fst(z), Lst(z))
  BY <1>4, <1>5, <1>6, <1>7, <1>8, <1>10, <1>11, <1>12, Sizes DEF ListOK
<1> QED
  BY <1>3, <1>13 DEF LossListInv

\* A step that changes nothing.
LEMMA StutterOK ==
  ASSUME LossListInv, UNCHANGED vars
  PROVE  LossListInv'
<1>1. /\ UNCHANGED <<m_piData1, m_piData2, m_piNext, m_piPrior>>
      /\ UNCHANGED <<m_iHead, m_iTail, m_iLength, m_iLastInsertPos>>
      /\ UNCHANGED <<pc, i, seqno1, seqno2, side, lo, hi, losses>>
  BY DEF vars, arrays, ends, callVars, window
<1>2. PICK z, c, U, F, E, top : Reads(z, c, U, F, E, top)
  BY ReadsExist
<1>3. LossTypes
  BY DEF LossListInv
<1>4. LossTypes'
  BY <1>1, <1>3 DEF LossTypes
<1>5. /\ Used' = U /\ Fst(z)' = F /\ Lst(z)' = E
      /\ Written(Used, Fst(z), Lst(z))'
  BY <1>1, <1>2, <1>3, ArraysKept
<1>6. ListOK(z, c, Used, Fst(z), Lst(z))'
  <2>1. ListOK(z, c, U, F, E)
    BY <1>2 DEF Reads
  <2>2. Top(z)' = Top(z) /\ First' = First /\ Growing' = Growing
    BY <1>1 DEF Top, First, Growing
  <2>3. RcvLinks(U)' <=> RcvLinks(U)
    BY <1>1 DEF RcvLinks
  <2>4. RcvLinks(Used)' <=> RcvLinks(U)
    BY <2>3, <1>5 DEF RcvLinks
  <2>5. CallOK(z, c, U, F, E)'
    <3>1. Place(seqno1)' = Place(seqno1)
      BY <1>1 DEF Place
    <3> QED BY <2>1, <2>2, <3>1, <1>1 DEF ListOK, CallOK, Idle, Searching, Coalescing, Finding, Clearing, GoingBack
  <2>6. CallOK(z, c, Used, Fst(z), Lst(z))'
    BY <2>5, <1>5 DEF CallOK, Idle, Searching, Coalescing, Finding, Clearing, GoingBack
  <2> QED
    BY <2>1, <2>2, <2>4, <2>6, <1>1, <1>5 DEF ListOK
<1>7. z \in SeqNumbers /\ c \in Node
  BY <1>2 DEF Reads
<1> QED
  BY <1>4, <1>6, <1>7 DEF LossListInv

\* Every turn of every loop keeps the invariant.
LEMMA StepOK ==
  ASSUME LossListInv, Next
  PROVE  LossListInv'
<1>1. PICK z, c, U, F, E, top : Reads(z, c, U, F, E, top)
  BY ReadsExist
<1>2. LossTypes
  BY DEF LossListInv
<1>3. CASE Sent \/ Arrives
  <2>1. /\ pc = "idle" /\ Room > 0 /\ hi' = incseq(hi)
        /\ UNCHANGED <<arrays, ends, callVars, side, lo, losses>>
    BY <1>3 DEF Sent, Arrives
  <2> QED BY <2>1, <1>1, <1>2, OneMoreOK
<1>4. CASE Lost \/ ArrivesAfterGap
  BY <1>1, <1>2, <1>4, LostOK, ArrivesAfterGapOK
<1>5. CASE Acked \/ Resent
  BY <1>1, <1>2, <1>5, AckedOK, ResentOK
<1>6. CASE Found \/ Acknowledges
  BY <1>1, <1>2, <1>6, FoundOK, AcknowledgesOK
<1>7. CASE SearchNext \/ SearchNew \/ SearchExtend
  BY <1>1, <1>2, <1>7, SearchNextOK, SearchNewOK, SearchExtendOK
<1>8. CASE Coalesce \/ CoalesceDone
  BY <1>1, <1>2, <1>8, CoalesceOK, CoalesceDoneOK
<1>9. CASE FindNext \/ FindDone
  BY <1>1, <1>2, <1>9, FindNextOK, FindDoneOK
<1>10. CASE Clear \/ ClearDone
  BY <1>1, <1>2, <1>10, ClearOK, ClearDoneOK
<1>11. CASE BackNext \/ BackNothing
  BY <1>1, <1>2, <1>11, BackNextOK, BackNothingOK
<1>12. CASE BackShorten \/ BackSplit
  BY <1>1, <1>2, <1>12, BackShortenOK, BackSplitOK
<1> QED
  BY <1>3, <1>4, <1>5, <1>6, <1>7, <1>8, <1>9, <1>10, <1>11, <1>12 DEF Next, Loops

\* All that the calls of a connection may do, from an empty list on, keeps the invariant: the
\* chain of CSndLossList and CRcvLossList is in order at every turn of every loop.
THEOREM LossListCorrect == Spec => []LossListInv
<1>1. Init => LossListInv
  BY InitOK
<1>2. LossListInv /\ [Next]_vars => LossListInv'
  BY StepOK, StutterOK
<1> QED
  BY <1>1, <1>2, PTL DEF Spec

\* The fields of both lists, and what a call has in its local variables, have their types.
THEOREM TypeCorrect == Spec => []LossTypes
<1>1. LossListInv => LossTypes
  BY DEF LossListInv
<1> QED
  BY <1>1, LossListCorrect, PTL

-------------------------------------------------------------------------------
(* What the invariant says between two calls *)

\* The numbers that the nodes stand for, as the code's own operations tell them.
LEMMA ContentIs ==
  ASSUME LossTypes, NEW z, NEW c, NEW U, NEW F, NEW E, NEW top, Reads(z, c, U, F, E, top)
  PROVE  Content = Nums(z, U, F, E)
<1>1. U = Used /\ z \in SeqNumbers /\ top \in Nat /\ top <= Window /\ Window \in Nat
  BY Basics, Sizes DEF Reads
<1>2. ASSUME NEW n \in U
      PROVE  SeqRange(m_piData1[n], End(n)) = {s \in SeqNumbers : F[n] <= Off(z, s) /\ Off(z, s) <= E[n]}
  <2>1. PICK a \in SeqNumbers, b \in SeqNumbers :
          a = m_piData1[n] /\ b = End(n) /\ Off(z, a) = F[n] /\ Off(z, b) = E[n]
    BY NodeIs
  <2>2. Off(z, a) <= Window /\ Off(z, b) <= Window
    <3>1. F[n] \in Nat /\ E[n] \in Nat /\ F[n] <= E[n] /\ E[n] < top
      BY NodeIs
    <3> QED BY <3>1, <2>1, <1>1
  <2>3. SeqRange(a, b) = Between(z, Off(z, a), Off(z, b))
    BY <2>2, <1>1, RangeBetween
  <2> QED BY <2>1, <2>3 DEF Between
<1>3. \A s : s \in Content <=> \E n \in U : s \in SeqRange(m_piData1[n], End(n))
  BY <1>1 DEF Content
<1>4. \A s : s \in Content <=> s \in Nums(z, U, F, E)
  BY <1>2, <1>3 DEF Nums
<1> QED
  BY <1>4

\* The order of two nodes.
LEMMA BeforeIs ==
  ASSUME LossTypes, NEW z, NEW c, NEW U, NEW F, NEW E, NEW top, Reads(z, c, U, F, E, top),
         NEW m \in U, NEW n \in U
  PROVE  /\ Before(m, n) <=> F[m] < F[n]
         /\ seqcmp(End(m), m_piData1[n]) < 0 <=> E[m] < F[n]
<1>1. z \in SeqNumbers /\ top \in Nat /\ top <= Window /\ Window \in Nat
  BY Basics, Sizes
<1>2. PICK a \in SeqNumbers, b \in SeqNumbers :
        a = m_piData1[m] /\ b = End(m) /\ Off(z, a) = F[m] /\ Off(z, b) = E[m]
  BY NodeIs
<1>3. PICK d \in SeqNumbers : d = m_piData1[n] /\ Off(z, d) = F[n]
  BY NodeIs
<1>4. /\ F[m] \in Nat /\ E[m] \in Nat /\ F[m] <= E[m] /\ E[m] < top
      /\ F[n] \in Nat /\ E[n] \in Nat /\ F[n] <= E[n] /\ E[n] < top
  BY NodeIs
<1>5. Off(z, a) <= Window /\ Off(z, b) <= Window /\ Off(z, d) <= Window
  BY <1>1, <1>2, <1>3, <1>4
<1>6. (seqcmp(a, d) < 0 <=> Off(z, a) < Off(z, d)) /\ (seqcmp(b, d) < 0 <=> Off(z, b) < Off(z, d))
  BY <1>1, <1>5, Compared
<1> QED
  BY <1>2, <1>3, <1>6 DEF Before

\* A node in use, between two calls.
LEMMA NodeWellFormed ==
  ASSUME LossTypes, NEW z, NEW c, NEW U, NEW F, NEW E, NEW top, Reads(z, c, U, F, E, top),
         pc = "idle", NEW n \in U
  PROVE  /\ Place(m_piData1[n]) = n
         /\ m_piData2[n] # None => seqcmp(m_piData2[n], m_piData1[n]) > 0
         /\ IF m_piNext[n] = None
            THEN \A m \in U : ~Before(n, m)
            ELSE /\ m_piNext[n] \in U /\ seqcmp(End(n), m_piData1[m_piNext[n]]) < 0
                 /\ \A m \in U : ~(Before(n, m) /\ Before(m, m_piNext[n]))
         /\ side = "rcv" => IF m_piNext[n] = None THEN m_iTail = n
                            ELSE m_piPrior[m_piNext[n]] = n
<1>1. pc # "clear" /\ pc # "coalesce" /\ U # {}
  OBVIOUS
<1>2. z \in SeqNumbers /\ top \in Nat /\ top <= Window /\ Window \in Nat /\ None \notin U
  BY Basics, Sizes
<1>3. PICK a \in SeqNumbers : a = m_piData1[n] /\ Off(z, a) = F[n]
  BY NodeIs
<1>4. F[n] \in Nat /\ E[n] \in Nat /\ F[n] <= E[n] /\ E[n] < top /\ n = At(c, F[n])
  BY NodeIs
<1>5. \A m \in U : F[m] \in Nat /\ E[m] \in Nat
  BY NodeIs
<1>6. Place(m_piData1[n]) = n
  <2>1. Off(z, a) < Window
    BY <1>2, <1>3, <1>4
  <2>2. Place(a) = At(c, Off(z, a))
    BY <2>1, <1>1, PlaceIs
  <2> QED BY <2>2, <1>3, <1>4
<1>7. m_piData2[n] # None => seqcmp(m_piData2[n], m_piData1[n]) > 0
  <2>1. SUFFICES ASSUME m_piData2[n] # None PROVE seqcmp(m_piData2[n], m_piData1[n]) > 0
    OBVIOUS
  <2>2. PICK b \in SeqNumbers : b = m_piData2[n] /\ Off(z, b) = E[n] /\ F[n] < E[n]
    BY <2>1, NodeIs
  <2>3. Off(z, a) <= Window /\ Off(z, b) <= Window /\ Off(z, b) > Off(z, a)
    BY <2>2, <1>2, <1>3, <1>4
  <2>4. seqcmp(b, a) > 0
    BY <2>3, <1>2, Compared
  <2> QED BY <2>2, <2>4, <1>3
<1>8. PICK nx : nx = m_piNext
  OBVIOUS
<1>9. Follows(U, F, n, nx[n]) /\ \A m, k \in U : F[m] < F[k] => E[m] < F[k]
  BY <1>1, <1>8, AtRest DEF Chain
<1>10. IF nx[n] = None
       THEN \A m \in U : ~Before(n, m)
       ELSE /\ nx[n] \in U /\ seqcmp(End(n), m_piData1[nx[n]]) < 0
            /\ \A m \in U : ~(Before(n, m) /\ Before(m, nx[n]))
  <2>1. CASE nx[n] = None
    <3>1. ASSUME NEW m \in U PROVE ~Before(n, m)
      <4>1. F[m] <= F[n]
        BY <2>1, <1>9 DEF Follows
      <4> QED BY <4>1, <1>5, BeforeIs
    <3> QED BY <2>1, <3>1
  <2>2. CASE nx[n] # None
    <3>1. PICK x \in U : x = nx[n] /\ F[n] < F[x] /\ \A m \in U : F[m] <= F[n] \/ F[x] <= F[m]
      BY <2>2, <1>9 DEF Follows
    <3>2. seqcmp(End(n), m_piData1[x]) < 0
      BY <3>1, <1>9, BeforeIs
    <3>3. ASSUME NEW m \in U PROVE ~(Before(n, m) /\ Before(m, x))
      <4>1. (Before(n, m) <=> F[n] < F[m]) /\ (Before(m, x) <=> F[m] < F[x])
        BY BeforeIs
      <4> QED BY <4>1, <3>1, <1>5
    <3> QED BY <2>2, <3>1, <3>2, <3>3
  <2> QED BY <2>1, <2>2
<1>11. ASSUME side = "rcv" PROVE IF nx[n] = None THEN m_iTail = n ELSE m_piPrior[nx[n]] = n
  <2>1. PICK pr, h, t : pr = m_piPrior /\ h = m_iHead /\ t = m_iTail
    OBVIOUS
  <2>2. /\ \A m, k \in U : nx[m] = k => pr[k] = m
        /\ \A m \in U : nx[m] = None => m = t
    BY <2>1, <1>8, <1>11, LinksAre
  <2>3. nx[n] = None \/ nx[n] \in U
    BY <1>9 DEF Follows
  <2> QED BY <2>1, <2>2, <2>3
<1> QED
  BY <1>6, <1>7, <1>8, <1>10, <1>11

\* The invariant says what ListWellFormed says between two calls.
LEMMA WellFormedOK ==
  ASSUME LossListInv
  PROVE  ListWellFormed
<1>1. SUFFICES ASSUME pc = "idle"
               PROVE  /\ m_iLength = Cardinality(Content)
                      /\ (m_iLength = 0) <=> (Used = {})
                      /\ Used # {} => m_iHead \in Used /\ \A n \in Used : ~Before(n, m_iHead)
                      /\ \A n \in Node \ Used : m_piData2[n] = None
                      /\ \A n \in Used :
                          /\ Place(m_piData1[n]) = n
                          /\ m_piData2[n] # None => seqcmp(m_piData2[n], m_piData1[n]) > 0
                          /\ IF m_piNext[n] = None
                             THEN \A m \in Used : ~Before(n, m)
                             ELSE /\ m_piNext[n] \in Used /\ seqcmp(End(n), m_piData1[m_piNext[n]]) < 0
                                  /\ \A m \in Used : ~(Before(n, m) /\ Before(m, m_piNext[n]))
                          /\ side = "rcv" => IF m_piNext[n] = None THEN m_iTail = n
                                             ELSE m_piPrior[m_piNext[n]] = n
                      /\ side = "snd" => m_iLastInsertPos \in Used \cup {None}
  BY DEF ListWellFormed
<1>2. PICK z, c, U, F, E, top : Reads(z, c, U, F, E, top)
  BY ReadsExist
<1>3. LossTypes /\ U = Used /\ pc # "coalesce" /\ pc # "clear"
  BY <1>1, <1>2 DEF LossListInv, Reads
<1>4. m_iLength = Cardinality(Content) /\ ((m_iLength = 0) <=> (U = {}))
  BY <1>2, <1>3, EmptyList, ContentIs
<1>5. U # {} => m_iHead \in U /\ \A n \in U : ~Before(n, m_iHead)
  <2>1. SUFFICES ASSUME U # {} PROVE m_iHead \in U /\ \A n \in U : ~Before(n, m_iHead)
    OBVIOUS
  <2>2. PICK h \in U : h = m_iHead /\ \A n \in U : F[h] <= F[n]
    BY <2>1, <1>2, <1>3, HeadIs
  <2>3. ASSUME NEW n \in U PROVE ~Before(n, h)
    <3>1. Before(n, h) <=> F[n] < F[h]
      BY <1>2, <1>3, BeforeIs
    <3>2. F[n] \in Nat /\ F[h] \in Nat
      BY <1>2, <1>3, NodeIs
    <3> QED BY <3>1, <3>2, <2>2
  <2> QED BY <2>2, <2>3
<1>6. \A n \in Node \ U : m_piData2[n] = None
  BY <1>2 DEF Reads, ListOK, Written
<1>7. \A n \in U :
        /\ Place(m_piData1[n]) = n
        /\ m_piData2[n] # None => seqcmp(m_piData2[n], m_piData1[n]) > 0
        /\ IF m_piNext[n] = None
           THEN \A m \in U : ~Before(n, m)
           ELSE /\ m_piNext[n] \in U /\ seqcmp(End(n), m_piData1[m_piNext[n]]) < 0
                /\ \A m \in U : ~(Before(n, m) /\ Before(m, m_piNext[n]))
        /\ side = "rcv" => IF m_piNext[n] = None THEN m_iTail = n
                           ELSE m_piPrior[m_piNext[n]] = n
  BY <1>1, <1>2, <1>3, NodeWellFormed
<1>8. side = "snd" => m_iLastInsertPos \in U \cup {None}
  BY <1>2 DEF Reads, ListOK
<1> QED
  BY <1>3, <1>4, <1>5, <1>6, <1>7, <1>8

\* The invariant says what ListIsSet says between two calls.
LEMMA IsSetOK ==
  ASSUME LossListInv
  PROVE  ListIsSet
<1>1. SUFFICES ASSUME pc = "idle"
               PROVE  /\ Content = losses
                      /\ FirstLost = IF losses = {} THEN None ELSE FirstSeq(losses)
  BY DEF ListIsSet
<1>2. PICK z, c, U, F, E, top : Reads(z, c, U, F, E, top)
  BY ReadsExist
<1>3. LossTypes /\ pc # "coalesce"
  BY <1>1 DEF LossListInv
<1>4. losses = Nums(z, U, F, E) /\ Content = losses
  BY <1>1, <1>2, <1>3, IdleIs, ContentIs
<1>5. m_iLength = 0 <=> U = {}
  BY <1>2, <1>3, EmptyList
<1>6. CASE U = {}
  BY <1>4, <1>5, <1>6 DEF Nums, FirstLost
<1>7. CASE U # {}
  <2>1. FirstSeq(losses) = m_piData1[m_iHead] /\ m_piData1[m_iHead] \in losses
    BY <1>1, <1>2, <1>3, <1>7, FirstSeqIs
  <2> QED BY <2>1, <1>4, <1>5, <1>7 DEF FirstLost
<1> QED
  BY <1>6, <1>7

\* Between two calls the arrays of a loss list are a chain of ranges in order, without
\* overlaps, each at its place and the count right, for every size of the arrays and the
\* window, every ISN, and every sequence of calls: list.cpp.
THEOREM ListWellFormedHolds == Spec => []ListWellFormed
  BY LossListCorrect, WellFormedOK, PTL

\* Between two calls a loss list has the numbers, and gives the first of them, that a set with
\* the same insertions and removals has.
THEOREM ListIsSetHolds == Spec => []ListIsSet
  BY LossListCorrect, IsSetOK, PTL
===============================================================================
