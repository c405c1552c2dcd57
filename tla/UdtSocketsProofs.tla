-------------------------- MODULE UdtSocketsProofs --------------------------
(***************************************************************************)
(* Machine-checked theorems about the sockets of UDT, for any number of    *)
(* sockets, threads and peers, and for requests at any time.               *)
(*                                                                         *)
(* What covers a pointer against removeSocket() differs from one to the    *)
(* next: the maps and the stamp cover those of the application's calls     *)
(* (Grace, Pointers), m_bOnList those of the thread of CRcvQueue to a      *)
(* connection, and a connection that is being made or waits to be accepted *)
(* has no other user at all (Making, Waiting).  Nothing covers that of     *)
(* CUDT::listen() to the listener before it is located (Found).            *)
(* SocketsInv puts them together and is inductive.                         *)
(***************************************************************************)
EXTENDS UdtSockets, FiniteSetTheorems, WellFoundedInduction, TLAPS

\* Where a call of the application, and the thread of CRcvQueue, may stand.
AppPc == {"idle", "take", "wait", "check", "address", "fault", "use", "close", "closed"}
RcvPc == {"idle", "serve", "unlist", "listen", "known", "old", "make", "insert", "queue",
          "signal", "fault"}
Statuses == {"INIT", "OPENED", "LISTENING", "CONNECTED", "CLOSED"}

Calls == [pc : AppPc, s : Id \cup {None}, u : Id \cup {None}]
RcvState == [pc : RcvPc, ls : {None, Listener}, ns : Id \cup {None}, peer : Peers \cup {None}]

\* The types of the variables
SetsOK ==
  /\ objects \in SUBSET Id /\ m_Sockets \in SUBSET Id /\ m_ClosedSockets \in SUBSET Id
  /\ m_SocketID \in 1 .. NSockets + 1
  /\ m_Status \in [Id -> Statuses]
  /\ m_TimeStamp \in [Id -> SUBSET (Threads \cup {Worker})]
  /\ connected \in SUBSET Id /\ closing \in SUBSET Id /\ broken \in SUBSET Id
  /\ onList \in SUBSET Id /\ m_vNewEntry \in SUBSET Id /\ m_pHash \in SUBSET Id
  /\ m_pRcvUList \in SUBSET Id
  /\ muxed \in SUBSET Id /\ m_iRefCount \in Int
  /\ m_pListener \in {None, Listener} /\ m_pQueuedSockets \in SUBSET Id
  /\ m_AcceptCond \in BOOLEAN /\ handedOut \in SUBSET Id

AppOK == app \in [Threads -> Calls]

RcvOK == rcv \in RcvState

GcOK == gc \in [pc : {"idle", "remove", "join"}, tbr : SUBSET Id]

\* The maps of CUDTUnited and the tables of CRcvQueue hold what exists, and fit together.
Maps ==
  /\ m_Sockets \cap m_ClosedSockets = {}
  /\ m_Sockets \cup m_ClosedSockets \subseteq objects
  /\ onList \subseteq objects
  /\ m_vNewEntry \cup m_pHash \cup m_pRcvUList \subseteq onList
  /\ m_vNewEntry \cap (m_pHash \cup m_pRcvUList) = {}
  /\ m_pHash \subseteq m_pRcvUList
  /\ muxed \subseteq objects
  /\ \A s \in m_ClosedSockets : m_Status[s] = "CLOSED"

\* What newSocket() and newConnection() will give out next is not known to anybody.
Fresh ==
  /\ \A s \in objects \cup handedOut \cup broken : s >= m_SocketID
  /\ \A t \in Threads : /\ app[t].u # None => app[t].u >= m_SocketID
                        /\ app[t].s # None => app[t].s >= m_SocketID

\* A request has found its listener in the map.
Found == rcv.pc \notin {"listen", "fault"}

\* Whoever works on a socket that is closed was there when it was stamped, or has it on
\* CRcvQueue's list.
Grace ==
  /\ \A t \in Threads : Runs(t) /\ app[t].s \in m_ClosedSockets => t \in m_TimeStamp[app[t].s]
  /\ \A s \in m_ClosedSockets :
        (Found /\ s = rcv.ls) \/ s = rcv.ns => Worker \in m_TimeStamp[s] \/ s \in onList

\* What the collection is about to delete is closed, and its second is over.
Removing ==
  /\ gc.tbr \subseteq m_ClosedSockets
  /\ \A s \in gc.tbr : m_TimeStamp[s] = {} /\ s \notin onList
  /\ gc.pc = "remove" => gc.tbr # {}
  /\ gc.pc = "idle" => gc.tbr = {}

\* What each thread's pointers point to, at each place where it may stand.
Pointers ==
  /\ \A t \in Threads :
        /\ app[t].pc = "idle" => app[t].s = None
        /\ app[t].pc \notin {"idle", "fault"} => app[t].s \in m_Sockets \cup m_ClosedSockets
  /\ rcv.ls # None /\ Found => rcv.ls \in m_Sockets \cup m_ClosedSockets
  /\ rcv.ls # None /\ rcv.ls \in m_Sockets \cup m_ClosedSockets => rcv.ls \in muxed
  /\ rcv.ls # None => Listener >= m_SocketID
  /\ rcv.pc \in {"serve", "unlist", "signal", "insert", "queue"} => rcv.ns \in onList
  /\ rcv.pc = "unlist" => rcv.ns \notin m_vNewEntry \cup m_pHash \cup m_pRcvUList
  /\ rcv.pc = "old" => rcv.ns \in m_Sockets \cup m_ClosedSockets
  /\ rcv.pc \in {"idle", "listen", "known", "make", "fault"} => rcv.ns = None
  /\ rcv.pc \in {"idle", "serve", "unlist"} => rcv.ls = None
  /\ rcv.pc \notin {"idle", "serve", "unlist"} => rcv.ls = Listener
  /\ rcv.pc \in {"listen", "known", "old", "make"} => m_SocketID > 1

\* A connection that waits to be accepted is open, and no call has a pointer to it.
Waiting ==
  /\ \A s \in m_pQueuedSockets : s \notin handedOut /\ s # Listener
  /\ \A t \in Threads : app[t].u \notin m_pQueuedSockets /\ app[t].s \notin m_pQueuedSockets
  /\ QueuedAreOpen

\* Nor to one that newConnection() is making.
Making ==
  /\ rcv.pc \in {"insert", "queue"} =>
        /\ rcv.ns \notin handedOut \cup broken \cup m_pQueuedSockets /\ rcv.ns # Listener
        /\ \A t \in Threads : app[t].u # rcv.ns /\ app[t].s # rcv.ns
  /\ rcv.pc = "insert" => rcv.ns \notin m_Sockets \cup m_ClosedSockets
  /\ rcv.pc = "queue" => rcv.ns \in m_Sockets /\ m_Status[rcv.ns] = "CONNECTED"

\* The multiplexer counts the sockets that are bound to it, and the listener has it before
\* its connections do.
Multiplexer ==
  /\ Listener \in objects /\ m_Status[Listener] \in {"OPENED", "LISTENING"} => Listener \in muxed
  /\ m_pListener = Listener => Listener \in muxed
  /\ Listener \in m_Sockets /\ m_Status[Listener] = "INIT" => muxed = {}
  /\ m_SocketID > NSockets => m_Status[Listener] = "INIT"
  /\ gc.pc = "join" => muxed = {}
  /\ gc.pc # "join" => m_iRefCount = IF muxed = {} THEN -1 ELSE Cardinality(muxed)

SocketsInv ==
  /\ SetsOK /\ AppOK /\ RcvOK /\ GcOK
  /\ Maps /\ Fresh /\ Grace /\ Removing /\ Pointers /\ Waiting /\ Making /\ Multiplexer

-------------------------------------------------------------------------------
(* Facts about the helpers *)

\* Newest chooses the least of the set.
LEMMA NewestIsOne ==
  ASSUME NEW S \in SUBSET Id, S # {}
  PROVE  Newest(S) \in S /\ \A x \in S : Newest(S) <= x
<1> DEFINE R == OpToRel(<, Nat)
<1>1. IsWellFoundedOn(R, Nat)
  BY NatLessThanWellFounded
<1>2. S \subseteq Nat
  BY SocketsAssumption DEF SocketsAssumption, Id
<1>3. PICK x \in S : \A y \in S : ~(<<y, x>> \in R)
  BY <1>1, <1>2, WFMin
<1>4. ASSUME NEW y \in S PROVE x <= y
  <2>1. x \in Nat /\ y \in Nat
    BY <1>2
  <2>2. ~(y < x)
    BY <1>3, <2>1 DEF OpToRel
  <2> QED
    BY <2>1, <2>2
<1> QED
  BY <1>4 DEF Newest

LEMMA IdFinite ==
  ASSUME NEW S \in SUBSET Id
  PROVE  IsFiniteSet(S) /\ Cardinality(S) \in Nat
<1>1. 1 \in Int /\ NSockets \in Int
  BY SocketsAssumption DEF SocketsAssumption
<1>2. IsFiniteSet(Id)
  BY <1>1, FS_Interval DEF Id
<1> QED
  BY <1>2, FS_Subset, FS_CardinalityType

\* What is used of the constants: who is no socket and no thread, and that the listener has
\* the largest identifier.
LEMMA Ids ==
  Listener \in Id /\ None \notin Id /\ Worker \notin Threads
  BY SocketsAssumption DEF SocketsAssumption, Id, Listener

LEMMA IdOrder ==
  /\ Listener = NSockets /\ Listener \in Int /\ Id \subseteq Int
  /\ \A s \in Id : 1 <= s /\ s <= Listener
  BY SocketsAssumption DEF SocketsAssumption, Id, Listener

LEMMA UsersAre ==
  \A s \in Id : /\ \A t \in Threads : t \in Users(s) <=> Runs(t) /\ app[t].s = s
                /\ Worker \in Users(s) <=> s \in {rcv.ls, rcv.ns}
                /\ Users(s) \in SUBSET (Threads \cup {Worker})
  BY SocketsAssumption DEF SocketsAssumption, Users, Id

\* What a step of thread t does to app: it stands in a new call, in none, or further on in
\* the same.
LEMMA CallSet ==
  ASSUME AppOK, NEW t \in Threads, NEW r \in Calls, app' = [app EXCEPT ![t] = r]
  PROVE  /\ AppOK' /\ app'[t].pc = r.pc /\ app'[t].s = r.s /\ app'[t].u = r.u
         /\ \A x \in Threads \ {t} : app'[x] = app[x]
  BY DEF AppOK

LEMMA CallOver ==
  ASSUME AppOK, NEW t \in Threads, app' = [app EXCEPT ![t] = IdleApp]
  PROVE  /\ AppOK' /\ app'[t].pc = "idle" /\ app'[t].s = None /\ app'[t].u = None
         /\ \A x \in Threads \ {t} : app'[x] = app[x]
<1>1. IdleApp \in Calls
  BY DEF IdleApp, Calls, AppPc
<1> QED
  BY <1>1 DEF IdleApp, AppOK

LEMMA CallGoesOn ==
  ASSUME AppOK, NEW t \in Threads, NEW c \in AppPc, app' = [app EXCEPT ![t].pc = c]
  PROVE  /\ AppOK' /\ app'[t].pc = c /\ app'[t].s = app[t].s /\ app'[t].u = app[t].u
         /\ \A x \in Threads \ {t} : app'[x] = app[x]
  BY DEF AppOK, Calls

\* What the ends of a pass, of a call and of a stamp do.
LEMMA RcvOver ==
  ASSUME rcv' = IdleRcv
  PROVE  RcvOK' /\ rcv'.pc = "idle" /\ rcv'.ls = None /\ rcv'.ns = None
  BY DEF IdleRcv, RcvOK, RcvState, RcvPc

LEMMA LeftIs ==
  ASSUME SetsOK, NEW w \in Threads \cup {Worker}, m_TimeStamp' = Left(w)
  PROVE  /\ \A x \in Id : m_TimeStamp'[x] = m_TimeStamp[x] \ {w}
         /\ m_TimeStamp' \in [Id -> SUBSET (Threads \cup {Worker})]
  BY DEF SetsOK, Left

LEMMA StampedIs ==
  ASSUME SetsOK, NEW S \in SUBSET Id, m_TimeStamp' = Stamped(S)
  PROVE  /\ \A x \in Id : m_TimeStamp'[x] = IF x \in S THEN Users(x) ELSE m_TimeStamp[x]
         /\ m_TimeStamp' \in [Id -> SUBSET (Threads \cup {Worker})]
  BY UsersAre DEF SetsOK, Stamped

LEMMA StampedLess ==
  ASSUME SetsOK, NEW s \in Id, NEW w \in Threads,
         m_TimeStamp' = [Stamped({s}) EXCEPT ![s] = @ \ {w}]
  PROVE  /\ m_TimeStamp'[s] = Users(s) \ {w}
         /\ \A x \in Id \ {s} : m_TimeStamp'[x] = m_TimeStamp[x]
         /\ m_TimeStamp' \in [Id -> SUBSET (Threads \cup {Worker})]
  BY UsersAre DEF SetsOK, Stamped

-------------------------------------------------------------------------------
(* Every action keeps SocketsInv.  The first numbered step of a proof is about the parts *)
(* of which the action changes no variable.                                              *)

\* The listener is the first socket: nothing exists before it.
LEMMA NewSocketKeeps ==
  ASSUME SocketsInv, NEW t \in Threads, NewSocket(t)
  PROVE  SocketsInv'
<1> USE Ids DEF SocketsInv, AppPc, RcvPc, Statuses, Calls, RcvState, Runs, Located,
       ControlFree, QueuedAreOpen, Found, maps, flags, mux, accepting, lists
<1>a. /\ m_SocketID = NSockets + 1 /\ m_SocketID' = Listener /\ gc.pc = "idle"
      /\ app[t].pc = "idle"
  BY IdOrder DEF NewSocket, SetsOK
<1>b. objects = {} /\ muxed = {} /\ m_Status[Listener] = "INIT"
  BY <1>a, IdOrder DEF Fresh, SetsOK, Maps, Multiplexer
<1>c. /\ objects' = objects \cup {Listener} /\ m_Sockets' = m_Sockets \cup {Listener}
      /\ handedOut' = handedOut \cup {Listener}
  BY <1>a DEF NewSocket
<1>d. handedOut = {} /\ broken = {}
  BY <1>a, IdOrder DEF Fresh, SetsOK
<1>e. app' = app /\ broken' = broken
  BY DEF NewSocket
<1>f. \A x \in Threads : app[x].u = None /\ app[x].s = None
  <2> TAKE x \in Threads
  <2>1. app[x].u \in Id \cup {None} /\ app[x].s \in Id \cup {None}
    BY DEF AppOK
  <2>2. \A y \in Id : y \in Int /\ y < m_SocketID /\ m_SocketID \in Int
    BY <1>a, IdOrder
  <2>3. (app[x].u # None => app[x].u >= m_SocketID) /\ (app[x].s # None => app[x].s >= m_SocketID)
    BY DEF Fresh
  <2>4. \A y \in Id : ~(y >= m_SocketID)
    BY <2>2
  <2> QED
    BY <2>1, <2>3, <2>4
<1>g. Listener >= Listener
  BY IdOrder
<1>1. AppOK' /\ RcvOK' /\ GcOK' /\ Grace' /\ Removing'
  BY DEF NewSocket, AppOK, RcvOK, GcOK, Grace, Removing
<1>2. SetsOK'
  BY <1>a, <1>c, IdOrder, SocketsAssumption DEF NewSocket, SetsOK, SocketsAssumption
<1>3. Maps'
  BY DEF NewSocket, Maps, SetsOK, Fresh
<1>4. Fresh'
  BY <1>a, <1>b, <1>c, <1>d, <1>e, <1>f, <1>g DEF Fresh
<1>5. Pointers'
  <2>1. rcv.ls = None
    BY <1>a, IdOrder DEF Pointers
  <2> QED
    BY <2>1 DEF NewSocket, Pointers, SetsOK, Multiplexer, Maps
<1>6. Waiting'
  BY DEF NewSocket, Waiting, SetsOK, Maps, Fresh
<1>7. Making'
  BY DEF NewSocket, Making, SetsOK, AppOK, RcvOK, Maps, Pointers, Fresh
<1>8. Multiplexer'
  BY <1>a, <1>b, <1>c, IdOrder DEF NewSocket, Multiplexer
<1> QED
  BY <1>1, <1>2, <1>3, <1>4, <1>5, <1>6, <1>7, <1>8

LEMMA BindKeeps ==
  ASSUME SocketsInv, NEW t \in Threads, Bind(t)
  PROVE  SocketsInv'
<1> USE Ids DEF SocketsInv, AppPc, RcvPc, Statuses, Calls, RcvState, Runs, Located,
       ControlFree, QueuedAreOpen, Found, maps, flags, mux, accepting, lists
<1>a. /\ muxed' = {Listener} /\ m_iRefCount' = 1 /\ gc.pc = "idle"
      /\ m_Status'[Listener] = "OPENED" /\ Listener \in objects
  BY DEF Bind, Multiplexer, SetsOK, Maps
<1>b. Cardinality({Listener}) = 1
  BY FS_Singleton
<1>c. /\ m_SocketID' = m_SocketID /\ gc' = gc /\ objects' = objects /\ m_Sockets' = m_Sockets
      /\ m_pListener' = m_pListener
  BY DEF Bind
<1>1. AppOK' /\ RcvOK' /\ GcOK' /\ Fresh' /\ Grace' /\ Removing'
  BY DEF Bind, AppOK, RcvOK, GcOK, Fresh, Grace, Removing
<1>2. SetsOK'
  BY DEF Bind, SetsOK
<1>3. Maps'
  BY DEF Bind, Maps
<1>4. Pointers'
  BY DEF Bind, Pointers
<1>5. Waiting'
  BY DEF Bind, Waiting
<1>6. Making'
  BY DEF Bind, Making
<1>7. Multiplexer'
  BY <1>a, <1>b, <1>c, IdOrder DEF Multiplexer, Fresh, SetsOK
<1> QED
  BY <1>1, <1>2, <1>3, <1>4, <1>5, <1>6, <1>7

LEMMA ListenKeeps ==
  ASSUME SocketsInv, NEW t \in Threads, Listen(t)
  PROVE  SocketsInv'
<1> USE Ids DEF SocketsInv, AppPc, RcvPc, Statuses, Calls, RcvState, Runs, Located,
       ControlFree, QueuedAreOpen, Found, maps, flags, mux, accepting, lists
<1>1. AppOK' /\ RcvOK' /\ GcOK' /\ Fresh' /\ Grace' /\ Removing' /\ Pointers'
  BY DEF Listen, AppOK, RcvOK, GcOK, Fresh, Grace, Removing, Pointers
<1>2. SetsOK'
  BY DEF Listen, SetsOK
<1>3. Maps'
  BY DEF Listen, Maps
<1>4. Waiting'
  BY DEF Listen, Waiting
<1>5. Making'
  BY DEF Listen, Making
<1>6. Multiplexer'
  BY DEF Listen, Multiplexer, SetsOK, Maps
<1> QED
  BY <1>1, <1>2, <1>3, <1>4, <1>5, <1>6

LEMMA AcceptKeeps ==
  ASSUME SocketsInv, NEW t \in Threads, Accept(t)
  PROVE  SocketsInv'
<1> USE Ids DEF SocketsInv, AppPc, RcvPc, Statuses, Calls, RcvState, Runs, Located,
       ControlFree, QueuedAreOpen, Found, maps, flags, mux, accepting, lists
<1>a. /\ AppOK' /\ app'[t].pc = "take" /\ app'[t].s = Listener /\ app'[t].u = None
      /\ \A x \in Threads \ {t} : app'[x] = app[x]
      /\ Listener \in m_Sockets /\ m_Status[Listener] = "LISTENING" /\ gc.pc = "idle"
  <2>1. [pc |-> "take", s |-> Listener, u |-> None] \in Calls
    OBVIOUS
  <2> QED
    BY <2>1 DEF AppOK, Accept
<1>d. /\ rcv' = rcv /\ handedOut' = handedOut /\ closing' = closing
      /\ connected' = connected /\ broken' = broken /\ objects' = objects
      /\ m_Sockets' = m_Sockets /\ m_ClosedSockets' = m_ClosedSockets
      /\ m_Status' = m_Status /\ m_SocketID' = m_SocketID /\ m_pListener' = m_pListener
      /\ m_pQueuedSockets' = m_pQueuedSockets /\ onList' = onList
      /\ m_vNewEntry' = m_vNewEntry /\ m_pHash' = m_pHash /\ m_pRcvUList' = m_pRcvUList
      /\ muxed' = muxed /\ m_TimeStamp' = m_TimeStamp /\ m_iRefCount' = m_iRefCount
      /\ gc' = gc
  BY DEF Accept
<1>1. SetsOK' /\ RcvOK' /\ GcOK' /\ Maps' /\ Multiplexer'
  BY DEF Accept, SetsOK, RcvOK, GcOK, Maps, Multiplexer
<1>2. AppOK'
  BY <1>a
<1>3. Fresh'
  BY <1>a, <1>d DEF Fresh, Waiting, SetsOK, Maps, Pointers
<1>4. Grace'
  BY <1>a, <1>d DEF Grace, SetsOK, Maps
<1>5. Removing'
  BY <1>a, <1>d DEF Removing, SetsOK, Maps
<1>6. Pointers'
  BY <1>a, <1>d DEF Pointers
<1>7. Waiting'
  BY <1>a, <1>d DEF Waiting, SetsOK, Maps
<1>8. Making'
  BY <1>a, <1>d DEF Making, SetsOK, Pointers, Maps
<1> QED
  BY <1>1, <1>2, <1>3, <1>4, <1>5, <1>6, <1>7, <1>8

\* A connection passes from the queue to one thread.
LEMMA AcceptTakeKeeps ==
  ASSUME SocketsInv, NEW t \in Threads, AcceptTake(t)
  PROVE  SocketsInv'
<1> USE Ids DEF SocketsInv, AppPc, RcvPc, Statuses, Calls, RcvState, Runs, Located,
       ControlFree, QueuedAreOpen, Found, maps, flags, mux, accepting, lists
<1>a. /\ AppOK' /\ app'[t].pc \in {"wait", "check"} /\ app'[t].s = app[t].s
      /\ app'[t].u \in m_pQueuedSockets \cup {app[t].u} /\ app'[t].u \notin m_pQueuedSockets'
      /\ \A x \in Threads \ {t} : app'[x] = app[x]
      /\ m_pQueuedSockets' \subseteq m_pQueuedSockets /\ app[t].pc = "take"
  <2>1. CASE m_pQueuedSockets # {}
    <3>1. app' = [app EXCEPT ![t] = [pc |-> "check", s |-> app[t].s,
                                     u |-> Newest(m_pQueuedSockets)]]
      BY <2>1 DEF AcceptTake, AppOK
    <3>2. m_pQueuedSockets' = m_pQueuedSockets \ {Newest(m_pQueuedSockets)}
      BY <2>1 DEF AcceptTake
    <3>3. Newest(m_pQueuedSockets) \in m_pQueuedSockets /\ m_pQueuedSockets \subseteq Id
      BY <2>1, NewestIsOne DEF SetsOK
    <3>4. [pc |-> "check", s |-> app[t].s, u |-> Newest(m_pQueuedSockets)] \in Calls
      BY <3>3 DEF AppOK
    <3> QED
      BY <3>1, <3>2, <3>3, <3>4 DEF AppOK, AcceptTake
  <2>2. CASE m_pQueuedSockets = {}
    <3>1. PICK c \in {"wait", "check"} : app' = [app EXCEPT ![t].pc = c]
      BY <2>2 DEF AcceptTake
    <3>2. m_pQueuedSockets' = {}
      BY <2>2 DEF AcceptTake
    <3>3. /\ AppOK' /\ app'[t].pc = c /\ app'[t].s = app[t].s /\ app'[t].u = app[t].u
          /\ \A x \in Threads \ {t} : app'[x] = app[x]
      BY <3>1, CallGoesOn
    <3> QED
      BY <2>2, <3>2, <3>3 DEF SetsOK, AcceptTake
  <2> QED
    BY <2>1, <2>2
<1>d. /\ rcv' = rcv /\ handedOut' = handedOut /\ closing' = closing
      /\ connected' = connected /\ broken' = broken /\ objects' = objects
      /\ m_Sockets' = m_Sockets /\ m_ClosedSockets' = m_ClosedSockets
      /\ m_Status' = m_Status /\ m_SocketID' = m_SocketID /\ m_pListener' = m_pListener
      /\ onList' = onList /\ m_vNewEntry' = m_vNewEntry /\ m_pHash' = m_pHash
      /\ m_pRcvUList' = m_pRcvUList /\ muxed' = muxed /\ m_TimeStamp' = m_TimeStamp
      /\ m_iRefCount' = m_iRefCount /\ gc' = gc
  BY DEF AcceptTake
<1>1. RcvOK' /\ GcOK' /\ Maps' /\ Multiplexer'
  BY DEF AcceptTake, RcvOK, GcOK, Maps, Multiplexer
<1>2. SetsOK'
  BY DEF AcceptTake, SetsOK
<1>3. AppOK'
  BY <1>a
<1>4. Fresh'
  BY <1>a, <1>d DEF Fresh, Waiting, SetsOK, Maps, Pointers
<1>5. Grace'
  BY <1>a, <1>d DEF Grace, SetsOK, Maps
<1>6. Removing'
  BY <1>a, <1>d DEF Removing, SetsOK, Maps
<1>7. Pointers'
  BY <1>a, <1>d DEF Pointers
<1>8. Waiting'
  BY <1>a, <1>d DEF Waiting, SetsOK, Maps
<1>9. Making'
  BY <1>a, <1>d DEF Making, SetsOK, Pointers, Maps
<1> QED
  BY <1>1, <1>2, <1>3, <1>4, <1>5, <1>6, <1>7, <1>8, <1>9

LEMMA AcceptWakeKeeps ==
  ASSUME SocketsInv, NEW t \in Threads, AcceptWake(t)
  PROVE  SocketsInv'
<1> USE Ids DEF SocketsInv, AppPc, RcvPc, Statuses, Calls, RcvState, Runs, Located,
       ControlFree, QueuedAreOpen, Found, maps, flags, mux, accepting, lists
<1>1. RcvOK' /\ GcOK' /\ Maps' /\ Removing' /\ Multiplexer'
  BY DEF AcceptWake, RcvOK, GcOK, Maps, Removing, Multiplexer
<1>2. SetsOK'
  BY DEF AcceptWake, SetsOK
<1>3. AppOK'
  BY DEF AcceptWake, AppOK
<1>4. Fresh'
  BY DEF AcceptWake, Fresh
<1>5. Grace'
  BY DEF AcceptWake, Grace
<1>6. Pointers'
  BY DEF AcceptWake, Pointers
<1>7. Waiting'
  BY DEF AcceptWake, Waiting
<1>8. Making'
  BY DEF AcceptWake, Making
<1> QED
  BY <1>1, <1>2, <1>3, <1>4, <1>5, <1>6, <1>7, <1>8

LEMMA AcceptCheckKeeps ==
  ASSUME SocketsInv, NEW t \in Threads, AcceptCheck(t)
  PROVE  SocketsInv'
<1> USE Ids DEF SocketsInv, AppPc, RcvPc, Statuses, Calls, RcvState, Runs, Located,
       ControlFree, QueuedAreOpen, Found, maps, flags, mux, accepting, lists
<1>a. /\ AppOK'
      /\ \A x \in Threads \ {t} : app'[x] = app[x]
      /\ \/ /\ app'[t].pc = "idle" /\ app'[t].s = None /\ app'[t].u = None
            /\ (\A x \in Id : m_TimeStamp'[x] = m_TimeStamp[x] \ {t})
         \/ /\ app'[t].pc \in {"address", "take"} /\ app'[t].s = app[t].s /\ app'[t].u = app[t].u
            /\ m_TimeStamp' = m_TimeStamp /\ app[t].pc = "check"
  <2>1. CASE Return(t)
    BY <2>1, CallOver, LeftIs DEF Return
  <2>2. ASSUME NEW c \in {"address", "take"}, app' = [app EXCEPT ![t].pc = c]
        PROVE  /\ AppOK' /\ app'[t].pc = c /\ app'[t].s = app[t].s /\ app'[t].u = app[t].u
               /\ \A x \in Threads \ {t} : app'[x] = app[x]
    BY <2>2, CallGoesOn
  <2> QED
    BY <2>1, <2>2 DEF AcceptCheck
<1>d. /\ rcv' = rcv /\ handedOut' = handedOut /\ closing' = closing
      /\ connected' = connected /\ broken' = broken /\ objects' = objects
      /\ m_Sockets' = m_Sockets /\ m_ClosedSockets' = m_ClosedSockets
      /\ m_Status' = m_Status /\ m_SocketID' = m_SocketID /\ m_pListener' = m_pListener
      /\ m_pQueuedSockets' = m_pQueuedSockets /\ onList' = onList
      /\ m_vNewEntry' = m_vNewEntry /\ m_pHash' = m_pHash /\ m_pRcvUList' = m_pRcvUList
      /\ muxed' = muxed /\ m_iRefCount' = m_iRefCount /\ gc' = gc
  BY DEF AcceptCheck
<1>1. RcvOK' /\ GcOK' /\ Maps' /\ Multiplexer'
  BY DEF AcceptCheck, RcvOK, GcOK, Maps, Multiplexer
<1>2. SetsOK'
  BY DEF AcceptCheck, Return, Left, IdleApp, SetsOK
<1>3. AppOK'
  BY <1>a
<1>4. Fresh'
  BY <1>a, <1>d DEF Fresh, Waiting, SetsOK, Maps, Pointers
<1>5. Grace'
  BY <1>a, <1>d DEF Grace, SetsOK, Maps
<1>6. Removing'
  BY <1>a, <1>d DEF Removing, SetsOK, Maps
<1>7. Pointers'
  BY <1>a, <1>d DEF Pointers
<1>8. Waiting'
  BY <1>a, <1>d DEF Waiting, SetsOK, Maps
<1>9. Making'
  BY <1>a, <1>d DEF Making, SetsOK, Pointers, Maps
<1> QED
  BY <1>1, <1>2, <1>3, <1>4, <1>5, <1>6, <1>7, <1>8, <1>9

\* Or its connection is gone and the thread has ended.
LEMMA AcceptAddressKeeps ==
  ASSUME SocketsInv, NEW t \in Threads, AcceptAddress(t)
  PROVE  SocketsInv'
<1> USE Ids DEF SocketsInv, AppPc, RcvPc, Statuses, Calls, RcvState, Runs, Located,
       ControlFree, QueuedAreOpen, Found, maps, flags, mux, accepting, lists
<1>a. /\ AppOK' /\ (\A x \in Id : m_TimeStamp'[x] = m_TimeStamp[x] \ {t})
      /\ \A x \in Threads \ {t} : app'[x] = app[x]
      /\ \/ /\ app'[t].pc = "idle" /\ app'[t].s = None /\ app'[t].u = None /\ app[t].u \in m_Sockets
            /\ handedOut' = handedOut \cup {app[t].u}
         \/ /\ app'[t].pc = "fault" /\ app'[t].s = app[t].s /\ app'[t].u = app[t].u
            /\ handedOut' = handedOut
  <2>1. CASE Return(t) /\ Located(app[t].u) /\ handedOut' = handedOut \cup {app[t].u}
    BY <2>1, CallOver, LeftIs DEF Return
  <2>2. CASE app' = [app EXCEPT ![t].pc = "fault"] /\ m_TimeStamp' = Left(t) /\ handedOut' = handedOut
    BY <2>2, CallGoesOn, LeftIs
  <2> QED
    BY <2>1, <2>2 DEF AcceptAddress
<1>d. /\ rcv' = rcv /\ closing' = closing /\ connected' = connected /\ broken' = broken
      /\ objects' = objects /\ m_Sockets' = m_Sockets
      /\ m_ClosedSockets' = m_ClosedSockets /\ m_Status' = m_Status
      /\ m_SocketID' = m_SocketID /\ m_pListener' = m_pListener
      /\ m_pQueuedSockets' = m_pQueuedSockets /\ onList' = onList
      /\ m_vNewEntry' = m_vNewEntry /\ m_pHash' = m_pHash /\ m_pRcvUList' = m_pRcvUList
      /\ muxed' = muxed /\ m_iRefCount' = m_iRefCount /\ gc' = gc
  BY DEF AcceptAddress
<1>1. RcvOK' /\ GcOK' /\ Maps' /\ Multiplexer'
  BY DEF AcceptAddress, RcvOK, GcOK, Maps, Multiplexer
<1>2. SetsOK'
  BY DEF AcceptAddress, Return, Left, IdleApp, SetsOK
<1>3. AppOK'
  BY <1>a
<1>4. Fresh'
  BY <1>a, <1>d DEF Fresh, Waiting, SetsOK, Maps, Pointers
<1>5. Grace'
  BY <1>a, <1>d DEF Grace, SetsOK, Maps
<1>6. Removing'
  BY <1>a, <1>d DEF Removing, SetsOK, Maps
<1>7. Pointers'
  BY <1>a, <1>d DEF Pointers
<1>8. Waiting'
  BY <1>a, <1>d DEF Waiting, SetsOK, Maps
<1>9. Making'
  BY <1>a, <1>d DEF Making, SetsOK, Pointers, Maps
<1> QED
  BY <1>1, <1>2, <1>3, <1>4, <1>5, <1>6, <1>7, <1>8, <1>9

LEMMA UseKeeps ==
  ASSUME SocketsInv, NEW t \in Threads, NEW s \in Id, Use(t, s)
  PROVE  SocketsInv'
<1> USE Ids DEF SocketsInv, AppPc, RcvPc, Statuses, Calls, RcvState, Runs, Located,
       ControlFree, QueuedAreOpen, Found, maps, flags, mux, accepting, lists
<1>a. /\ AppOK' /\ app'[t].pc = "use" /\ app'[t].s = s /\ app'[t].u = None
      /\ \A x \in Threads \ {t} : app'[x] = app[x]
      /\ s \in handedOut \cap m_Sockets /\ m_Status[s] # "CLOSED" /\ gc.pc = "idle"
  <2>1. [pc |-> "use", s |-> s, u |-> None] \in Calls
    OBVIOUS
  <2> QED
    BY <2>1 DEF AppOK, Use
<1>d. /\ rcv' = rcv /\ handedOut' = handedOut /\ closing' = closing
      /\ connected' = connected /\ broken' = broken /\ objects' = objects
      /\ m_Sockets' = m_Sockets /\ m_ClosedSockets' = m_ClosedSockets
      /\ m_Status' = m_Status /\ m_SocketID' = m_SocketID /\ m_pListener' = m_pListener
      /\ m_pQueuedSockets' = m_pQueuedSockets /\ onList' = onList
      /\ m_vNewEntry' = m_vNewEntry /\ m_pHash' = m_pHash /\ m_pRcvUList' = m_pRcvUList
      /\ muxed' = muxed /\ m_TimeStamp' = m_TimeStamp /\ m_iRefCount' = m_iRefCount
      /\ gc' = gc
  BY DEF Use
<1>1. SetsOK' /\ RcvOK' /\ GcOK' /\ Maps' /\ Multiplexer'
  BY DEF Use, SetsOK, RcvOK, GcOK, Maps, Multiplexer
<1>2. AppOK'
  BY <1>a
<1>3. Fresh'
  BY <1>a, <1>d DEF Fresh, Waiting, SetsOK, Maps, Pointers
<1>4. Grace'
  BY <1>a, <1>d DEF Grace, SetsOK, Maps
<1>5. Removing'
  BY <1>a, <1>d DEF Removing, SetsOK, Maps
<1>6. Pointers'
  BY <1>a, <1>d DEF Pointers
<1>7. Waiting'
  BY <1>a, <1>d DEF Waiting, SetsOK, Maps
<1>8. Making'
  BY <1>a, <1>d DEF Making, SetsOK, Pointers, Maps
<1> QED
  BY <1>1, <1>2, <1>3, <1>4, <1>5, <1>6, <1>7, <1>8

LEMMA UsedKeeps ==
  ASSUME SocketsInv, NEW t \in Threads, Used(t)
  PROVE  SocketsInv'
<1> USE Ids DEF SocketsInv, AppPc, RcvPc, Statuses, Calls, RcvState, Runs, Located,
       ControlFree, QueuedAreOpen, Found, maps, flags, mux, accepting, lists
<1>a. /\ AppOK' /\ app'[t].pc = "idle" /\ app'[t].s = None /\ app'[t].u = None
      /\ \A x \in Threads \ {t} : app'[x] = app[x]
      /\ (\A x \in Id : m_TimeStamp'[x] = m_TimeStamp[x] \ {t})
  BY CallOver, LeftIs DEF Used, Return
<1>d. /\ rcv' = rcv /\ handedOut' = handedOut /\ closing' = closing
      /\ connected' = connected /\ broken' = broken /\ objects' = objects
      /\ m_Sockets' = m_Sockets /\ m_ClosedSockets' = m_ClosedSockets
      /\ m_Status' = m_Status /\ m_SocketID' = m_SocketID /\ m_pListener' = m_pListener
      /\ m_pQueuedSockets' = m_pQueuedSockets /\ onList' = onList
      /\ m_vNewEntry' = m_vNewEntry /\ m_pHash' = m_pHash /\ m_pRcvUList' = m_pRcvUList
      /\ muxed' = muxed /\ m_iRefCount' = m_iRefCount /\ gc' = gc
  BY DEF Used
<1>1. RcvOK' /\ GcOK' /\ Maps' /\ Multiplexer'
  BY DEF Used, RcvOK, GcOK, Maps, Multiplexer
<1>2. SetsOK'
  BY DEF Used, Return, Left, IdleApp, SetsOK
<1>3. AppOK'
  BY <1>a
<1>4. Fresh'
  BY <1>a, <1>d DEF Fresh, Waiting, SetsOK, Maps, Pointers
<1>5. Grace'
  BY <1>a, <1>d DEF Grace, SetsOK, Maps
<1>6. Removing'
  BY <1>a, <1>d DEF Removing, SetsOK, Maps
<1>7. Pointers'
  BY <1>a, <1>d DEF Pointers
<1>8. Waiting'
  BY <1>a, <1>d DEF Waiting, SetsOK, Maps
<1>9. Making'
  BY <1>a, <1>d DEF Making, SetsOK, Pointers, Maps
<1> QED
  BY <1>1, <1>2, <1>3, <1>4, <1>5, <1>6, <1>7, <1>8, <1>9

LEMMA CloseKeeps ==
  ASSUME SocketsInv, NEW t \in Threads, NEW s \in Id, Close(t, s)
  PROVE  SocketsInv'
<1> USE Ids DEF SocketsInv, AppPc, RcvPc, Statuses, Calls, RcvState, Runs, Located,
       ControlFree, QueuedAreOpen, Found, maps, flags, mux, accepting, lists
<1>a. /\ AppOK' /\ app'[t].pc = "close" /\ app'[t].s = s /\ app'[t].u = None
      /\ \A x \in Threads \ {t} : app'[x] = app[x]
      /\ s \in handedOut \cap m_Sockets /\ m_Status[s] # "CLOSED" /\ gc.pc = "idle"
  <2>1. [pc |-> "close", s |-> s, u |-> None] \in Calls
    OBVIOUS
  <2> QED
    BY <2>1 DEF AppOK, Close
<1>d. /\ rcv' = rcv /\ handedOut' = handedOut /\ closing' = closing
      /\ connected' = connected /\ broken' = broken /\ objects' = objects
      /\ m_Sockets' = m_Sockets /\ m_ClosedSockets' = m_ClosedSockets
      /\ m_Status' = m_Status /\ m_SocketID' = m_SocketID /\ m_pListener' = m_pListener
      /\ m_pQueuedSockets' = m_pQueuedSockets /\ onList' = onList
      /\ m_vNewEntry' = m_vNewEntry /\ m_pHash' = m_pHash /\ m_pRcvUList' = m_pRcvUList
      /\ muxed' = muxed /\ m_TimeStamp' = m_TimeStamp /\ m_iRefCount' = m_iRefCount
      /\ gc' = gc
  BY DEF Close
<1>1. SetsOK' /\ RcvOK' /\ GcOK' /\ Maps' /\ Multiplexer'
  BY DEF Close, SetsOK, RcvOK, GcOK, Maps, Multiplexer
<1>2. AppOK'
  BY <1>a
<1>3. Fresh'
  BY <1>a, <1>d DEF Fresh, Waiting, SetsOK, Maps, Pointers
<1>4. Grace'
  BY <1>a, <1>d DEF Grace, SetsOK, Maps
<1>5. Removing'
  BY <1>a, <1>d DEF Removing, SetsOK, Maps
<1>6. Pointers'
  BY <1>a, <1>d DEF Pointers
<1>7. Waiting'
  BY <1>a, <1>d DEF Waiting, SetsOK, Maps
<1>8. Making'
  BY <1>a, <1>d DEF Making, SetsOK, Pointers, Maps
<1> QED
  BY <1>1, <1>2, <1>3, <1>4, <1>5, <1>6, <1>7, <1>8

\* The listener is stamped with whoever works on it, the closing thread excepted.
LEMMA CloseListenerKeeps ==
  ASSUME SocketsInv, NEW t \in Threads, CloseListener(t)
  PROVE  SocketsInv'
<1> USE Ids DEF SocketsInv, AppPc, RcvPc, Statuses, Calls, RcvState, Runs, Located,
       ControlFree, QueuedAreOpen, Found, maps, flags, mux, accepting, lists
<1>a. /\ AppOK' /\ app'[t].pc = "idle" /\ app'[t].s = None /\ app'[t].u = None
      /\ \A x \in Threads \ {t} : app'[x] = app[x]
      /\ app[t].s \in m_Sockets \cup m_ClosedSockets /\ m_Status[app[t].s] = "LISTENING"
  BY CallOver DEF CloseListener, Pointers
<1>b. /\ \/ (\A x \in Id : m_TimeStamp'[x] = m_TimeStamp[x] \ {t}) /\ broken' = broken
         \/ /\ m_TimeStamp'[app[t].s] = Users(app[t].s) \ {t}
            /\ \A x \in Id \ {app[t].s} : m_TimeStamp'[x] = m_TimeStamp[x]
            /\ broken' = broken \cup {app[t].s}
      /\ m_TimeStamp' \in [Id -> SUBSET (Threads \cup {Worker})]
      /\ m_AcceptCond' \in BOOLEAN
  <2>1. CASE app[t].s \in broken
    BY <2>1, LeftIs DEF CloseListener, SetsOK
  <2>2. CASE app[t].s \notin broken
    <3>1. app[t].s \in Id
      BY <1>a DEF SetsOK
    <3>2. m_TimeStamp' = [Stamped({app[t].s}) EXCEPT ![app[t].s] = @ \ {t}]
      BY <2>2 DEF CloseListener
    <3> QED
      BY <2>2, <3>1, <3>2, StampedLess DEF CloseListener
  <2> QED
    BY <2>1, <2>2 DEF CloseListener
<1>d. /\ rcv' = rcv /\ handedOut' = handedOut /\ closing' = closing
      /\ connected' = connected /\ objects' = objects /\ m_Sockets' = m_Sockets
      /\ m_ClosedSockets' = m_ClosedSockets /\ m_Status' = m_Status
      /\ m_SocketID' = m_SocketID /\ m_pListener' = m_pListener
      /\ m_pQueuedSockets' = m_pQueuedSockets /\ onList' = onList
      /\ m_vNewEntry' = m_vNewEntry /\ m_pHash' = m_pHash /\ m_pRcvUList' = m_pRcvUList
      /\ muxed' = muxed /\ m_iRefCount' = m_iRefCount /\ gc' = gc
  BY DEF CloseListener
<1>1. RcvOK' /\ GcOK' /\ Maps' /\ Multiplexer'
  BY DEF CloseListener, RcvOK, GcOK, Maps, Multiplexer
<1>2. SetsOK'
  BY <1>a, <1>b, <1>d DEF CloseListener, SetsOK
<1>3. AppOK'
  BY <1>a
<1>4. Fresh'
  BY <1>a, <1>b, <1>d DEF Fresh, SetsOK
<1>5. Grace'
  BY <1>a, <1>b, <1>d, UsersAre DEF Grace, SetsOK, Maps
<1>6. Removing'
  BY <1>a, <1>b, <1>d DEF Removing, SetsOK, Maps
<1>7. Pointers'
  BY <1>a, <1>d DEF Pointers
<1>8. Waiting'
  BY <1>a, <1>d DEF Waiting, SetsOK, Maps
<1>9. Making'
  BY <1>a, <1>b, <1>d DEF Making, SetsOK, Pointers, Maps
<1> QED
  BY <1>1, <1>2, <1>3, <1>4, <1>5, <1>6, <1>7, <1>8, <1>9

LEMMA CloseUdtKeeps ==
  ASSUME SocketsInv, NEW t \in Threads, CloseUdt(t)
  PROVE  SocketsInv'
<1> USE Ids DEF SocketsInv, AppPc, RcvPc, Statuses, Calls, RcvState, Runs, Located,
       ControlFree, QueuedAreOpen, Found, maps, flags, mux, accepting, lists
<1>1. RcvOK' /\ GcOK' /\ Maps' /\ Removing'
  BY DEF CloseUdt, RcvOK, GcOK, Maps, Removing
<1>2. SetsOK'
  BY DEF CloseUdt, SetsOK
<1>3. AppOK'
  BY DEF CloseUdt, AppOK
<1>4. Fresh'
  BY DEF CloseUdt, Fresh
<1>5. Grace'
  BY DEF CloseUdt, Grace
<1>6. Pointers'
  BY DEF CloseUdt, Pointers
<1>7. Waiting'
  BY DEF CloseUdt, Waiting
<1>8. Making'
  BY DEF CloseUdt, Making
<1>9. Multiplexer'
  BY DEF CloseUdt, Multiplexer
<1> QED
  BY <1>1, <1>2, <1>3, <1>4, <1>5, <1>6, <1>7, <1>8, <1>9

\* The socket is stamped and moves to the closed ones, on one lock.
LEMMA CloseMoveKeeps ==
  ASSUME SocketsInv, NEW t \in Threads, CloseMove(t)
  PROVE  SocketsInv'
<1> USE Ids DEF SocketsInv, AppPc, RcvPc, Statuses, Calls, RcvState, Runs, Located,
       ControlFree, QueuedAreOpen, Found, maps, flags, mux, accepting, lists
<1>a. /\ AppOK' /\ app'[t].pc = "idle" /\ app'[t].s = None /\ app'[t].u = None
      /\ \A x \in Threads \ {t} : app'[x] = app[x]
      /\ app[t].s \in m_Sockets \cup m_ClosedSockets /\ gc.pc = "idle"
  BY CallOver DEF CloseMove, Pointers
<1>b. /\ \/ /\ (\A x \in Id : m_TimeStamp'[x] = m_TimeStamp[x] \ {t}) /\ m_Status' = m_Status
            /\ m_Sockets' = m_Sockets /\ m_ClosedSockets' = m_ClosedSockets
         \/ /\ m_TimeStamp'[app[t].s] = Users(app[t].s) \ {t}
            /\ \A x \in Id \ {app[t].s} : m_TimeStamp'[x] = m_TimeStamp[x]
            /\ app[t].s \in m_Sockets /\ m_Sockets' = m_Sockets \ {app[t].s}
            /\ m_ClosedSockets' = m_ClosedSockets \cup {app[t].s}
            /\ m_Status'[app[t].s] = "CLOSED"
            /\ \A x \in Id \ {app[t].s} : m_Status'[x] = m_Status[x]
      /\ m_TimeStamp' \in [Id -> SUBSET (Threads \cup {Worker})]
      /\ m_Status' \in [Id -> Statuses]
  <2>1. app[t].s \in Id
    BY <1>a DEF SetsOK
  <2>2. CASE m_TimeStamp' = Left(t) /\ ~Located(app[t].s)
    BY <2>2, LeftIs DEF CloseMove, SetsOK
  <2>3. CASE Located(app[t].s)
    <3>1. m_TimeStamp' = [Stamped({app[t].s}) EXCEPT ![app[t].s] = @ \ {t}]
      BY <2>3 DEF CloseMove
    <3>2. m_Status' = [m_Status EXCEPT ![app[t].s] = "CLOSED"]
      BY <2>3 DEF CloseMove
    <3>3. /\ m_Sockets' = m_Sockets \ {app[t].s} /\ app[t].s \in m_Sockets
          /\ m_ClosedSockets' = m_ClosedSockets \cup {app[t].s}
      BY <2>3 DEF CloseMove
    <3>4. /\ m_Status'[app[t].s] = "CLOSED" /\ m_Status' \in [Id -> Statuses]
          /\ \A x \in Id \ {app[t].s} : m_Status'[x] = m_Status[x]
      BY <2>1, <3>2 DEF SetsOK
    <3> QED
      BY <2>1, <3>1, <3>3, <3>4, StampedLess
  <2> QED
    BY <2>2, <2>3 DEF CloseMove
<1>d. /\ rcv' = rcv /\ handedOut' = handedOut /\ closing' = closing
      /\ connected' = connected /\ broken' = broken /\ objects' = objects
      /\ m_SocketID' = m_SocketID /\ m_pListener' = m_pListener
      /\ m_pQueuedSockets' = m_pQueuedSockets /\ onList' = onList
      /\ m_vNewEntry' = m_vNewEntry /\ m_pHash' = m_pHash /\ m_pRcvUList' = m_pRcvUList
      /\ muxed' = muxed /\ m_iRefCount' = m_iRefCount /\ gc' = gc
  BY DEF CloseMove
<1>1. RcvOK' /\ GcOK'
  BY DEF CloseMove, RcvOK, GcOK
<1>2. SetsOK'
  BY <1>a, <1>b, <1>d DEF CloseMove, SetsOK
<1>3. AppOK'
  BY <1>a
<1>4. Maps'
  BY <1>a, <1>b, <1>d DEF Maps, SetsOK
<1>5. Fresh'
  BY <1>a, <1>b, <1>d DEF Fresh, SetsOK
<1>6. Grace'
  BY <1>a, <1>b, <1>d, UsersAre DEF Grace, SetsOK, Maps
<1>7. Removing'
  BY <1>a, <1>b, <1>d DEF Removing, SetsOK, Maps
<1>8. Pointers'
  BY <1>a, <1>b, <1>d DEF Pointers, SetsOK
<1>9. Waiting'
  BY <1>a, <1>b, <1>d DEF Waiting, SetsOK
<1>10. Making'
  BY <1>a, <1>b, <1>d DEF Making, SetsOK, Pointers, Maps
<1>11. Multiplexer'
  BY <1>a, <1>b, <1>d, IdOrder DEF Multiplexer, SetsOK, Maps, Fresh
<1> QED
  BY <1>1, <1>2, <1>3, <1>4, <1>5, <1>6, <1>7, <1>8, <1>9, <1>10, <1>11

LEMMA RcvNewEntryKeeps ==
  ASSUME SocketsInv, NEW s \in Id, RcvNewEntry(s)
  PROVE  SocketsInv'
<1> USE Ids DEF SocketsInv, AppPc, RcvPc, Statuses, Calls, RcvState, Runs, Located,
       ControlFree, QueuedAreOpen, Found, NextPass, maps, flags, mux, accepting, lists
<1>1. AppOK' /\ RcvOK' /\ GcOK' /\ Fresh' /\ Grace' /\ Removing' /\ Waiting'
      /\ Making' /\ Multiplexer'
  BY DEF RcvNewEntry, AppOK, RcvOK, GcOK, Fresh, Grace, Removing, Waiting, Making,
         Multiplexer
<1>2. SetsOK'
  BY DEF RcvNewEntry, SetsOK
<1>3. Maps'
  BY DEF RcvNewEntry, Maps
<1>4. Pointers'
  BY DEF RcvNewEntry, Pointers
<1> QED
  BY <1>1, <1>2, <1>3, <1>4

LEMMA RcvServeKeeps ==
  ASSUME SocketsInv, NEW s \in Id, RcvServe(s)
  PROVE  SocketsInv'
<1> USE Ids DEF SocketsInv, AppPc, RcvPc, Statuses, Calls, RcvState, Runs, Located,
       ControlFree, QueuedAreOpen, Found, NextPass, maps, flags, mux, accepting, lists
<1>1. SetsOK' /\ AppOK' /\ GcOK' /\ Maps' /\ Fresh' /\ Removing' /\ Waiting'
      /\ Multiplexer'
  BY DEF RcvServe, SetsOK, AppOK, GcOK, Maps, Fresh, Removing, Waiting, Multiplexer
<1>2. RcvOK'
  BY DEF RcvServe, Healthy, RcvOK
<1>3. Grace'
  BY DEF RcvServe, Healthy, Grace, SetsOK, Maps
<1>4. Pointers'
  BY DEF RcvServe, Healthy, Pointers, SetsOK, Maps
<1>5. Making'
  BY DEF RcvServe, Healthy, Making
<1> QED
  BY <1>1, <1>2, <1>3, <1>4, <1>5

\* The connection that is served is on the list, so the stamp need not name the thread.
LEMMA RcvServedKeeps ==
  ASSUME SocketsInv, RcvServed
  PROVE  SocketsInv'
<1> USE Ids DEF SocketsInv, AppPc, RcvPc, Statuses, Calls, RcvState, Runs, Located,
       ControlFree, QueuedAreOpen, Found, maps, flags, mux, accepting, lists
<1>a. RcvOK' /\ rcv'.pc = "idle" /\ rcv'.ls = None /\ rcv'.ns = None
  BY RcvOver DEF RcvServed, RcvDone
<1>b. /\ \A x \in Id : m_TimeStamp'[x] = m_TimeStamp[x] \ {Worker}
      /\ m_TimeStamp' \in [Id -> SUBSET (Threads \cup {Worker})]
  BY LeftIs DEF RcvServed, RcvDone
<1>c. /\ rcv.ns \in onList /\ rcv.ns \in objects /\ closing' \subseteq closing \cup {rcv.ns}
      /\ broken' \subseteq broken \cup {rcv.ns} /\ connected' = connected
  BY DEF RcvServed, Pointers, Maps
<1>d. /\ handedOut' = handedOut /\ objects' = objects /\ m_Sockets' = m_Sockets
      /\ m_ClosedSockets' = m_ClosedSockets /\ m_Status' = m_Status
      /\ m_SocketID' = m_SocketID /\ m_pListener' = m_pListener
      /\ m_pQueuedSockets' = m_pQueuedSockets /\ onList' = onList
      /\ m_vNewEntry' = m_vNewEntry /\ m_pHash' = m_pHash /\ m_pRcvUList' = m_pRcvUList
      /\ muxed' = muxed /\ m_iRefCount' = m_iRefCount /\ gc' = gc /\ app' = app
  BY DEF RcvServed
<1>1. AppOK' /\ GcOK' /\ Maps' /\ Multiplexer'
  BY DEF RcvServed, AppOK, GcOK, Maps, Multiplexer
<1>2. SetsOK'
  BY <1>a, <1>b, <1>c, <1>d DEF SetsOK, RcvServed
<1>3. RcvOK'
  BY <1>a
<1>4. Fresh'
  BY <1>a, <1>c, <1>d DEF Fresh, SetsOK
<1>5. Grace'
  BY <1>a, <1>b, <1>d DEF Grace, SetsOK, Maps
<1>6. Removing'
  BY <1>a, <1>b, <1>d DEF Removing, SetsOK, Maps
<1>7. Pointers'
  BY <1>a, <1>b, <1>d DEF Pointers
<1>8. Waiting'
  BY <1>a, <1>d DEF Waiting, SetsOK, Maps
<1>9. Making'
  BY <1>a, <1>d DEF Making
<1> QED
  BY <1>1, <1>2, <1>3, <1>4, <1>5, <1>6, <1>7, <1>8, <1>9

LEMMA RcvDropKeeps ==
  ASSUME SocketsInv, NEW s \in Id, RcvDrop(s)
  PROVE  SocketsInv'
<1> USE Ids DEF SocketsInv, AppPc, RcvPc, Statuses, Calls, RcvState, Runs, Located,
       ControlFree, QueuedAreOpen, Found, NextPass, maps, flags, mux, accepting, lists
<1>1. AppOK' /\ GcOK' /\ Fresh' /\ Removing' /\ Waiting' /\ Multiplexer'
  BY DEF RcvDrop, AppOK, GcOK, Fresh, Removing, Waiting, Multiplexer
<1>2. SetsOK'
  BY DEF RcvDrop, Healthy, SetsOK
<1>3. RcvOK'
  BY DEF RcvDrop, Healthy, RcvOK
<1>4. Maps'
  BY DEF RcvDrop, Healthy, Maps
<1>5. Grace'
  BY DEF RcvDrop, Healthy, Grace, SetsOK, Maps
<1>6. Pointers'
  BY DEF RcvDrop, Healthy, Pointers, SetsOK, Maps
<1>7. Making'
  BY DEF RcvDrop, Healthy, Making
<1> QED
  BY <1>1, <1>2, <1>3, <1>4, <1>5, <1>6, <1>7

\* m_bOnList is taken back by the thread which is then through with the connection.
LEMMA RcvUnlistKeeps ==
  ASSUME SocketsInv, RcvUnlist
  PROVE  SocketsInv'
<1> USE Ids DEF SocketsInv, AppPc, RcvPc, Statuses, Calls, RcvState, Runs, Located,
       ControlFree, QueuedAreOpen, Found, maps, flags, mux, accepting, lists
<1>a. RcvOK' /\ rcv'.pc = "idle" /\ rcv'.ls = None /\ rcv'.ns = None
  BY RcvOver DEF RcvUnlist, RcvDone
<1>b. /\ \A x \in Id : m_TimeStamp'[x] = m_TimeStamp[x] \ {Worker}
      /\ m_TimeStamp' \in [Id -> SUBSET (Threads \cup {Worker})]
  BY LeftIs DEF RcvUnlist, RcvDone
<1>c. /\ onList' = onList \ {rcv.ns} /\ rcv.ns \notin m_vNewEntry \cup m_pHash \cup m_pRcvUList
  BY DEF RcvUnlist, Pointers
<1>d. /\ handedOut' = handedOut /\ closing' = closing /\ connected' = connected
      /\ broken' = broken /\ objects' = objects /\ m_Sockets' = m_Sockets
      /\ m_ClosedSockets' = m_ClosedSockets /\ m_Status' = m_Status
      /\ m_SocketID' = m_SocketID /\ m_pListener' = m_pListener
      /\ m_pQueuedSockets' = m_pQueuedSockets /\ m_vNewEntry' = m_vNewEntry
      /\ m_pHash' = m_pHash /\ m_pRcvUList' = m_pRcvUList /\ muxed' = muxed
      /\ m_iRefCount' = m_iRefCount /\ gc' = gc /\ app' = app
  BY DEF RcvUnlist
<1>1. AppOK' /\ GcOK' /\ Multiplexer'
  BY DEF RcvUnlist, AppOK, GcOK, Multiplexer
<1>2. SetsOK'
  BY <1>b, <1>c, <1>d DEF SetsOK, RcvUnlist
<1>3. RcvOK'
  BY <1>a
<1>4. Maps'
  BY <1>c, <1>d DEF Maps
<1>5. Fresh'
  BY <1>a, <1>d DEF Fresh
<1>6. Grace'
  BY <1>a, <1>b, <1>c, <1>d DEF Grace, SetsOK, Maps
<1>7. Removing'
  BY <1>b, <1>c, <1>d DEF Removing, SetsOK, Maps
<1>8. Pointers'
  BY <1>a, <1>b, <1>d DEF Pointers
<1>9. Waiting'
  BY <1>a, <1>d DEF Waiting, SetsOK, Maps
<1>10. Making'
  BY <1>a, <1>d DEF Making
<1> QED
  BY <1>1, <1>2, <1>3, <1>4, <1>5, <1>6, <1>7, <1>8, <1>9, <1>10

LEMMA RcvRequestKeeps ==
  ASSUME SocketsInv, NEW p \in Peers, RcvRequest(p)
  PROVE  SocketsInv'
<1> USE Ids DEF SocketsInv, AppPc, RcvPc, Statuses, Calls, RcvState, Runs, Located,
       ControlFree, QueuedAreOpen, Found, NextPass, maps, flags, mux, accepting, lists
<1>1. SetsOK' /\ AppOK' /\ GcOK' /\ Maps' /\ Fresh' /\ Removing' /\ Waiting'
      /\ Multiplexer'
  BY DEF RcvRequest, SetsOK, AppOK, GcOK, Maps, Fresh, Removing, Waiting, Multiplexer
<1>2. RcvOK'
  BY DEF RcvRequest, RcvOK, SetsOK, Maps
<1>3. Grace'
  BY DEF RcvRequest, Grace, SetsOK, Maps
<1>4. Pointers'
  <2>1. Listener \in muxed /\ Listener >= m_SocketID
    BY DEF RcvRequest, SetsOK, Multiplexer, Maps, Fresh
  <2> QED
    BY <2>1 DEF RcvRequest, Pointers, SetsOK, RcvOK
<1>5. Making'
  BY DEF RcvRequest, Making
<1> QED
  BY <1>1, <1>2, <1>3, <1>4, <1>5

LEMMA RcvLocateKeeps ==
  ASSUME SocketsInv, RcvLocate
  PROVE  SocketsInv'
<1> USE Ids DEF SocketsInv, AppPc, RcvPc, Statuses, Calls, RcvState, Runs, Located,
       ControlFree, QueuedAreOpen, Found, maps, flags, mux, accepting, lists
<1>a. /\ RcvOK' /\ rcv.ls = Listener /\ rcv'.ns = None /\ rcv.ns = None /\ gc.pc = "idle"
      /\ \/ /\ rcv'.pc = "known" /\ rcv'.ls = Listener /\ m_TimeStamp' = m_TimeStamp
            /\ Listener \in m_Sockets
         \/ /\ rcv'.pc = "idle" /\ rcv'.ls = None
            /\ \A x \in Id : m_TimeStamp'[x] = m_TimeStamp[x] \ {Worker}
      /\ rcv.pc = "listen"
  BY RcvOver, LeftIs DEF RcvLocate, RcvDone, RcvOK, Pointers
<1>d. /\ handedOut' = handedOut /\ closing' = closing /\ connected' = connected
      /\ broken' = broken /\ objects' = objects /\ m_Sockets' = m_Sockets
      /\ m_ClosedSockets' = m_ClosedSockets /\ m_Status' = m_Status
      /\ m_SocketID' = m_SocketID /\ m_pListener' = m_pListener
      /\ m_pQueuedSockets' = m_pQueuedSockets /\ onList' = onList
      /\ m_vNewEntry' = m_vNewEntry /\ m_pHash' = m_pHash /\ m_pRcvUList' = m_pRcvUList
      /\ muxed' = muxed /\ m_iRefCount' = m_iRefCount /\ gc' = gc /\ app' = app
  BY DEF RcvLocate
<1>1. AppOK' /\ GcOK' /\ Maps' /\ Multiplexer'
  BY DEF RcvLocate, AppOK, GcOK, Maps, Multiplexer
<1>2. SetsOK'
  BY DEF RcvLocate, RcvDone, Left, IdleRcv, SetsOK
<1>3. RcvOK'
  BY <1>a
<1>4. Fresh'
  BY <1>a, <1>d DEF Fresh
<1>5. Grace'
  BY <1>a, <1>d DEF Grace, SetsOK, Maps
<1>6. Removing'
  BY <1>a, <1>d DEF Removing, SetsOK, Maps
<1>7. Pointers'
  BY <1>a, <1>d DEF Pointers
<1>8. Waiting'
  BY <1>a, <1>d DEF Waiting, SetsOK, Maps
<1>9. Making'
  BY <1>a, <1>d DEF Making
<1> QED
  BY <1>1, <1>2, <1>3, <1>4, <1>5, <1>6, <1>7, <1>8, <1>9

\* Nothing is found that was not found before.
LEMMA RcvFaultKeeps ==
  ASSUME SocketsInv, RcvFault
  PROVE  SocketsInv'
<1> USE Ids DEF SocketsInv, AppPc, RcvPc, Statuses, Calls, RcvState, Runs, Located,
       ControlFree, QueuedAreOpen, Found, maps, flags, mux, accepting, lists
<1>1. SetsOK' /\ AppOK' /\ GcOK' /\ Maps' /\ Fresh' /\ Removing' /\ Waiting' /\ Multiplexer'
  BY DEF RcvFault, SetsOK, AppOK, GcOK, Maps, Fresh, Removing, Waiting, Multiplexer
<1>2. RcvOK'
  BY DEF RcvFault, RcvOK
<1>3. Grace'
  BY DEF RcvFault, Grace, Pointers
<1>4. Pointers'
  BY DEF RcvFault, Pointers, RcvOK
<1>5. Making'
  BY DEF RcvFault, Making
<1> QED
  BY <1>1, <1>2, <1>3, <1>4, <1>5

LEMMA RcvKnownKeeps ==
  ASSUME SocketsInv, RcvKnown
  PROVE  SocketsInv'
<1> USE Ids DEF SocketsInv, AppPc, RcvPc, Statuses, Calls, RcvState, Runs, Located,
       ControlFree, QueuedAreOpen, Found, maps, flags, mux, accepting, lists
<1>a. /\ RcvOK' /\ rcv.ls = Listener /\ rcv'.ls = Listener
      /\ \/ rcv'.pc = "make" /\ rcv'.ns = None
         \/ rcv'.pc = "old" /\ rcv'.ns \in m_Sockets
      /\ rcv.pc = "known" /\ rcv.ns = None
  <2> DEFINE known == {s \in m_Sockets : peerOf[s] = rcv.peer}
  <2>1. rcv.ls = Listener /\ rcv.pc = "known" /\ rcv.ns = None
    BY DEF RcvKnown, Pointers
  <2>2. CASE known = {}
    <3>1. rcv' = [rcv EXCEPT !.pc = "make"]
      BY <2>2 DEF RcvKnown
    <3> QED
      BY <2>1, <3>1 DEF RcvOK
  <2>3. CASE known # {}
    <3>1. rcv' = [rcv EXCEPT !.pc = "old", !.ns = Newest(known)]
      BY <2>3 DEF RcvKnown
    <3>2. Newest(known) \in m_Sockets /\ Newest(known) \in Id
      BY <2>3, NewestIsOne DEF SetsOK
    <3> QED
      BY <2>1, <3>1, <3>2 DEF RcvOK
  <2> QED
    BY <2>2, <2>3
<1>d. /\ handedOut' = handedOut /\ closing' = closing /\ connected' = connected
      /\ broken' = broken /\ objects' = objects /\ m_Sockets' = m_Sockets
      /\ m_ClosedSockets' = m_ClosedSockets /\ m_Status' = m_Status
      /\ m_SocketID' = m_SocketID /\ m_pListener' = m_pListener
      /\ m_pQueuedSockets' = m_pQueuedSockets /\ onList' = onList
      /\ m_vNewEntry' = m_vNewEntry /\ m_pHash' = m_pHash /\ m_pRcvUList' = m_pRcvUList
      /\ muxed' = muxed /\ m_TimeStamp' = m_TimeStamp /\ m_iRefCount' = m_iRefCount
      /\ gc' = gc /\ app' = app
  BY DEF RcvKnown
<1>1. SetsOK' /\ AppOK' /\ GcOK' /\ Maps' /\ Multiplexer'
  BY DEF RcvKnown, SetsOK, AppOK, GcOK, Maps, Multiplexer
<1>2. RcvOK'
  BY <1>a
<1>3. Fresh'
  BY <1>a, <1>d DEF Fresh
<1>4. Grace'
  BY <1>a, <1>d, IdOrder DEF Grace, SetsOK, Maps
<1>5. Removing'
  BY <1>a, <1>d DEF Removing, SetsOK, Maps
<1>6. Pointers'
  BY <1>a, <1>d DEF Pointers
<1>7. Waiting'
  BY <1>a, <1>d DEF Waiting, SetsOK, Maps
<1>8. Making'
  BY <1>a, <1>d DEF Making
<1> QED
  BY <1>1, <1>2, <1>3, <1>4, <1>5, <1>6, <1>7, <1>8

\* A broken connection of this peer is stamped while the thread still has it.
LEMMA RcvOldKeeps ==
  ASSUME SocketsInv, RcvOld
  PROVE  SocketsInv'
<1> USE Ids DEF SocketsInv, AppPc, RcvPc, Statuses, Calls, RcvState, Runs, Located,
       ControlFree, QueuedAreOpen, Found, Unqueued, maps, flags, mux, accepting, lists
<1>a. /\ rcv.pc = "old" /\ rcv.ns \in Id /\ rcv.ns \in m_Sockets \cup m_ClosedSockets
      /\ rcv.ls = Listener /\ m_SocketID > 1
      /\ Listener \in (m_Sockets \cup m_ClosedSockets) \cap muxed
  BY IdOrder DEF RcvOld, Pointers, SetsOK
<1>b. /\ RcvOK' /\ rcv'.ns = None
      /\ m_TimeStamp' \in [Id -> SUBSET (Threads \cup {Worker})]
      /\ \/ /\ rcv'.pc = "make" /\ rcv'.ls = Listener
            /\ m_TimeStamp'[rcv.ns] = Users(rcv.ns)
            /\ \A x \in Id \ {rcv.ns} : m_TimeStamp'[x] = m_TimeStamp[x]
            /\ m_pQueuedSockets' = m_pQueuedSockets \ {rcv.ns}
            /\ m_Status'[rcv.ns] = "CLOSED"
         \/ /\ rcv'.pc = "idle" /\ rcv'.ls = None
            /\ \A x \in Id : m_TimeStamp'[x] = m_TimeStamp[x] \ {Worker}
            /\ m_pQueuedSockets' = m_pQueuedSockets /\ m_Status' = m_Status
  <2>1. CASE RcvDone /\ UNCHANGED <<m_Status, m_pQueuedSockets>>
    BY <2>1, RcvOver, LeftIs DEF RcvDone
  <2>2. CASE /\ m_Status' = [m_Status EXCEPT ![rcv.ns] = "CLOSED"]
             /\ m_TimeStamp' = Stamped({rcv.ns})
             /\ m_pQueuedSockets' = Unqueued({rcv.ns})
             /\ rcv' = [rcv EXCEPT !.pc = "make", !.ns = None]
    <3>1. RcvOK' /\ rcv'.pc = "make" /\ rcv'.ns = None /\ rcv'.ls = Listener
      BY <1>a, <2>2 DEF RcvOK
    <3>2. m_Status'[rcv.ns] = "CLOSED"
      BY <1>a, <2>2 DEF SetsOK
    <3>3. /\ m_TimeStamp'[rcv.ns] = Users(rcv.ns)
          /\ \A x \in Id \ {rcv.ns} : m_TimeStamp'[x] = m_TimeStamp[x]
          /\ m_TimeStamp' \in [Id -> SUBSET (Threads \cup {Worker})]
      BY <1>a, <2>2, StampedIs
    <3> QED
      BY <2>2, <3>1, <3>2, <3>3
  <2> QED
    BY <2>1, <2>2 DEF RcvOld
<1>c. /\ m_Status' \in [Id -> Statuses]
      /\ \A x \in Id \ {rcv.ns} : m_Status'[x] = m_Status[x]
      /\ m_Status'[rcv.ns] \in {"CLOSED", m_Status[rcv.ns]}
  BY <1>a DEF RcvOld, SetsOK
<1>d. /\ handedOut' = handedOut /\ closing' = closing /\ connected' = connected
      /\ broken' = broken /\ objects' = objects /\ m_Sockets' = m_Sockets
      /\ m_ClosedSockets' = m_ClosedSockets /\ m_SocketID' = m_SocketID
      /\ m_pListener' = m_pListener /\ onList' = onList /\ m_vNewEntry' = m_vNewEntry
      /\ m_pHash' = m_pHash /\ m_pRcvUList' = m_pRcvUList /\ muxed' = muxed
      /\ m_iRefCount' = m_iRefCount /\ gc' = gc /\ app' = app
  BY DEF RcvOld
<1>1. AppOK' /\ GcOK'
  BY DEF RcvOld, AppOK, GcOK
<1>2. SetsOK'
  BY <1>b, <1>c, <1>d DEF RcvOld, SetsOK
<1>3. RcvOK'
  BY <1>b
<1>4. Maps'
  BY <1>a, <1>b, <1>c, <1>d DEF Maps, SetsOK
<1>5. Fresh'
  BY <1>d DEF Fresh
<1>6. Grace'
  BY <1>a, <1>b, <1>d, UsersAre DEF Grace, SetsOK, Maps
<1>7. Removing'
  BY <1>a, <1>b, <1>d, UsersAre DEF Removing, Grace, SetsOK, Maps
<1>8. Pointers'
  BY <1>a, <1>b, <1>d DEF Pointers
<1>9. Waiting'
  BY <1>a, <1>b, <1>c, <1>d DEF Waiting, SetsOK
<1>10. Making'
  BY <1>b, <1>d DEF Making
<1>11. Multiplexer'
  BY <1>a, <1>b, <1>c, <1>d DEF Multiplexer, SetsOK, Maps
<1> QED
  BY <1>1, <1>2, <1>3, <1>4, <1>5, <1>6, <1>7, <1>8, <1>9, <1>10, <1>11

LEMMA RcvRefuseKeeps ==
  ASSUME SocketsInv, RcvRefuse
  PROVE  SocketsInv'
<1> USE Ids DEF SocketsInv, AppPc, RcvPc, Statuses, Calls, RcvState, Runs, Located,
       ControlFree, QueuedAreOpen, Found, maps, flags, mux, accepting, lists
<1>1. RcvOK' /\ rcv'.pc = "idle" /\ rcv'.ls = None /\ rcv'.ns = None
  BY RcvOver DEF RcvRefuse, RcvDone
<1>2. /\ \A x \in Id : m_TimeStamp'[x] = m_TimeStamp[x] \ {Worker}
      /\ m_TimeStamp' \in [Id -> SUBSET (Threads \cup {Worker})]
  BY LeftIs DEF RcvRefuse, RcvDone
<1>3. SetsOK' /\ AppOK' /\ GcOK' /\ Maps' /\ Fresh'
  BY <1>2 DEF RcvRefuse, SetsOK, AppOK, GcOK, Maps, Fresh
<1>4. Grace' /\ Removing'
  BY <1>1, <1>2 DEF RcvRefuse, Grace, Removing, SetsOK, Maps
<1>5. Pointers' /\ Waiting' /\ Making' /\ Multiplexer'
  BY <1>1 DEF RcvRefuse, Pointers, Waiting, Making, Multiplexer
<1> QED
  BY <1>1, <1>3, <1>4, <1>5

\* The identifier that MakeSocket gives out is nobody's, and the listener is bound.
LEMMA MakeSocketFresh ==
  ASSUME SocketsInv, MakeSocket
  PROVE  /\ rcv.pc = "make" /\ rcv.ls = Listener /\ rcv.ns = None
         /\ m_SocketID' = m_SocketID - 1 /\ objects' = objects \cup {m_SocketID'}
         /\ m_SocketID' \in Id /\ m_SocketID' < m_SocketID /\ m_SocketID \in Int
         /\ m_SocketID' \in 1 .. NSockets + 1
         /\ m_SocketID' \notin objects \cup handedOut \cup broken
         /\ \A t \in Threads : app[t].u # m_SocketID' /\ app[t].s # m_SocketID'
         /\ m_SocketID' \notin m_Sockets \cup m_ClosedSockets \cup onList \cup m_vNewEntry
         /\ m_SocketID' \notin m_pHash \cup m_pRcvUList \cup muxed
         /\ Listener \in (m_Sockets \cup m_ClosedSockets) \cap muxed /\ m_SocketID' # Listener
         /\ Listener \in objects /\ Listener >= m_SocketID
<1> USE Ids DEF SocketsInv
<1> DEFINE ns == m_SocketID'
<1>1. /\ rcv.pc = "make" /\ rcv.ls = Listener /\ rcv.ns = None /\ m_SocketID > 1
      /\ ns = m_SocketID - 1 /\ objects' = objects \cup {ns}
  BY IdOrder DEF MakeSocket, Pointers, SetsOK
<1>2. ns \in Id /\ ns < m_SocketID /\ m_SocketID \in Int
  BY <1>1, SocketsAssumption DEF SetsOK, Id, SocketsAssumption
<1>3. ns \in 1 .. NSockets + 1
  BY <1>2, SocketsAssumption DEF Id, SocketsAssumption
<1>4. /\ ns \notin objects \cup handedOut \cup broken
      /\ \A t \in Threads : app[t].u # ns /\ app[t].s # ns
  BY <1>2, IdOrder DEF Fresh, SetsOK
<1>5. /\ ns \notin m_Sockets \cup m_ClosedSockets \cup onList \cup m_vNewEntry \cup m_pHash
      /\ ns \notin m_pRcvUList \cup muxed
  BY <1>4 DEF Maps
<1>6. Listener \in (m_Sockets \cup m_ClosedSockets) \cap muxed
  BY <1>1 DEF Pointers, Found
<1>7. ns # Listener /\ Listener \in objects /\ Listener >= m_SocketID
  BY <1>1, <1>5, <1>6 DEF Maps, Pointers
<1> QED
  BY <1>1, <1>2, <1>3, <1>4, <1>5, <1>6, <1>7

\* One more socket is bound to the multiplexer.
LEMMA ShareCounts ==
  ASSUME SocketsInv, NEW ns \in Id, ns \notin muxed, Listener \in muxed, Share(ns)
  PROVE  /\ muxed' = muxed \cup {ns} /\ m_iRefCount' = Cardinality(muxed') /\ muxed' # {}
         /\ gc.pc = "idle" /\ m_iRefCount' \in Int
<1>1. /\ muxed' = muxed \cup {ns} /\ m_iRefCount' = m_iRefCount + 1 /\ gc.pc = "idle"
      /\ m_iRefCount = Cardinality(muxed)
  BY DEF Share, ControlFree, SocketsInv, Multiplexer
<1>2. Cardinality(muxed') = Cardinality(muxed) + 1 /\ Cardinality(muxed) \in Nat
  BY <1>1, IdFinite, FS_AddElement DEF SocketsInv, SetsOK
<1> QED
  BY <1>1, <1>2

\* A new connection is on the list and bound before anyone can find it.
LEMMA RcvMakeKeeps ==
  ASSUME SocketsInv, RcvMake
  PROVE  SocketsInv'
<1> USE Ids DEF SocketsInv, AppPc, RcvPc, Statuses, Calls, RcvState, Runs, Located,
       ControlFree, QueuedAreOpen, Found, maps, flags, mux, accepting, lists
<1> DEFINE ns == m_SocketID'
<1>a. MakeSocket /\ Share(ns)
  BY DEF RcvMake
<1>b. /\ rcv.pc = "make" /\ rcv.ls = Listener /\ rcv.ns = None
      /\ objects' = objects \cup {ns}
      /\ ns \in Id /\ ns < m_SocketID /\ m_SocketID \in Int /\ ns \in 1 .. NSockets + 1
      /\ ns \notin objects \cup handedOut \cup broken
      /\ \A t \in Threads : app[t].u # ns /\ app[t].s # ns
      /\ ns \notin m_Sockets \cup m_ClosedSockets \cup onList \cup m_vNewEntry
      /\ ns \notin m_pHash \cup m_pRcvUList \cup muxed
      /\ Listener \in (m_Sockets \cup m_ClosedSockets) \cap muxed /\ ns # Listener
      /\ Listener \in objects /\ Listener >= m_SocketID
  BY <1>a, MakeSocketFresh
<1>c. /\ muxed' = muxed \cup {ns} /\ m_iRefCount' = Cardinality(muxed') /\ muxed' # {}
      /\ gc.pc = "idle" /\ m_iRefCount' \in Int
  BY <1>a, <1>b, ShareCounts
<1>d. /\ closing' = closing /\ broken' = broken /\ m_Sockets' = m_Sockets
      /\ m_ClosedSockets' = m_ClosedSockets /\ m_Status' = m_Status
      /\ m_pListener' = m_pListener /\ m_pQueuedSockets' = m_pQueuedSockets
      /\ m_AcceptCond' = m_AcceptCond /\ m_pHash' = m_pHash /\ m_pRcvUList' = m_pRcvUList
      /\ handedOut' = handedOut /\ app' = app /\ gc' = gc /\ m_TimeStamp' = m_TimeStamp
  BY DEF RcvMake
<1>e. /\ connected' = connected \cup {ns} /\ onList' = onList \cup {ns}
      /\ m_vNewEntry' = m_vNewEntry \cup {ns} /\ rcv' = [rcv EXCEPT !.pc = "insert", !.ns = ns]
  BY DEF RcvMake
<1>1. RcvOK' /\ rcv'.pc = "insert" /\ rcv'.ls = Listener /\ rcv'.ns = ns
  BY <1>b, <1>e DEF RcvOK
<1>i. m_SocketID' = ns
  OBVIOUS
<1> HIDE DEF ns
<1>2. SetsOK' /\ AppOK' /\ GcOK'
  BY <1>b, <1>c, <1>d, <1>e DEF SetsOK, AppOK, GcOK, ns
<1>3. Maps'
  BY <1>b, <1>c, <1>d, <1>e DEF Maps
<1>4. Fresh'
  <2>1. /\ ns \in Int /\ ns >= ns
        /\ \A x \in Int : x >= m_SocketID => x >= ns
    BY <1>b, IdOrder
  <2>2. \A x \in objects' \cup handedOut' \cup broken' : x >= m_SocketID'
    BY <1>b, <1>d, <1>i, <2>1, IdOrder DEF Fresh, SetsOK
  <2>3. \A t \in Threads : app[t].u \in Int \cup {None} /\ app[t].s \in Int \cup {None}
    BY IdOrder DEF AppOK
  <2>4. \A t \in Threads : /\ app'[t].u # None => app'[t].u >= m_SocketID'
                           /\ app'[t].s # None => app'[t].s >= m_SocketID'
    BY <1>d, <1>i, <2>1, <2>3 DEF Fresh
  <2> QED
    BY <2>2, <2>4 DEF Fresh
<1>5. Grace' /\ Removing'
  BY <1>b, <1>d, <1>e, <1>1 DEF Grace, Removing
<1>6. Pointers'
  BY <1>b, <1>c, <1>d, <1>e, <1>1, IdOrder DEF Pointers, ns
<1>7. Waiting' /\ Making'
  BY <1>b, <1>d, <1>1 DEF Waiting, Making
<1>8. Multiplexer'
  BY <1>b, <1>c, <1>d, IdOrder DEF Multiplexer, Fresh, SetsOK, ns
<1> QED
  BY <1>1, <1>2, <1>3, <1>4, <1>5, <1>6, <1>7, <1>8

\* A connection that is rolled back is in no map, and at most on the list.
LEMMA RcvRollbackKeeps ==
  ASSUME SocketsInv, RcvRollback
  PROVE  SocketsInv'
<1> USE Ids DEF SocketsInv, AppPc, RcvPc, Statuses, Calls, RcvState, Runs, Located,
       ControlFree, QueuedAreOpen, Found, maps, flags, mux, accepting, lists
<1> DEFINE ns == m_SocketID'
<1>a. MakeSocket
  BY DEF RcvRollback
<1>b. /\ rcv.pc = "make" /\ rcv.ls = Listener /\ rcv.ns = None
      /\ objects' = objects \cup {ns}
      /\ ns \in Id /\ ns < m_SocketID /\ m_SocketID \in Int /\ ns \in 1 .. NSockets + 1
      /\ ns \notin objects \cup handedOut \cup broken
      /\ ns \notin m_Sockets \cup m_ClosedSockets \cup onList \cup m_vNewEntry
      /\ ns \notin m_pHash \cup m_pRcvUList \cup muxed
      /\ Listener \in (m_Sockets \cup m_ClosedSockets) \cap muxed /\ ns # Listener
      /\ Listener \in objects /\ Listener >= m_SocketID
  BY <1>a, MakeSocketFresh
<1>c. \/ muxed' = muxed /\ m_iRefCount' = m_iRefCount /\ closing' = closing
      \/ /\ muxed' = muxed \cup {ns} /\ m_iRefCount' = Cardinality(muxed') /\ muxed' # {}
         /\ gc.pc = "idle" /\ m_iRefCount' \in Int /\ closing' = closing \cup {ns}
  BY <1>b, ShareCounts DEF RcvRollback
<1>d. /\ connected' = connected /\ broken' = broken /\ m_Sockets' = m_Sockets
      /\ m_ClosedSockets' = m_ClosedSockets
      /\ m_pListener' = m_pListener /\ m_pQueuedSockets' = m_pQueuedSockets
      /\ m_AcceptCond' = m_AcceptCond /\ m_pHash' = m_pHash /\ m_pRcvUList' = m_pRcvUList
      /\ handedOut' = handedOut /\ app' = app /\ gc' = gc
  BY DEF RcvRollback
<1>e. \/ onList' = onList /\ m_vNewEntry' = m_vNewEntry
      \/ onList' = onList \cup {ns} /\ m_vNewEntry' = m_vNewEntry \cup {ns}
  BY DEF RcvRollback
<1>f. /\ m_Status' \in [Id -> Statuses]
      /\ \A x \in Id \ {ns} : m_Status'[x] = m_Status[x]
  BY <1>b DEF RcvRollback, SetsOK
<1>g. RcvOK' /\ rcv'.pc = "idle" /\ rcv'.ls = None /\ rcv'.ns = None
  BY RcvOver DEF RcvRollback, RcvDone
<1>h. /\ \A x \in Id : m_TimeStamp'[x] = m_TimeStamp[x] \ {Worker}
      /\ m_TimeStamp' \in [Id -> SUBSET (Threads \cup {Worker})]
  BY LeftIs DEF RcvRollback, RcvDone
<1>i. m_SocketID' = ns
  OBVIOUS
<1> HIDE DEF ns
<1>1. SetsOK' /\ AppOK' /\ GcOK'
  BY <1>b, <1>c, <1>d, <1>e, <1>f, <1>h DEF SetsOK, AppOK, GcOK, ns
<1>2. Maps'
  <2>1. muxed' \subseteq objects'
    BY <1>b, <1>c DEF Maps
  <2>2. /\ onList' \subseteq objects' /\ m_vNewEntry' \cup m_pHash \cup m_pRcvUList \subseteq onList'
        /\ m_vNewEntry' \cap (m_pHash \cup m_pRcvUList) = {}
    BY <1>b, <1>e DEF Maps
  <2>3. \A x \in m_ClosedSockets : m_Status'[x] = "CLOSED"
    BY <1>b, <1>f DEF Maps, SetsOK
  <2> QED
    BY <1>b, <1>d, <2>1, <2>2, <2>3 DEF Maps
<1>3. Fresh'
  <2>1. /\ ns \in Int /\ ns >= ns
        /\ \A x \in Int : x >= m_SocketID => x >= ns
    BY <1>b, IdOrder
  <2>2. \A x \in objects' \cup handedOut' \cup broken' : x >= m_SocketID'
    BY <1>b, <1>d, <1>i, <2>1, IdOrder DEF Fresh, SetsOK
  <2>3. \A t \in Threads : app[t].u \in Int \cup {None} /\ app[t].s \in Int \cup {None}
    BY IdOrder DEF AppOK
  <2>4. \A t \in Threads : /\ app'[t].u # None => app'[t].u >= m_SocketID'
                           /\ app'[t].s # None => app'[t].s >= m_SocketID'
    BY <1>d, <1>i, <2>1, <2>3 DEF Fresh
  <2> QED
    BY <2>2, <2>4 DEF Fresh
<1>4. Grace' /\ Removing'
  <2>1. \A x \in Id \ {ns} : x \in onList' => x \in onList
    BY <1>e
  <2>2. Grace'
    <3>1. \A t \in Threads : Runs(t)' /\ app'[t].s \in m_ClosedSockets' =>
                               t \in m_TimeStamp'[app'[t].s]
      BY <1>d, <1>h DEF Grace, SetsOK
    <3>2. None \notin m_ClosedSockets'
      BY <1>d DEF SetsOK
    <3> QED
      BY <1>g, <3>1, <3>2 DEF Grace
  <2>3. Removing'
    <3>1. \A x \in gc.tbr : x \in m_ClosedSockets /\ x \in Id \ {ns}
      BY <1>b DEF Removing, SetsOK
    <3> QED
      BY <1>d, <1>h, <2>1, <3>1 DEF Removing
  <2> QED
    BY <2>2, <2>3
<1>5. Pointers'
  BY <1>d, <1>g DEF Pointers
<1>6. Waiting' /\ Making'
  BY <1>b, <1>d, <1>f, <1>g DEF Waiting, Making, SetsOK
<1>7. Multiplexer'
  BY <1>b, <1>c, <1>d, <1>f, IdOrder DEF Multiplexer, Fresh, SetsOK, ns
<1> QED
  BY <1>g, <1>1, <1>2, <1>3, <1>4, <1>5, <1>6, <1>7

LEMMA RcvInsertKeeps ==
  ASSUME SocketsInv, RcvInsert
  PROVE  SocketsInv'
<1> USE Ids DEF SocketsInv, AppPc, RcvPc, Statuses, Calls, RcvState, Runs, Located,
       ControlFree, QueuedAreOpen, Found, maps, flags, mux, accepting, lists
<1>1. AppOK' /\ GcOK' /\ Fresh' /\ Removing'
  BY DEF RcvInsert, AppOK, GcOK, Fresh, Removing
<1>2. SetsOK'
  BY DEF RcvInsert, SetsOK, Pointers
<1>3. RcvOK'
  BY DEF RcvInsert, RcvOK
<1>4. Maps'
  BY DEF RcvInsert, Maps, SetsOK, Pointers, Making
<1>5. Grace'
  BY DEF RcvInsert, Grace
<1>6. Pointers'
  BY DEF RcvInsert, Pointers
<1>7. Waiting'
  BY DEF RcvInsert, Waiting
<1>8. Making'
  BY DEF RcvInsert, Making, SetsOK, Pointers
<1>9. Multiplexer'
  BY DEF RcvInsert, Multiplexer, SetsOK, Maps, Pointers
<1> QED
  BY <1>1, <1>2, <1>3, <1>4, <1>5, <1>6, <1>7, <1>8, <1>9

LEMMA RcvQueueKeeps ==
  ASSUME SocketsInv, RcvQueue
  PROVE  SocketsInv'
<1> USE Ids DEF SocketsInv, AppPc, RcvPc, Statuses, Calls, RcvState, Runs, Located,
       ControlFree, QueuedAreOpen, Found, maps, flags, mux, accepting, lists
<1>1. AppOK' /\ GcOK' /\ Maps' /\ Fresh' /\ Removing' /\ Multiplexer'
  BY DEF RcvQueue, AppOK, GcOK, Maps, Fresh, Removing, Multiplexer
<1>2. SetsOK'
  BY DEF RcvQueue, SetsOK, Pointers
<1>3. RcvOK'
  BY DEF RcvQueue, RcvOK
<1>4. Grace'
  BY DEF RcvQueue, Grace
<1>5. Pointers'
  BY DEF RcvQueue, Pointers
<1>6. Waiting'
  BY DEF RcvQueue, Waiting, SetsOK, Pointers, Making
<1>7. Making'
  BY DEF RcvQueue, Making
<1> QED
  BY <1>1, <1>2, <1>3, <1>4, <1>5, <1>6, <1>7

LEMMA RcvSignalKeeps ==
  ASSUME SocketsInv, RcvSignal
  PROVE  SocketsInv'
<1> USE Ids DEF SocketsInv, AppPc, RcvPc, Statuses, Calls, RcvState, Runs, Located,
       ControlFree, QueuedAreOpen, Found, maps, flags, mux, accepting, lists
<1>a. RcvOK' /\ rcv'.pc = "idle" /\ rcv'.ls = None /\ rcv'.ns = None
  BY RcvOver DEF RcvSignal, RcvDone
<1>b. /\ \A x \in Id : m_TimeStamp'[x] = m_TimeStamp[x] \ {Worker}
      /\ m_TimeStamp' \in [Id -> SUBSET (Threads \cup {Worker})]
  BY LeftIs DEF RcvSignal, RcvDone
<1>d. /\ handedOut' = handedOut /\ closing' = closing /\ connected' = connected
      /\ broken' = broken /\ objects' = objects /\ m_Sockets' = m_Sockets
      /\ m_ClosedSockets' = m_ClosedSockets /\ m_Status' = m_Status
      /\ m_SocketID' = m_SocketID /\ m_pListener' = m_pListener
      /\ m_pQueuedSockets' = m_pQueuedSockets /\ onList' = onList
      /\ m_vNewEntry' = m_vNewEntry /\ m_pHash' = m_pHash /\ m_pRcvUList' = m_pRcvUList
      /\ muxed' = muxed /\ m_iRefCount' = m_iRefCount /\ gc' = gc /\ app' = app
  BY DEF RcvSignal
<1>1. AppOK' /\ GcOK' /\ Maps' /\ Multiplexer'
  BY DEF RcvSignal, AppOK, GcOK, Maps, Multiplexer
<1>2. SetsOK'
  BY DEF RcvSignal, RcvDone, Left, IdleRcv, SetsOK
<1>3. RcvOK'
  BY <1>a
<1>4. Fresh'
  BY <1>a, <1>d DEF Fresh
<1>5. Grace'
  BY <1>a, <1>b, <1>d DEF Grace, SetsOK, Maps
<1>6. Removing'
  BY <1>a, <1>b, <1>d DEF Removing, SetsOK, Maps
<1>7. Pointers'
  BY <1>a, <1>b, <1>d DEF Pointers
<1>8. Waiting'
  BY <1>a, <1>d DEF Waiting, SetsOK, Maps
<1>9. Making'
  BY <1>a, <1>d DEF Making
<1> QED
  BY <1>1, <1>2, <1>3, <1>4, <1>5, <1>6, <1>7, <1>8, <1>9

\* Sockets are stamped as they are closed, and taken for removal only with an empty stamp.
LEMMA GcRoundKeeps ==
  ASSUME SocketsInv, NEW C \in SUBSET Id, NEW D \in SUBSET Id, GcRound(C, D)
  PROVE  SocketsInv'
<1> USE Ids DEF SocketsInv, AppPc, RcvPc, Statuses, Calls, RcvState, Runs, Located,
       ControlFree, QueuedAreOpen, Found, Closable, Removable, Unqueued, IdleGc, maps, flags, mux,
       accepting, lists
<1>a. /\ gc.pc = "idle" /\ C \subseteq m_Sockets \cap broken
      /\ D \subseteq m_ClosedSockets /\ \A s \in D : m_TimeStamp[s] = {} /\ s \notin onList
  BY DEF GcRound, Expired
<1>b. /\ \A x \in Id : m_TimeStamp'[x] = IF x \in C THEN Users(x) ELSE m_TimeStamp[x]
      /\ m_TimeStamp' \in [Id -> SUBSET (Threads \cup {Worker})]
  BY StampedIs DEF GcRound
<1>c. /\ \A x \in Id : m_Status'[x] = IF x \in C THEN "CLOSED" ELSE m_Status[x]
      /\ m_Status' \in [Id -> Statuses]
  BY DEF GcRound, SetsOK
<1>d. /\ m_Sockets' = m_Sockets \ C /\ m_ClosedSockets' = m_ClosedSockets \cup C
      /\ m_pQueuedSockets' = m_pQueuedSockets \ C
  BY DEF GcRound
<1>e. /\ GcOK' /\ gc'.tbr = D
      /\ gc'.pc = IF D = {} THEN "idle" ELSE "remove"
  <2>1. CASE D = {}
    BY <2>1 DEF GcRound, GcOK, IdleGc
  <2>2. CASE D # {}
    BY <2>2 DEF GcRound, GcOK
  <2> QED
    BY <2>1, <2>2
<1>f. /\ objects' = objects /\ m_SocketID' = m_SocketID /\ connected' = connected
      /\ closing' = closing /\ broken' = broken /\ muxed' = muxed /\ m_iRefCount' = m_iRefCount
      /\ m_pListener' = m_pListener /\ m_AcceptCond' = m_AcceptCond /\ onList' = onList
      /\ m_vNewEntry' = m_vNewEntry /\ m_pHash' = m_pHash /\ m_pRcvUList' = m_pRcvUList
      /\ handedOut' = handedOut /\ app' = app /\ rcv' = rcv
  BY DEF GcRound
<1>1. SetsOK' /\ AppOK' /\ RcvOK'
  BY <1>b, <1>c, <1>d, <1>f DEF SetsOK, AppOK, RcvOK
<1>2. Maps' /\ Fresh'
  BY <1>a, <1>c, <1>d, <1>f DEF Maps, Fresh, SetsOK
<1>3. Grace'
  BY <1>a, <1>b, <1>d, <1>f, UsersAre DEF Grace, SetsOK
<1>4. Removing'
  BY <1>a, <1>b, <1>d, <1>e, <1>f DEF Removing, Maps, SetsOK
<1>5. Pointers'
  <2>1. m_Sockets' \cup m_ClosedSockets' = m_Sockets \cup m_ClosedSockets
    BY <1>a, <1>d
  <2> QED
    BY <1>d, <1>f, <2>1 DEF Pointers
<1>6. Waiting' /\ Making'
  BY <1>a, <1>c, <1>d, <1>f DEF Waiting, Making, Pointers, SetsOK, Maps
<1>7. Multiplexer'
  BY <1>a, <1>c, <1>d, <1>e, <1>f, IdOrder DEF Multiplexer, Fresh, Maps, SetsOK
<1> QED
  BY <1>1, <1>2, <1>3, <1>4, <1>5, <1>6, <1>7, <1>e

\* The socket that goes has an empty stamp and is not on the list, so that no pointer is left;
\* with the listener go the connections that nobody has accepted.
LEMMA GcRemoveKeeps ==
  ASSUME SocketsInv, GcRemove
  PROVE  SocketsInv'
<1> USE Ids DEF SocketsInv, AppPc, RcvPc, Statuses, Calls, RcvState, Runs, Located,
       ControlFree, QueuedAreOpen, Found, IdleGc, maps, flags, mux, accepting, lists
<1> DEFINE s == Newest(gc.tbr)
           orphans == IF s = Listener THEN m_pQueuedSockets ELSE {}
<1>a. gc.pc = "remove" /\ s \in gc.tbr /\ s \in m_ClosedSockets /\ s \in Id
  BY NewestIsOne DEF GcRemove, GcOK, Removing, SetsOK
<1>b. /\ s \notin onList /\ m_TimeStamp[s] = {} /\ s \in objects /\ s \notin m_Sockets
      /\ orphans \subseteq m_Sockets /\ orphans \subseteq Id /\ s \notin orphans
  BY <1>a DEF Removing, Maps, Waiting, SetsOK
<1>c. /\ \A t \in Threads : Runs(t) => app[t].s # s
      /\ (Found => rcv.ls # s) /\ rcv.ns # s
  BY <1>a, <1>b DEF Grace
<1>d. /\ objects' = objects \ {s}
      /\ m_Sockets' = m_Sockets \ orphans
      /\ m_ClosedSockets' = (m_ClosedSockets \cup orphans) \ {s}
      /\ broken' = (broken \cup orphans) \ {s}
      /\ closing' \subseteq closing \cup orphans /\ connected' \subseteq connected
  BY DEF GcRemove
<1>e. /\ m_pListener' = IF s = Listener THEN None ELSE m_pListener
      /\ m_pQueuedSockets' = IF s = Listener THEN {} ELSE m_pQueuedSockets
      /\ handedOut' = handedOut \ {s} /\ muxed' = muxed \ {s}
  BY DEF GcRemove
<1>f. /\ m_SocketID' = m_SocketID /\ m_AcceptCond' = m_AcceptCond /\ onList' = onList
      /\ m_vNewEntry' = m_vNewEntry /\ m_pHash' = m_pHash /\ m_pRcvUList' = m_pRcvUList
      /\ app' = app /\ rcv' = rcv
  BY DEF GcRemove
<1>g. /\ \A x \in Id : m_TimeStamp'[x] = IF x \in orphans THEN Users(x) ELSE m_TimeStamp[x]
      /\ m_TimeStamp' \in [Id -> SUBSET (Threads \cup {Worker})]
  <2>1. m_TimeStamp' = Stamped(orphans)
    BY DEF GcRemove
  <2> QED
    BY <1>b, <2>1, StampedIs
<1>h. /\ m_Status' \in [Id -> Statuses] /\ m_Status'[s] = "INIT"
      /\ \A x \in orphans : m_Status'[x] = "CLOSED"
      /\ \A x \in Id \ (orphans \cup {s}) : m_Status'[x] = m_Status[x]
  <2>1. m_Status' = [x \in Id |-> CASE x \in orphans -> "CLOSED"
                                   [] x = s -> "INIT"
                                   [] OTHER -> m_Status[x]]
    BY DEF GcRemove
  <2>2. ASSUME NEW x \in Id
        PROVE  m_Status'[x] = IF x \in orphans THEN "CLOSED"
                              ELSE IF x = s THEN "INIT" ELSE m_Status[x]
    BY <1>b, <2>1
  <2> HIDE DEF s, orphans
  <2>3. m_Status' \in [Id -> Statuses]
    BY <2>1, <2>2 DEF SetsOK
  <2> QED
    BY <1>a, <1>b, <2>2, <2>3
<1>i. Cardinality(muxed) \in Nat /\ IsFiniteSet(muxed) /\ (Cardinality(muxed) = 0 <=> muxed = {})
      /\ IsFiniteSet(muxed') /\ (Cardinality(muxed') = 0 <=> muxed' = {})
      /\ (s \in muxed => Cardinality(muxed') = Cardinality(muxed) - 1)
  BY <1>e, IdFinite, FS_EmptySet, FS_RemoveElement DEF SetsOK
<1>j. /\ m_iRefCount' = IF s \in muxed THEN m_iRefCount - 1 ELSE m_iRefCount
      /\ GcOK' /\ gc'.tbr = gc.tbr \ {s}
      /\ \/ /\ s \in muxed /\ m_iRefCount = 1 /\ gc'.pc = "join"
         \/ /\ ~(s \in muxed /\ m_iRefCount = 1)
            /\ gc'.pc = IF gc.tbr \ {s} = {} THEN "idle" ELSE "remove"
  <2>1. CASE s \in muxed /\ m_iRefCount = 1
    <3>1. gc' = [gc EXCEPT !.pc = "join", !.tbr = gc.tbr \ {s}]
      BY <2>1 DEF GcRemove
    <3>2. m_iRefCount' = m_iRefCount - 1
      BY <2>1 DEF GcRemove
    <3> HIDE DEF s, orphans
    <3> QED
      BY <1>a, <2>1, <3>1, <3>2 DEF GcOK
  <2>2. CASE ~(s \in muxed /\ m_iRefCount = 1)
    <3>1. gc' = IF gc.tbr \ {s} = {} THEN IdleGc ELSE [gc EXCEPT !.tbr = gc.tbr \ {s}]
      BY <2>2 DEF GcRemove
    <3>2. m_iRefCount' = IF s \in muxed THEN m_iRefCount - 1 ELSE m_iRefCount
      BY <2>2 DEF GcRemove
    <3> HIDE DEF s, orphans
    <3> QED
      BY <1>a, <2>2, <3>1, <3>2 DEF GcOK
  <2> QED
    BY <2>1, <2>2
<1>k. s = Listener \/ orphans = {}
  OBVIOUS
<1>l. s = Listener => orphans = m_pQueuedSockets
  OBVIOUS
<1> HIDE DEF s, orphans
<1>1. SetsOK' /\ AppOK' /\ RcvOK'
  BY <1>d, <1>e, <1>f, <1>g, <1>h, <1>j, <1>b DEF SetsOK, AppOK, RcvOK
<1>2. Maps' /\ Fresh'
  BY <1>a, <1>b, <1>d, <1>e, <1>f, <1>h DEF Maps, Fresh, SetsOK, Waiting
<1>3. Grace'
  BY <1>a, <1>b, <1>d, <1>f, <1>g, UsersAre DEF Grace, SetsOK
<1>4. Removing'
  BY <1>a, <1>b, <1>d, <1>f, <1>g, <1>j DEF Removing, Maps, SetsOK
<1>5. Pointers'
  BY <1>a, <1>b, <1>c, <1>d, <1>e, <1>f DEF Pointers
<1>6. Waiting'
  BY <1>a, <1>b, <1>d, <1>e, <1>f, <1>h, <1>k, <1>l DEF Waiting, SetsOK
<1>7. Making'
  BY <1>a, <1>b, <1>c, <1>d, <1>e, <1>f, <1>h, <1>k, <1>l DEF Making, Pointers, SetsOK, Maps
<1>8. Multiplexer'
  <2>1. ~(m_SocketID > NSockets)
    BY <1>a, <1>b, IdOrder DEF Fresh, SetsOK
  <2>2. s # Listener => orphans = {} /\ m_Status'[Listener] = m_Status[Listener]
    BY <1>h, <1>k
  <2>3. m_Sockets' \subseteq m_Sockets /\ muxed' \subseteq muxed
    BY <1>d, <1>e
  <2>4. s = Listener => Listener \notin objects' /\ Listener \notin m_Sockets'
    BY <1>b, <1>d
  <2>5. gc.pc # "join" /\ m_iRefCount = IF muxed = {} THEN -1 ELSE Cardinality(muxed)
    BY <1>a DEF Multiplexer
  <2>6. gc'.pc = "join" => muxed' = {}
    BY <1>i, <1>j, <2>5
  <2>7. gc'.pc # "join" => m_iRefCount' = IF muxed' = {} THEN -1 ELSE Cardinality(muxed')
    BY <1>e, <1>i, <1>j, <2>5
  <2>8. m_pListener' = Listener => Listener \in muxed'
    BY <1>e DEF Multiplexer
  <2> QED
    BY <1>d, <1>e, <1>f, <2>1, <2>2, <2>3, <2>4, <2>6, <2>7, <2>8 DEF Multiplexer
<1> QED
  BY <1>1, <1>2, <1>3, <1>4, <1>5, <1>6, <1>7, <1>8, <1>j

LEMMA GcJoinKeeps ==
  ASSUME SocketsInv, GcJoin
  PROVE  SocketsInv'
<1> USE Ids DEF SocketsInv, AppPc, RcvPc, Statuses, Calls, RcvState, Runs, Located,
       ControlFree, QueuedAreOpen, Found, IdleGc, maps, flags, mux, accepting, lists
<1>1. AppOK' /\ RcvOK' /\ Maps' /\ Fresh' /\ Grace' /\ Pointers' /\ Waiting'
      /\ Making'
  BY DEF GcJoin, AppOK, RcvOK, Maps, Fresh, Grace, Pointers, Waiting, Making
<1>2. SetsOK'
  BY DEF GcJoin, SetsOK
<1>3. GcOK'
  BY DEF GcJoin, GcOK
<1>4. Removing'
  BY DEF GcJoin, Removing
<1>5. Multiplexer'
  BY DEF GcJoin, Multiplexer
<1> QED
  BY <1>1, <1>2, <1>3, <1>4, <1>5

-------------------------------------------------------------------------------
(* The theorems *)

LEMMA InitKeeps == Init => SocketsInv
<1> SUFFICES ASSUME Init PROVE SocketsInv
  OBVIOUS
<1> USE Ids DEF Init, IdleApp, IdleRcv, IdleGc, AppPc, RcvPc, Statuses, Calls, RcvState
<1>1. SetsOK /\ AppOK /\ RcvOK /\ GcOK
  <2>1. m_SocketID \in 1 .. NSockets + 1
    BY SocketsAssumption DEF SocketsAssumption
  <2>2. /\ m_Status \in [Id -> Statuses] /\ m_TimeStamp \in [Id -> SUBSET (Threads \cup {Worker})]
        /\ m_iRefCount \in Int
    OBVIOUS
  <2>3. AppOK
    BY DEF AppOK
  <2>4. RcvOK /\ GcOK
    BY DEF RcvOK, GcOK
  <2>5. SetsOK
    <3> HIDE DEF Statuses
    <3> QED
      BY <2>1, <2>2 DEF SetsOK
  <2> QED
    BY <2>3, <2>4, <2>5
<1>2. Maps /\ Fresh /\ Grace /\ Removing /\ Pointers
  BY DEF Maps, Fresh, Grace, Removing, Pointers
<1>3. Waiting /\ Making /\ Multiplexer
  BY DEF Waiting, QueuedAreOpen, Making, Multiplexer
<1> QED
  BY <1>1, <1>2, <1>3 DEF SocketsInv

LEMMA StutterKeeps == ASSUME SocketsInv, UNCHANGED vars PROVE SocketsInv'
<1> USE DEF vars, maps, flags, mux, accepting, lists
<1>1. SetsOK' /\ AppOK' /\ RcvOK' /\ GcOK'
  BY DEF SocketsInv, SetsOK, AppOK, RcvOK, GcOK
<1>2. Maps' /\ Fresh' /\ Grace' /\ Removing' /\ Pointers'
  BY DEF SocketsInv, Maps, Fresh, Grace, Runs, Removing, Pointers, Found
<1>3. Waiting' /\ Making' /\ Multiplexer'
  BY DEF SocketsInv, Waiting, QueuedAreOpen, Making, Multiplexer
<1> QED
  BY <1>1, <1>2, <1>3 DEF SocketsInv

LEMMA StepKeeps ==
  ASSUME SocketsInv, [Next]_vars
  PROVE  SocketsInv'
<1>1. ASSUME NEW t \in Threads, ApplicationCalls(t) PROVE SocketsInv'
  BY <1>1, NewSocketKeeps, BindKeeps, ListenKeeps, AcceptKeeps, UseKeeps, CloseKeeps
     DEF ApplicationCalls
<1>2. ASSUME NEW t \in Threads, ApplicationMoves(t) PROVE SocketsInv'
  BY <1>2, AcceptTakeKeeps, AcceptWakeKeeps, AcceptCheckKeeps, AcceptAddressKeeps, UsedKeeps,
     CloseListenerKeeps, CloseUdtKeeps, CloseMoveKeeps
     DEF ApplicationMoves
<1>3. CASE RcvLists
  BY <1>3, RcvNewEntryKeeps, RcvDropKeeps DEF RcvLists
<1>4. CASE RcvMoves
  BY <1>4, RcvServedKeeps, RcvUnlistKeeps, RcvLocateKeeps, RcvKnownKeeps, RcvOldKeeps,
     RcvRefuseKeeps, RcvMakeKeeps, RcvRollbackKeeps, RcvInsertKeeps, RcvQueueKeeps,
     RcvSignalKeeps
     DEF RcvMoves
<1>5. CASE RcvWork
  BY <1>5, RcvServeKeeps, RcvRequestKeeps, RcvFaultKeeps DEF RcvWork
<1>6. CASE GcMoves
  <2>1. CASE GcRounds
    <3>1. PICK C \in SUBSET Closable, D \in SUBSET Removable : GcRound(C, D)
      BY <2>1 DEF GcRounds
    <3>2. C \in SUBSET Id /\ D \in SUBSET Id
      BY DEF Closable, Removable, SocketsInv, SetsOK
    <3> QED
      BY <3>1, <3>2, GcRoundKeeps
  <2> QED
    BY <1>6, <2>1, GcRemoveKeeps, GcJoinKeeps DEF GcMoves
<1> QED
  BY <1>1, <1>2, <1>3, <1>4, <1>5, <1>6, StutterKeeps DEF Next

\* The inductive invariant of the sockets, from which the properties follow, holds in every
\* state.
THEOREM SocketsCorrect == Spec => []SocketsInv
<1>1. Init => SocketsInv
  BY InitKeeps
<1>2. SocketsInv /\ [Next]_vars => SocketsInv'
  BY StepKeeps
<1> QED
  BY <1>1, <1>2, PTL DEF Spec

\* What a call of the application or the thread of CRcvQueue has found in a map or in a table
\* is not deleted by CUDTUnited::removeSocket while they have a pointer to it, and the count
\* of the multiplexer is right: a second of grace is enough, though nothing counts the
\* pointers.  The listener that CUDT::listen() has not located yet is not among them.
THEOREM NoUseOfDeletedHolds == Spec => []NoUseOfDeleted
<1>1. SocketsInv => NoUseOfDeleted
  <2> SUFFICES ASSUME SocketsInv PROVE NoUseOfDeleted
    OBVIOUS
  <2> USE DEF SocketsInv
  <2>1. \A t \in Threads : Runs(t) /\ app[t].s # None => app[t].s \in objects
    BY DEF Pointers, Runs, Maps
  <2>2. /\ {rcv.ns, m_pListener} \ {None} \subseteq objects
        /\ rcv.ls # None /\ rcv.pc \notin {"listen", "fault"} => rcv.ls \in objects
    <3>1. rcv.ls # None /\ Found => rcv.ls \in objects
      BY DEF Pointers, Maps
    <3>2. rcv.ns # None => rcv.ns \in objects
      BY DEF Pointers, Maps, RcvOK, RcvState, RcvPc
    <3>3. m_pListener # None => m_pListener \in objects
      BY DEF Multiplexer, Maps, SetsOK
    <3> QED
      BY <3>1, <3>2, <3>3 DEF Found
  <2>3. objects \cap muxed = muxed
    BY DEF Maps
  <2> QED
    BY <2>1, <2>2, <2>3 DEF NoUseOfDeleted, Maps, Multiplexer
<1> QED
  BY <1>1, SocketsCorrect, PTL

\* The connections that wait to be accepted are open and in m_Sockets, although each may
\* break while it waits: removeSocket() of the listener takes them out without a test.
THEOREM QueuedAreOpenHolds == Spec => []QueuedAreOpen
<1>1. SocketsInv => QueuedAreOpen
  BY DEF SocketsInv, Waiting
<1> QED
  BY <1>1, SocketsCorrect, PTL

-------------------------------------------------------------------------------
(* accept() and its event *)

\* What a call of accept() that sleeps can rely on: m_AcceptCond is set once the listener is
\* broken, until the thread that it lets through has looked and sets it again.
Accepting ==
  /\ \A t \in Threads : app[t].pc \in {"take", "wait", "check", "address"} => t \in Accepters
  /\ Listener \notin onList
  /\ Listener \in broken => m_AcceptCond \/ \E t \in Threads : app[t].pc = "check"
  /\ AcceptWoken

LEMMA AcceptingKept ==
  ASSUME SocketsInv, Accepting, [Next]_vars, \A s, t \in Accepters : s = t
  PROVE  Accepting'
<1> USE Ids DEF Accepting, AcceptWoken, SocketsInv, maps, flags, mux, accepting, lists
<1>1. CASE UNCHANGED vars
  BY <1>1 DEF vars
<1>2. ASSUME NEW t \in Threads, NewSocket(t) \/ Bind(t) \/ Listen(t) PROVE Accepting'
  BY <1>2 DEF NewSocket, Bind, Listen
<1>3. ASSUME NEW t \in Threads, Accept(t) PROVE Accepting'
  BY <1>3 DEF Accept, AppOK
<1>4. ASSUME NEW t \in Threads, AcceptTake(t) PROVE Accepting'
  <2>1. /\ app[t].pc = "take" /\ app'[t].pc \in {"wait", "check"}
        /\ \A x \in Threads \ {t} : app'[x] = app[x]
        /\ UNCHANGED <<broken, m_AcceptCond, onList, rcv>>
        /\ app'[t].pc = "wait" => m_pQueuedSockets' = {}
        /\ m_pQueuedSockets' \subseteq m_pQueuedSockets
    BY <1>4 DEF AcceptTake, AppOK, Calls
  <2>2. \A x \in Threads \ {t} : app[x].pc \notin {"wait", "check"}
    BY <2>1
  <2> QED
    BY <2>1, <2>2
<1>5. ASSUME NEW t \in Threads, AcceptWake(t) PROVE Accepting'
  BY <1>5 DEF AcceptWake, AppOK, Calls
<1>6. ASSUME NEW t \in Threads, AcceptCheck(t) PROVE Accepting'
  <2>1. /\ app[t].pc = "check" /\ app'[t].pc \in {"address", "idle", "take"}
        /\ \A x \in Threads \ {t} : app'[x] = app[x]
        /\ UNCHANGED <<broken, onList, rcv, m_pQueuedSockets>>
    BY <1>6 DEF AcceptCheck, AppOK, Calls, Return, IdleApp
  <2>2. Listener \in broken \/ m_AcceptCond => m_AcceptCond'
    BY <1>6 DEF AcceptCheck
  <2> QED
    BY <2>1, <2>2
<1>7. ASSUME NEW t \in Threads, AcceptAddress(t) PROVE Accepting'
  BY <1>7 DEF AcceptAddress, Return, IdleApp, AppOK, Calls
<1>8. ASSUME NEW t \in Threads, NEW s \in Id, Use(t, s) \/ Close(t, s) PROVE Accepting'
  BY <1>8 DEF Use, Close, AppOK
<1>9. ASSUME NEW t \in Threads, Used(t) PROVE Accepting'
  BY <1>9 DEF Used, Return, IdleApp, AppOK, Calls
<1>10. ASSUME NEW t \in Threads, CloseListener(t) PROVE Accepting'
  <2>1. /\ app[t].pc = "close" /\ app'[t].pc = "idle"
        /\ \A x \in Threads \ {t} : app'[x] = app[x]
        /\ UNCHANGED <<onList, rcv, m_pQueuedSockets>>
        /\ UNCHANGED <<broken, m_AcceptCond>> \/ m_AcceptCond'
    BY <1>10 DEF CloseListener, IdleApp, AppOK, Calls
  <2> QED
    BY <2>1
<1>11. ASSUME NEW t \in Threads, CloseUdt(t) PROVE Accepting'
  BY <1>11 DEF CloseUdt, AppOK, Calls
<1>12. ASSUME NEW t \in Threads, CloseMove(t) PROVE Accepting'
  BY <1>12 DEF CloseMove, IdleApp, AppOK, Calls
<1>13. ASSUME NEW s \in Id, RcvNewEntry(s) PROVE Accepting'
  BY <1>13 DEF RcvNewEntry
<1>14. ASSUME NEW s \in Id, RcvDrop(s) \/ RcvServe(s) PROVE Accepting'
  BY <1>14 DEF RcvDrop, RcvServe, NextPass
<1>15. CASE RcvServed
  <2>1. rcv.ns # Listener
    BY <1>15 DEF RcvServed, Pointers
  <2> QED
    BY <1>15, <2>1 DEF RcvServed, RcvDone
<1>16. CASE RcvUnlist
  BY <1>16 DEF RcvUnlist, RcvDone
<1>17. CASE RcvLocate \/ RcvKnown \/ RcvFault
  BY <1>17 DEF RcvLocate, RcvKnown, RcvFault, RcvDone
<1>18. CASE RcvOld
  BY <1>18 DEF RcvOld, RcvDone, Unqueued
<1>19. CASE RcvRefuse \/ RcvMake \/ RcvRollback
  <2>1. CASE RcvRefuse
    BY <2>1 DEF RcvRefuse, RcvDone
  <2>2. CASE RcvMake
    BY <2>2, MakeSocketFresh DEF RcvMake
  <2>3. CASE RcvRollback
    BY <2>3, MakeSocketFresh DEF RcvRollback, RcvDone
  <2> QED
    BY <1>19, <2>1, <2>2, <2>3
<1>20. CASE RcvInsert \/ RcvQueue \/ RcvSignal
  BY <1>20 DEF RcvInsert, RcvQueue, RcvSignal, RcvDone, RcvOK, RcvState
<1>21. ASSUME NEW p \in Peers, RcvRequest(p) PROVE Accepting'
  BY <1>21 DEF RcvRequest, NextPass
<1>22. CASE GcRounds
  BY <1>22 DEF GcRounds, GcRound, Unqueued
<1>23. CASE GcRemove
  <2>1. Listener \notin m_pQueuedSockets
    BY DEF Waiting
  <2>2. /\ Listener \in broken' => Listener \in broken
        /\ m_pQueuedSockets' \subseteq m_pQueuedSockets
        /\ UNCHANGED <<onList, m_AcceptCond, app, rcv>>
    BY <1>23, <2>1 DEF GcRemove
  <2> QED
    BY <2>2
<1>24. CASE GcJoin
  BY <1>24 DEF GcJoin
<1> QED
  BY <1>1, <1>2, <1>3, <1>4, <1>5, <1>6, <1>7, <1>8, <1>9, <1>10, <1>11, <1>12, <1>13, <1>14,
     <1>15, <1>16, <1>17, <1>18, <1>19, <1>20, <1>21, <1>22, <1>23, <1>24
     DEF Next, ApplicationCalls, ApplicationMoves, RcvLists, RcvMoves, RcvWork, GcMoves

\* One thread in accept() is never left asleep, neither by a connection that comes nor by
\* close() of the listener; with two of them the event, which lets one through, is too little.
THEOREM AcceptWokenHolds ==
  ASSUME \A s, t \in Accepters : s = t
  PROVE  Spec => []AcceptWoken
<1>1. Init => Accepting
  BY DEF Init, IdleApp, Accepting, AcceptWoken
<1>2. SocketsInv /\ Accepting /\ [Next]_vars => Accepting'
  BY AcceptingKept
<1>3. Accepting => AcceptWoken
  BY DEF Accepting
<1> QED
  BY <1>1, <1>2, <1>3, SocketsCorrect, PTL DEF Spec
===============================================================================
