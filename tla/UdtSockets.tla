------------------------------ MODULE UdtSockets ------------------------------
(***************************************************************************)
(* The life of the sockets behind a listening UDT socket                   *)
(* (src/udt/api.cpp, with the thread of CRcvQueue in queue.cpp): threads   *)
(* of the application, which accept, use and close connections, the thread *)
(* of CRcvQueue, which makes a connection of a request, hands packets to   *)
(* the connections and finds broken ones, and the thread of CUDTUnited     *)
(* which collects closed sockets.  The Windows branches are modelled.      *)
(*                                                                         *)
(* No count protects a socket that a thread works on.  A closed socket is  *)
(* stamped, and deleted "after approximately 1 second"; here the stamp is  *)
(* the set of the threads that worked on the socket then and still do, and *)
(* the second is over only when it is empty: no call lasts for a second    *)
(* after its socket is closed.  The wait for a listener's late peers is    *)
(* modelled the same way.  A thread that finds the socket only after the   *)
(* stamp is not waited for: so it is with the listener, which CRcvQueue    *)
(* goes on giving requests to until it is deleted.                         *)
(*                                                                         *)
(* One socket listens, bound to one multiplexer that its connections share.*)
(* Connections that the application opens itself, epoll, the linger time   *)
(* and cleanup() are left out, and a map or a set can always take one more *)
(* identifier.                                                             *)
(***************************************************************************)
EXTENDS Integers, FiniteSets

CONSTANTS
    NSockets,       \* how many sockets are made at most
    Backlog,        \* m_uiBackLog
    Peers,          \* the peers, each with one socket and one initial number
    Threads,        \* the threads of the application
    Accepters,      \* those that call accept()
    Worker,         \* the thread of CRcvQueue
    None

SocketsAssumption ==
    /\ NSockets \in Nat \ {0}
    /\ Backlog \in Nat \ {0}
    /\ Accepters \subseteq Threads
    /\ Worker \notin Threads
    /\ None \notin 1 .. NSockets
ASSUME SocketsAssumption

VARIABLES
    objects,            \* the CUDTSocket objects that are not deleted
    m_Sockets, m_ClosedSockets,
    m_SocketID,         \* the last identifier given out; they go down
    m_Status,           \* of each object
    m_TimeStamp,        \* of each socket: whom the collection has to wait for
    connected, closing, broken,     \* the sockets with m_bConnected, m_bClosing, m_bBroken
    onList,             \* those whose m_pRNode has m_bOnList
    muxed,              \* those with an m_iMuxID
    peerOf,             \* m_PeerID, m_iISN and the address
    m_iRefCount,        \* of the multiplexer, -1 when there is none
    m_pListener, m_pQueuedSockets, m_AcceptCond,
    m_vNewEntry, m_pHash, m_pRcvUList,
    handedOut,          \* what socket() and accept() have returned and is not deleted
    app,                \* per thread where its call is, its pointer s, and what it accepts, u
    rcv,                \* the same of the thread of CRcvQueue, with ls and the new socket ns
    gc                  \* the same of the collection, and what it is to remove

maps == <<objects, m_Sockets, m_ClosedSockets, m_SocketID, m_Status, m_TimeStamp, peerOf>>
flags == <<connected, closing, broken>>
mux == <<muxed, m_iRefCount>>
accepting == <<m_pListener, m_pQueuedSockets, m_AcceptCond>>
lists == <<onList, m_vNewEntry, m_pHash, m_pRcvUList>>
vars == <<maps, flags, mux, accepting, lists, handedOut, app, rcv, gc>>

Id == 1 .. NSockets
\* The socket that the application makes is the first, with the largest identifier.
Listener == NSockets

IdleApp == [pc |-> "idle", s |-> None, u |-> None]
IdleRcv == [pc |-> "idle", ls |-> None, ns |-> None, peer |-> None]
IdleGc == [pc |-> "idle", tbr |-> {}]

Init ==
    /\ objects = {} /\ m_Sockets = {} /\ m_ClosedSockets = {}
    /\ m_SocketID = NSockets + 1
    /\ m_Status = [s \in Id |-> "INIT"]
    /\ m_TimeStamp = [s \in Id |-> {}]
    /\ peerOf = [s \in Id |-> None]
    /\ connected = {} /\ closing = {} /\ broken = {}
    /\ muxed = {} /\ m_iRefCount = -1
    /\ m_pListener = None /\ m_pQueuedSockets = {} /\ m_AcceptCond = FALSE
    /\ onList = {} /\ m_vNewEntry = {} /\ m_pHash = {} /\ m_pRcvUList = {}
    /\ handedOut = {}
    /\ app = [t \in Threads |-> IdleApp]
    /\ rcv = IdleRcv
    /\ gc = IdleGc

-------------------------------------------------------------------------------
(* Helpers *)

\* m_ControlLock of CUDTUnited is free; only the collection keeps it over several steps.
ControlFree == gc.pc = "idle"

\* locate(u): NULL for a socket that is gone or CLOSED
Located(s) == s \in m_Sockets /\ m_Status[s] # "CLOSED"

\* A thread of which an access violation has made an end, and the process with it.
Runs(t) == app[t].pc # "fault"

\* Who works on socket s: whose call has a pointer to it.
Users(s) ==
    {t \in Threads : Runs(t) /\ app[t].s = s}
        \cup (IF s \in {rcv.ls, rcv.ns} THEN {Worker} ELSE {})

\* m_TimeStamp = CTimer::getTime() for the sockets of S
Stamped(S) == [s \in Id |-> IF s \in S THEN Users(s) ELSE m_TimeStamp[s]]

\* The second after the stamp is over.
Expired(s) == m_TimeStamp[s] = {}

\* Thread t leaves its call.
Left(t) == [s \in Id |-> m_TimeStamp[s] \ {t}]

Return(t) ==
    /\ app' = [app EXCEPT ![t] = IdleApp]
    /\ m_TimeStamp' = Left(t)

\* Mutant: a connection that breaks stays in the listener's queue.
Unqueued_Not(S) == m_pQueuedSockets

\* The listener's queue without the sockets of S; m_pAcceptSockets is not read anywhere.
Unqueued(S) == m_pQueuedSockets \ S

\* Identifiers go down, so begin() of a set of them is the socket made last.
Newest(S) == CHOOSE s \in S : \A x \in S : s <= x

-------------------------------------------------------------------------------
(* The application *)

\* newSocket()
NewSocket(t) ==
    /\ app[t].pc = "idle" /\ ControlFree /\ m_SocketID > NSockets
    /\ m_SocketID' = m_SocketID - 1
    /\ objects' = objects \cup {m_SocketID'}
    /\ m_Sockets' = m_Sockets \cup {m_SocketID'}
    /\ handedOut' = handedOut \cup {m_SocketID'}
    /\ UNCHANGED <<m_ClosedSockets, m_Status, m_TimeStamp, peerOf, flags, mux, accepting,
                   lists, app, rcv, gc>>

\* s->m_ControlLock is free: no thread is in the midst of close() of s.
SocketFree(s) == \A t \in Threads : ~(app[t].s = s /\ app[t].pc = "closed")

\* bind(): open() and updateMux(s, name), which makes the multiplexer and its threads
Bind(t) ==
    /\ app[t].pc = "idle" /\ ControlFree
    /\ Listener \in handedOut /\ Located(Listener) /\ SocketFree(Listener)
    /\ m_Status[Listener] = "INIT"
    /\ m_Status' = [m_Status EXCEPT ![Listener] = "OPENED"]
    /\ muxed' = muxed \cup {Listener} /\ m_iRefCount' = 1
    /\ UNCHANGED <<objects, m_Sockets, m_ClosedSockets, m_SocketID, m_TimeStamp, peerOf,
                   flags, accepting, lists, handedOut, app, rcv, gc>>

\* listen()
Listen(t) ==
    /\ app[t].pc = "idle" /\ ControlFree
    /\ Located(Listener) /\ SocketFree(Listener)
    /\ m_Status[Listener] = "OPENED"
    /\ m_pListener' = Listener
    /\ m_Status' = [m_Status EXCEPT ![Listener] = "LISTENING"]
    /\ UNCHANGED <<objects, m_Sockets, m_ClosedSockets, m_SocketID, m_TimeStamp, peerOf,
                   flags, mux, m_pQueuedSockets, m_AcceptCond, lists, handedOut, app, rcv,
                   gc>>

\* accept() up to its loop
Accept(t) ==
    /\ t \in Accepters
    /\ app[t].pc = "idle" /\ ControlFree
    /\ Located(Listener) /\ m_Status[Listener] = "LISTENING"
    /\ app' = [app EXCEPT ![t] = [pc |-> "take", s |-> Listener, u |-> None]]
    /\ UNCHANGED <<maps, flags, mux, accepting, lists, handedOut, rcv, gc>>

\* accept(): what it does under m_AcceptLock.  It takes begin() of the set.
AcceptTake(t) ==
    /\ app[t].pc = "take"
    /\ \/ /\ m_pQueuedSockets # {}
          /\ LET u == Newest(m_pQueuedSockets)
             IN /\ app' = [app EXCEPT ![t].pc = "check", ![t].u = u]
                /\ m_pQueuedSockets' = m_pQueuedSockets \ {u}
       \/ /\ m_pQueuedSockets = {}
          /\ app' = [app EXCEPT ![t].pc = IF m_Status[Listener] = "LISTENING"
                                          THEN "wait" ELSE "check"]
          /\ UNCHANGED m_pQueuedSockets
    /\ UNCHANGED <<maps, flags, mux, m_pListener, m_AcceptCond, lists, handedOut, rcv, gc>>

\* accept(): the wait for m_AcceptCond, an event that lets one thread through
AcceptWake(t) ==
    /\ app[t].pc = "wait" /\ m_AcceptCond
    /\ m_AcceptCond' = FALSE
    /\ app' = [app EXCEPT ![t].pc = "check"]
    /\ UNCHANGED <<maps, flags, mux, m_pListener, m_pQueuedSockets, lists, handedOut, rcv,
                   gc>>

\* accept(): the test after the wait, which wakes the next thread if the listener is closed
AcceptCheck(t) ==
    LET over == m_Status[Listener] # "LISTENING" \/ Listener \in broken
    IN /\ app[t].pc = "check"
       /\ m_AcceptCond' = (m_AcceptCond \/ over)
       /\ \/ /\ app[t].u # None
             /\ app' = [app EXCEPT ![t].pc = "address"]
             /\ UNCHANGED m_TimeStamp
          \/ /\ app[t].u = None /\ over
             /\ Return(t)
          \/ /\ app[t].u = None /\ ~over
             /\ app' = [app EXCEPT ![t].pc = "take"]
             /\ UNCHANGED m_TimeStamp
       /\ UNCHANGED <<objects, m_Sockets, m_ClosedSockets, m_SocketID, m_Status, peerOf,
                      flags, mux, m_pListener, m_pQueuedSockets, lists, handedOut, rcv, gc>>

\* accept(): locate(u)->m_iIPversion, where locate() may return NULL
AcceptAddress(t) ==
    /\ app[t].pc = "address" /\ ControlFree
    /\ \/ /\ Located(app[t].u)
          /\ handedOut' = handedOut \cup {app[t].u}
          /\ Return(t)
       \/ /\ ~Located(app[t].u)
          /\ app' = [app EXCEPT ![t].pc = "fault"]
          /\ m_TimeStamp' = Left(t)
          /\ UNCHANGED handedOut
    /\ UNCHANGED <<objects, m_Sockets, m_ClosedSockets, m_SocketID, m_Status, peerOf,
                   flags, mux, accepting, lists, rcv, gc>>

\* send() or recv(): lookup() finds the connection, and the call goes on without a lock.
Use(t, s) ==
    /\ app[t].pc = "idle" /\ ControlFree
    /\ s \in handedOut /\ s # Listener /\ Located(s)
    /\ app' = [app EXCEPT ![t] = [pc |-> "use", s |-> s, u |-> None]]
    /\ UNCHANGED <<maps, flags, mux, accepting, lists, handedOut, rcv, gc>>

\* It has what it waited for, or releaseSynch() has woken it.
Used(t) ==
    /\ app[t].pc = "use"
    /\ Return(t)
    /\ UNCHANGED <<objects, m_Sockets, m_ClosedSockets, m_SocketID, m_Status, peerOf,
                   flags, mux, accepting, lists, handedOut, rcv, gc>>

\* close(): it finds the socket, and then waits for s->m_ControlLock.
Close(t, s) ==
    /\ app[t].pc = "idle" /\ ControlFree
    /\ s \in handedOut /\ Located(s)
    /\ app' = [app EXCEPT ![t] = [pc |-> "close", s |-> s, u |-> None]]
    /\ UNCHANGED <<maps, flags, mux, accepting, lists, handedOut, rcv, gc>>

\* close() of a socket that listens: it only wakes a thread in accept().
CloseListener(t) ==
    LET s == app[t].s
    IN /\ app[t].pc = "close" /\ SocketFree(s) /\ m_Status[s] = "LISTENING"
       /\ app' = [app EXCEPT ![t] = IdleApp]
       /\ \/ /\ s \in broken
             /\ m_TimeStamp' = Left(t)
             /\ UNCHANGED <<broken, m_AcceptCond>>
          \/ /\ s \notin broken
             /\ m_TimeStamp' = [Stamped({s}) EXCEPT ![s] = @ \ {t}]
             /\ broken' = broken \cup {s}
             /\ m_AcceptCond' = TRUE
       /\ UNCHANGED <<objects, m_Sockets, m_ClosedSockets, m_SocketID, m_Status, peerOf,
                      connected, closing, mux, m_pListener, m_pQueuedSockets, lists,
                      handedOut, rcv, gc>>

\* close(): s->m_pUDT->close(), which does nothing if s was never bound.  That it waits for
\* the calls on s is left out.
CloseUdt(t) ==
    /\ app[t].pc = "close" /\ SocketFree(app[t].s) /\ m_Status[app[t].s] # "LISTENING"
    /\ closing' = closing \cup ({app[t].s} \cap muxed)
    /\ connected' = connected \ {app[t].s}
    /\ m_pListener' = IF app[t].s = m_pListener THEN None ELSE m_pListener
    /\ app' = [app EXCEPT ![t].pc = "closed"]
    /\ UNCHANGED <<maps, broken, mux, m_pQueuedSockets, m_AcceptCond, lists, handedOut,
                   rcv, gc>>

\* close(): the rest, unless the collection was faster
CloseMove(t) ==
    LET s == app[t].s
    IN /\ app[t].pc = "closed" /\ ControlFree
       /\ app' = [app EXCEPT ![t] = IdleApp]
       /\ \/ /\ ~Located(s)
             /\ m_TimeStamp' = Left(t)
             /\ UNCHANGED <<m_Sockets, m_ClosedSockets, m_Status>>
          \/ /\ Located(s)
             /\ m_Status' = [m_Status EXCEPT ![s] = "CLOSED"]
             /\ m_TimeStamp' = [Stamped({s}) EXCEPT ![s] = @ \ {t}]
             /\ m_Sockets' = m_Sockets \ {s}
             /\ m_ClosedSockets' = m_ClosedSockets \cup {s}
       /\ UNCHANGED <<objects, m_SocketID, peerOf, flags, mux, accepting, lists, handedOut,
                      rcv, gc>>

ApplicationMoves(t) ==
    \/ AcceptTake(t) \/ AcceptWake(t) \/ AcceptCheck(t) \/ AcceptAddress(t)
    \/ Used(t) \/ CloseListener(t) \/ CloseUdt(t) \/ CloseMove(t)

ApplicationCalls(t) ==
    \/ NewSocket(t) \/ Bind(t) \/ Listen(t) \/ Accept(t)
    \/ \E s \in Id : Use(t, s) \/ Close(t, s)

-------------------------------------------------------------------------------
(* The thread of CRcvQueue: between two iterations it sees that it has to end. *)

RcvDone ==
    /\ rcv' = IdleRcv
    /\ m_TimeStamp' = Left(Worker)

NextPass == rcv.pc = "idle" /\ gc.pc # "join"

\* worker(): a new entry is put on the list and into the hash table.
RcvNewEntry(s) ==
    /\ NextPass /\ s \in m_vNewEntry
    /\ m_vNewEntry' = m_vNewEntry \ {s}
    /\ m_pRcvUList' = m_pRcvUList \cup {s}
    /\ m_pHash' = m_pHash \cup {s}
    /\ UNCHANGED <<maps, flags, mux, accepting, onList, handedOut, app, rcv, gc>>

Healthy(s) == s \in connected /\ s \notin broken /\ s \notin closing

\* worker(): a packet for a connection in the hash table, or the turn of its timers
RcvServe(s) ==
    /\ NextPass /\ s \in m_pHash \cup m_pRcvUList
    /\ Healthy(s)
    /\ rcv' = [rcv EXCEPT !.pc = "serve", !.ns = s]
    /\ UNCHANGED <<maps, flags, mux, accepting, lists, handedOut, app, gc>>

\* processData(), processCtrl() and checkTimers(): a shutdown from the peer, or its
\* silence, breaks the connection.
RcvServed ==
    /\ rcv.pc = "serve"
    /\ \/ UNCHANGED flags
       \/ /\ closing' = closing \cup {rcv.ns} /\ broken' = broken \cup {rcv.ns}
          /\ UNCHANGED connected
    /\ RcvDone
    /\ UNCHANGED <<objects, m_Sockets, m_ClosedSockets, m_SocketID, m_Status, peerOf, mux,
                   accepting, lists, handedOut, app, gc>>

\* worker(): the timers of a connection that is not healthy; it leaves the hash table and
\* the list
RcvDrop(s) ==
    /\ NextPass /\ s \in m_pRcvUList /\ ~Healthy(s)
    /\ m_pHash' = m_pHash \ {s}
    /\ m_pRcvUList' = m_pRcvUList \ {s}
    /\ rcv' = [rcv EXCEPT !.pc = "unlist", !.ns = s]
    /\ UNCHANGED <<maps, flags, mux, accepting, onList, m_vNewEntry, handedOut, app, gc>>

\* Mutant: m_bOnList stays set.
RcvUnlist_Set ==
    /\ rcv.pc = "unlist"
    /\ RcvDone
    /\ UNCHANGED <<objects, m_Sockets, m_ClosedSockets, m_SocketID, m_Status, peerOf, flags,
                   mux, accepting, lists, handedOut, app, gc>>

\* worker(): m_bOnList = false
RcvUnlist ==
    /\ rcv.pc = "unlist"
    /\ onList' = onList \ {rcv.ns}
    /\ RcvDone
    /\ UNCHANGED <<objects, m_Sockets, m_ClosedSockets, m_SocketID, m_Status, peerOf, flags,
                   mux, accepting, m_vNewEntry, m_pHash, m_pRcvUList, handedOut, app, gc>>

\* worker(), CUDT::listen() with its test of m_bClosing: a request with a good cookie, new
\* or repeated, for whatever listener m_pListener points to
RcvRequest(p) ==
    /\ NextPass /\ m_pListener # None /\ m_pListener \notin closing
    /\ m_SocketID > 1
    /\ rcv' = [rcv EXCEPT !.pc = "listen", !.ls = m_pListener, !.peer = p]
    /\ UNCHANGED <<maps, flags, mux, accepting, lists, handedOut, app, gc>>

\* newConnection(): locate(listen); without it CUDT::listen() sends a refusal and returns
RcvLocate ==
    /\ rcv.pc = "listen" /\ ControlFree
    /\ \/ /\ Located(rcv.ls)
          /\ rcv' = [rcv EXCEPT !.pc = "known"]
          /\ UNCHANGED m_TimeStamp
       \/ /\ ~Located(rcv.ls)
          /\ RcvDone
    /\ UNCHANGED <<objects, m_Sockets, m_ClosedSockets, m_SocketID, m_Status, peerOf, flags,
                   mux, accepting, lists, handedOut, app, gc>>

\* CUDT::listen() works with the fields of a listener that is deleted.  What comes of it is
\* open: nothing, as above, or an access violation.
RcvFault ==
    /\ rcv.pc = "listen" /\ rcv.ls \notin objects
    /\ rcv' = [rcv EXCEPT !.pc = "fault"]
    /\ UNCHANGED <<maps, flags, mux, accepting, lists, handedOut, app, gc>>

\* newConnection(): locate(peer, id, isn) finds the newest connection of this peer.
RcvKnown ==
    LET known == {s \in m_Sockets : peerOf[s] = rcv.peer}
    IN /\ rcv.pc = "known" /\ ControlFree
       /\ rcv' = IF known = {} THEN [rcv EXCEPT !.pc = "make"]
                 ELSE [rcv EXCEPT !.pc = "old", !.ns = Newest(known)]
       /\ UNCHANGED <<maps, flags, mux, accepting, lists, handedOut, app, gc>>

\* newConnection(): the answer is repeated, unless that connection is broken
RcvOld ==
    LET ns == rcv.ns
    IN /\ rcv.pc = "old"
       /\ \/ /\ ns \in broken
             /\ m_Status' = [m_Status EXCEPT ![ns] = "CLOSED"]
             /\ m_TimeStamp' = Stamped({ns})
             /\ m_pQueuedSockets' = Unqueued({ns})
             /\ rcv' = [rcv EXCEPT !.pc = "make", !.ns = None]
          \/ /\ ns \notin broken
             /\ RcvDone
             /\ UNCHANGED <<m_Status, m_pQueuedSockets>>
       /\ UNCHANGED <<objects, m_Sockets, m_ClosedSockets, m_SocketID, peerOf, flags, mux,
                      m_pListener, m_AcceptCond, lists, handedOut, app, gc>>

\* newConnection(): no new socket, as the backlog is full or there is no memory for one
RcvRefuse ==
    /\ rcv.pc = "make"
    /\ RcvDone
    /\ UNCHANGED <<objects, m_Sockets, m_ClosedSockets, m_SocketID, m_Status, peerOf, flags,
                   mux, accepting, lists, handedOut, app, gc>>

\* newConnection(): the new socket and its identifier
MakeSocket ==
    /\ rcv.pc = "make" /\ Cardinality(m_pQueuedSockets) < Backlog
    /\ m_SocketID' = m_SocketID - 1
    /\ objects' = objects \cup {m_SocketID'}
    /\ peerOf' = [peerOf EXCEPT ![m_SocketID'] = rcv.peer]

\* newConnection(): updateMux() with the multiplexer of the listener
Share(ns) ==
    /\ ControlFree
    /\ muxed' = muxed \cup {ns} /\ m_iRefCount' = m_iRefCount + 1

\* newConnection(): open(), updateMux() and connect(), which registers the new socket for
\* the list
RcvMake ==
    /\ MakeSocket
    /\ Share(m_SocketID')
    /\ connected' = connected \cup {m_SocketID'}
    /\ onList' = onList \cup {m_SocketID'} /\ m_vNewEntry' = m_vNewEntry \cup {m_SocketID'}
    /\ rcv' = [rcv EXCEPT !.pc = "insert", !.ns = m_SocketID']
    /\ UNCHANGED <<m_Sockets, m_ClosedSockets, m_Status, m_TimeStamp, closing, broken,
                   accepting, m_pHash, m_pRcvUList, handedOut, app, gc>>

\* newConnection(), ERR_ROLLBACK: there was no memory in open(), or in connect() before the
\* socket is registered or after.  It is closed, and left as it is, in no map.
RcvRollback ==
    /\ MakeSocket
    /\ \/ UNCHANGED <<closing, muxed, m_iRefCount, onList, m_vNewEntry>>
       \/ /\ Share(m_SocketID')
          /\ closing' = closing \cup {m_SocketID'}
          /\ \/ UNCHANGED <<onList, m_vNewEntry>>
             \/ /\ onList' = onList \cup {m_SocketID'}
                /\ m_vNewEntry' = m_vNewEntry \cup {m_SocketID'}
    /\ m_Status' = [m_Status EXCEPT ![m_SocketID'] = "CLOSED"]
    /\ RcvDone
    /\ UNCHANGED <<m_Sockets, m_ClosedSockets, connected, broken, accepting, m_pHash,
                   m_pRcvUList, handedOut, app, gc>>

\* newConnection(): m_Status = CONNECTED, and the map of sockets
RcvInsert ==
    /\ rcv.pc = "insert" /\ ControlFree
    /\ m_Status' = [m_Status EXCEPT ![rcv.ns] = "CONNECTED"]
    /\ m_Sockets' = m_Sockets \cup {rcv.ns}
    /\ rcv' = [rcv EXCEPT !.pc = "queue"]
    /\ UNCHANGED <<objects, m_ClosedSockets, m_SocketID, m_TimeStamp, peerOf, flags, mux,
                   accepting, lists, handedOut, app, gc>>

\* newConnection(): the listener's queue
RcvQueue ==
    /\ rcv.pc = "queue"
    /\ m_pQueuedSockets' = m_pQueuedSockets \cup {rcv.ns}
    /\ rcv' = [rcv EXCEPT !.pc = "signal"]
    /\ UNCHANGED <<maps, flags, mux, m_pListener, m_AcceptCond, lists, handedOut, app, gc>>

\* Mutant: newConnection() leaves without SetEvent().
RcvSignal_Silent ==
    /\ rcv.pc = "signal"
    /\ RcvDone
    /\ UNCHANGED <<objects, m_Sockets, m_ClosedSockets, m_SocketID, m_Status, peerOf, flags,
                   mux, accepting, lists, handedOut, app, gc>>

\* newConnection(): SetEvent(ls->m_AcceptCond)
RcvSignal ==
    /\ rcv.pc = "signal"
    /\ m_AcceptCond' = TRUE
    /\ RcvDone
    /\ UNCHANGED <<objects, m_Sockets, m_ClosedSockets, m_SocketID, m_Status, peerOf, flags,
                   mux, m_pListener, m_pQueuedSockets, lists, handedOut, app, gc>>

RcvLists == \E s \in Id : RcvNewEntry(s) \/ RcvDrop(s)

RcvMoves ==
    \/ RcvServed \/ RcvUnlist \/ RcvLocate \/ RcvKnown \/ RcvOld \/ RcvRefuse \/ RcvMake
    \/ RcvRollback \/ RcvInsert \/ RcvQueue \/ RcvSignal

RcvWork ==
    \/ \E s \in Id : RcvServe(s)
    \/ \E p \in Peers : RcvRequest(p)
    \/ RcvFault

-------------------------------------------------------------------------------
(* The collection *)

\* checkBrokenSockets(): which broken sockets it may close.  One with data that were not
\* read may be left for a number of rounds, a listener for three seconds.
Closable == {s \in m_Sockets \cap broken : m_Status[s] = "LISTENING" => Expired(s)}

\* Mutant: the round deletes after a second what the thread of CRcvQueue may still have.
Removable_Listed == {s \in m_ClosedSockets : Expired(s)}

\* checkBrokenSockets(): which closed sockets it may remove
Removable == {s \in m_ClosedSockets : Expired(s) /\ s \notin onList}

\* checkBrokenSockets() up to the removals: it closes the sockets of C and finds that the
\* second of those of D is over.
GcRound(C, D) ==
    /\ gc.pc = "idle"
    /\ C \subseteq Closable /\ D \subseteq Removable /\ C \cup D # {}
    /\ m_Status' = [s \in Id |-> IF s \in C THEN "CLOSED" ELSE m_Status[s]]
    /\ m_TimeStamp' = Stamped(C)
    /\ m_Sockets' = m_Sockets \ C
    /\ m_ClosedSockets' = m_ClosedSockets \cup C
    /\ m_pQueuedSockets' = Unqueued(C)
    /\ gc' = IF D = {} THEN IdleGc ELSE [pc |-> "remove", tbr |-> D]
    /\ UNCHANGED <<objects, m_SocketID, peerOf, flags, mux, m_pListener, m_AcceptCond, lists,
                   handedOut, app, rcv>>

\* removeSocket(): the connections in a listener's queue are closed, the socket is deleted,
\* and the multiplexer with the last one that is bound to it.  What is said of the socket
\* that is gone is reset.
GcRemove ==
    LET s == Newest(gc.tbr)
        orphans == IF s = Listener THEN m_pQueuedSockets ELSE {}
        rest == gc.tbr \ {s}
    IN /\ gc.pc = "remove"
       /\ objects' = objects \ {s}
       /\ m_Sockets' = m_Sockets \ orphans
       /\ m_ClosedSockets' = (m_ClosedSockets \cup orphans) \ {s}
       /\ broken' = (broken \cup orphans) \ {s}
       /\ closing' = (closing \cup orphans) \ {s}
       /\ connected' = connected \ (orphans \cup {s})
       /\ m_TimeStamp' = Stamped(orphans)
       /\ m_Status' = [x \in Id |-> CASE x \in orphans -> "CLOSED"
                                      [] x = s -> "INIT"
                                      [] OTHER -> m_Status[x]]
       /\ peerOf' = [peerOf EXCEPT ![s] = None]
       /\ m_pListener' = IF s = Listener THEN None ELSE m_pListener
       /\ m_pQueuedSockets' = IF s = Listener THEN {} ELSE m_pQueuedSockets
       /\ handedOut' = handedOut \ {s}
       /\ muxed' = muxed \ {s}
       /\ m_iRefCount' = IF s \in muxed THEN m_iRefCount - 1 ELSE m_iRefCount
       /\ gc' = IF s \in muxed /\ m_iRefCount = 1 THEN [gc EXCEPT !.pc = "join", !.tbr = rest]
                ELSE IF rest = {} THEN IdleGc ELSE [gc EXCEPT !.tbr = rest]
       /\ UNCHANGED <<m_SocketID, m_AcceptCond, lists, app, rcv>>

\* removeSocket(), ~CRcvQueue(): it waits for the thread of CRcvQueue, with m_ControlLock.
GcJoin ==
    /\ gc.pc = "join" /\ rcv.pc = "idle"
    /\ m_iRefCount' = -1
    /\ gc' = IF gc.tbr = {} THEN IdleGc ELSE [gc EXCEPT !.pc = "remove"]
    /\ UNCHANGED <<maps, flags, muxed, accepting, lists, handedOut, app, rcv>>

GcRounds == \E C \in SUBSET Closable, D \in SUBSET Removable : GcRound(C, D)

GcMoves == GcRounds \/ GcRemove \/ GcJoin

-------------------------------------------------------------------------------
Next ==
    \/ \E t \in Threads : ApplicationCalls(t) \/ ApplicationMoves(t)
    \/ RcvLists \/ RcvMoves \/ RcvWork
    \/ GcMoves

Spec == Init /\ [][Next]_vars

\* Every thread goes on when it can, and the calls of the application end.  A mutex lets
\* each have his turn, and so does the list of CRcvUList, which is ordered by time.  The
\* rounds of the collection go on: seconds pass, and data that nobody reads are given up.
FairSpec ==
    /\ Spec
    /\ \A t \in Threads : SF_vars(ApplicationMoves(t))
    /\ WF_vars(RcvMoves)
    /\ SF_vars(RcvLists)
    /\ WF_vars(GcMoves)

-------------------------------------------------------------------------------
(* Properties *)

\* What a thread has found in a map or in a table is not deleted while the thread has a
\* pointer to it: neither in a call of the application, nor in what the thread of CRcvQueue
\* does.  The one pointer that it takes from elsewhere is that to the listener, which is good
\* from locate(listen) on.  What stands in the maps and the tables exists, and so does the
\* multiplexer, with its queues, for as long as a socket is bound to it.
NoUseOfDeleted ==
    /\ \A t \in Threads : Runs(t) /\ app[t].s # None => app[t].s \in objects
    /\ {rcv.ns, m_pListener} \ {None} \subseteq objects
    /\ rcv.ls # None /\ rcv.pc \notin {"listen", "fault"} => rcv.ls \in objects
    /\ m_vNewEntry \cup m_pHash \cup m_pRcvUList \cup m_Sockets \cup m_ClosedSockets
            \subseteq objects
    /\ gc.pc # "join" /\ objects \cap muxed # {} =>
            m_iRefCount = Cardinality(objects \cap muxed)

\* What waits to be accepted is in the map and connected: removeSocket() of the listener
\* takes it from m_Sockets without a test.
QueuedAreOpen == \A s \in m_pQueuedSockets : s \in m_Sockets /\ m_Status[s] = "CONNECTED"

\* No thread sleeps in accept() on a queue with a connection in it, or on a closed listener:
\* m_AcceptCond is set, or about to be.
AcceptWoken ==
    \A t \in Threads :
        app[t].pc = "wait" =>
            /\ m_pQueuedSockets # {} => m_AcceptCond \/ rcv.pc = "signal"
            /\ Listener \in broken => m_AcceptCond

\* The sockets of CUDTUnited that are closed, or that no call can use any more.  Those that
\* newConnection() has rolled back are none of them: nobody finds them again.
Dead == (m_Sockets \cup m_ClosedSockets) \cap (broken \cup closing \cup m_ClosedSockets)

\* CUDT::listen() is left in the midst of a request with a listener that is deleted: by an
\* access violation, or as it waits for m_ControlLock of the thread that waits for its own end.
LateForever == <>[](rcv.ls # None /\ rcv.ls \notin objects)

\* Whatever was going on, the collection gets rid of every socket that was closed or has
\* broken: again and again there comes a time when none of them is left, and m_ControlLock,
\* without which no call of the library can start, is free.  A request that comes too late is
\* the only thing that can prevent it.
AllRemoved == []<>(Dead = {} /\ ControlFree) \/ LateForever

-------------------------------------------------------------------------------
(* What a comment of the code says and the code does not keep *)

\* "a socket will not be immediated removed when it is closed in order to prevent other
\* methods from accessing invalid address": the listener that CUDT::listen() works with
\* exists.
ListenerKept == rcv.ls \in objects \cup {None}

===============================================================================
