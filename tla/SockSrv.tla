------------------------------ MODULE SockSrv -------------------------------
(***************************************************************************)
(* CIOCPSockSrv (DBProvider/IOCPSockSrv.cpp): the TCP server.  Completion  *)
(* threads accept connections, read requests and carry on with sends; one  *)
(* check thread starts the sends of the packs that wait in the pending     *)
(* list; database threads queue replies with SendAdo; a timer shuts        *)
(* silent connections.                                                     *)
(*                                                                         *)
(* A region under m_mutexSockmap or m_mutexCheck is one action.  The code  *)
(* also reads and writes the entry of a socket through an iterator outside *)
(* the mutex: each such access that others can tell apart is a step.       *)
(* A pack is a reply, named after the request it answers.                  *)
(***************************************************************************)
EXTENDS Integers, Sequences, FiniteSets

CONSTANTS
  Sock,          \* connections, each with a SOCKET value of its own
  Pack,          \* requests, and the replies to them
  Dest,          \* the connection of a request
  Chunks,        \* how many WSASends (MAX_BUFFER_SIZE each) a reply takes
  m_nSockThread, \* number of completion threads
  m_maxWsaSend,  \* limit on overlapped sends
  Faults,        \* what may go wrong in a run, see FaultKind
  None

FaultKind == {"fin", "reset", "timeout", "short", "post", "fatal"}

ASSUME SockAssumption ==
  /\ Dest \in [Pack -> Sock] /\ Chunks \in [Pack -> Nat \ {0}]
  /\ m_nSockThread \in Nat \ {0} /\ m_maxWsaSend \in Nat
  /\ m_maxWsaSend >= m_nSockThread
  /\ Faults \subseteq FaultKind
  /\ None \notin Sock \cup Pack

Worker == 1..m_nSockThread

VARIABLES
  m_sockmap,          \* the sockets that have an entry
  bNeedClose, bCheckPending, bSendPending, bClose, bInSendWorkThread,
                      \* the sockets whose entry has the flag set
  netSendBusy, netRecvBusy,  \* netSendstate, netRecvstate = NETBUSY
  Senddatapack, dwSendRemain,  \* per socket: the pack being sent, chunks left
  hTimeOut,           \* sockets whose timer is registered
  m_pendingPackList, m_lSend,
  m_phSendThread,     \* the indices of the signalled send events
  work,               \* per completion thread: where it is, its socket, how the send went
  check,              \* the check thread: where it is, its event, the place and the
                      \* pack it is at, how the send went
  adoPc,              \* per pack: how far its request and reply have got
  sent, dropped,      \* packs sent to the end, in order; given up (history)
  conn,               \* per socket: the connection, as the network has it
  recvIO, sendPosted, sendDone, sendFailed,  \* overlapped operations
  dangling            \* an entry has been used after its erase

flagVars == <<bNeedClose, bCheckPending, bSendPending, bClose, bInSendWorkThread>>
stateVars == <<netSendBusy, netRecvBusy>>
packVars == <<Senddatapack, dwSendRemain, sent, dropped>>
queueVars == <<m_pendingPackList, m_lSend, m_phSendThread>>
netVars == <<conn, recvIO, sendPosted, sendDone, sendFailed>>
vars == <<m_sockmap, flagVars, stateVars, packVars, hTimeOut, queueVars,
          work, check, adoPc, netVars, dangling>>

\* What a thread knows when it starts, and again each time round its loop.
IdleWork == [pc |-> "free", sock |-> None, out |-> "more"]
IdleCheck == [pc |-> "wait", event |-> 0, it |-> 1, pack |-> None, out |-> "skip"]

Init ==
  /\ m_sockmap = {} /\ hTimeOut = {}
  /\ bNeedClose = {} /\ bCheckPending = {} /\ bSendPending = {}
  /\ bClose = {} /\ bInSendWorkThread = {}
  /\ netSendBusy = {} /\ netRecvBusy = {}
  /\ Senddatapack = [s \in Sock |-> None] /\ dwSendRemain = [s \in Sock |-> 0]
  /\ m_pendingPackList = <<>> /\ m_lSend = 0 /\ m_phSendThread = {}
  /\ work = [w \in Worker |-> IdleWork] /\ check = IdleCheck
  /\ adoPc = [k \in Pack |-> "new"]
  /\ sent = <<>> /\ dropped = {}
  /\ conn = [s \in Sock |-> "none"] /\ recvIO = [s \in Sock |-> "none"]
  /\ sendPosted = [s \in Sock |-> 0]
  /\ sendDone = [s \in Sock |-> 0] /\ sendFailed = [s \in Sock |-> 0]
  /\ dangling = FALSE

\* An entry used outside the mutex may have been erased: from then on the
\* program's behaviour is undefined, and the model takes no further step.
Touch(s) == dangling' = (s \notin m_sockmap)

Goto(w, pc) == work' = [work EXCEPT ![w].pc = pc]
Enter(w, pc, s) == work' = [work EXCEPT ![w].pc = pc, ![w].sock = s]
Loop(w) == work' = [work EXCEPT ![w] = IdleWork]

\* Mutant: the event is forgotten.
Notify_Never(e) == m_phSendThread' = m_phSendThread

\* SetEvent for the check thread if packs wait.
Notify(e) ==
  m_phSendThread' = IF m_pendingPackList = <<>> THEN m_phSendThread
                    ELSE m_phSendThread \cup {e}

-----------------------------------------------------------------------------
(* ReleaseSock: erase the entry, unless some thread is marked as using it. *)

releaseVars == <<m_sockmap, Senddatapack, dropped, m_lSend, m_phSendThread>>

FreePack(s) == Senddatapack' = [Senddatapack EXCEPT ![s] = None]

\* Mutant: the check thread's mark is forgotten.
InUse_NoCheck(s) == s \in bInSendWorkThread \cup netRecvBusy

InUse(s) == s \in bInSendWorkThread \cup netRecvBusy \cup bCheckPending

ReleaseSock(s) ==
  LET notify == s \in bSendPending \cup netSendBusy IN
  IF s \notin m_sockmap
  THEN UNCHANGED <<bNeedClose, netSendBusy, releaseVars>>
  ELSE /\ bNeedClose' = bNeedClose \cup {s}
       /\ netSendBusy' = netSendBusy \ {s}
       /\ IF InUse(s)
          THEN UNCHANGED releaseVars
          ELSE /\ m_sockmap' = m_sockmap \ {s}
               /\ FreePack(s)
               /\ dropped' = dropped \cup ({Senddatapack[s]} \ {None})
               /\ IF notify THEN m_lSend' = m_lSend - 1 /\ Notify(0)
                            ELSE UNCHANGED <<m_lSend, m_phSendThread>>

\* What ReleaseSock never changes.
Unreleased ==
  UNCHANGED <<bCheckPending, bSendPending, bInSendWorkThread, netRecvBusy,
              dwSendRemain, sent, m_pendingPackList, adoPc, netVars>>

\* The timer goes with the entry.
Unregister == hTimeOut' = hTimeOut \cap m_sockmap'

\* Names the socket through its PER_HANDLE_DATA, which an erase frees.
WorkRelease(w) ==
  /\ work[w].pc = "release" /\ Touch(work[w].sock)
  /\ ReleaseSock(work[w].sock) /\ Unregister
  /\ Loop(w)
  /\ UNCHANGED <<bClose, check>>
  /\ Unreleased

-----------------------------------------------------------------------------
(* CompletionThread: accepting.                                            *)

Accept(w, s) ==
  /\ work[w].pc = "free" /\ conn[s] = "none"
  /\ conn' = [conn EXCEPT ![s] = "open"]
  /\ m_sockmap' = m_sockmap \cup {s}
  /\ hTimeOut' = hTimeOut \cup {s}
  /\ Enter(w, "accepted", s)
  /\ UNCHANGED <<flagVars, stateVars, packVars, queueVars, check,
                 adoPc, recvIO, sendPosted, sendDone, sendFailed, dangling>>

\* WSARecv on a connection: fails on one that is reset, or for want of memory.
CanPost(s) == conn[s] # "reset"
PostFails(s) == conn[s] = "reset" \/ "post" \in Faults

AcceptPost(w) ==
  LET s == work[w].sock IN
  /\ work[w].pc = "accepted"
  /\ \/ /\ CanPost(s)
        /\ recvIO' = [recvIO EXCEPT ![s] = "posted"]
        /\ Loop(w)
     \/ PostFails(s) /\ Goto(w, "release") /\ UNCHANGED recvIO
  /\ UNCHANGED <<m_sockmap, flagVars, stateVars, packVars, hTimeOut, queueVars,
                 check, adoPc, conn, sendPosted,
                 sendDone, sendFailed, dangling>>

-----------------------------------------------------------------------------
(* CompletionThread: taking a completion.                                  *)

TakeRecv(s, status) ==
  /\ recvIO[s] = status
  /\ recvIO' = [recvIO EXCEPT ![s] = "none"]
  /\ UNCHANGED <<conn, sendPosted, sendDone, sendFailed>>

TakeSend(s) ==
  /\ sendDone[s] > 0
  /\ sendDone' = [sendDone EXCEPT ![s] = @ - 1]
  /\ UNCHANGED <<conn, recvIO, sendPosted, sendFailed>>

TakeFailedSend(s) ==
  /\ sendFailed[s] > 0
  /\ sendFailed' = [sendFailed EXCEPT ![s] = @ - 1]
  /\ UNCHANGED <<conn, recvIO, sendPosted, sendDone>>

\* The wait itself fails: the socket is released, but an error code the code
\* does not list ends the thread.
DequeueFailed(w, s) ==
  /\ work[w].pc = "free" /\ Touch(s)
  /\ TakeRecv(s, "failed") \/ TakeFailedSend(s)
  /\ \/ Enter(w, "release", s)
     \/ "fatal" \in Faults /\ Goto(w, "dead")
  /\ UNCHANGED <<m_sockmap, flagVars, stateVars, packVars, hTimeOut, queueVars,
                 check, adoPc>>

\* Not in the sock map, hence ignored; but the completion key and the overlapped
\* structure that are read to find this out were freed with the entry.
Ignore(w, s) ==
  /\ work[w].pc = "free" /\ s \notin m_sockmap /\ Touch(s)
  /\ TakeRecv(s, "done") \/ TakeSend(s)
  /\ UNCHANGED <<m_sockmap, flagVars, stateVars, packVars, hTimeOut, queueVars,
                 work, check, adoPc>>

\* A read completion carries no bytes, so a closing socket is released by it.
DequeueRecv(w, s) ==
  /\ work[w].pc = "free" /\ s \in m_sockmap
  /\ TakeRecv(s, "done")
  /\ IF s \in bClose \cup bNeedClose
     THEN /\ bSendPending' = bSendPending \ {s}
          /\ Enter(w, "release", s) /\ UNCHANGED netRecvBusy
     ELSE /\ netRecvBusy' = netRecvBusy \cup {s}
          /\ Enter(w, "recv", s) /\ UNCHANGED bSendPending
  /\ UNCHANGED <<m_sockmap, bNeedClose, bCheckPending, bClose, bInSendWorkThread,
                 netSendBusy, packVars, hTimeOut, queueVars, check, adoPc, dangling>>

DequeueSend(w, s) ==
  /\ work[w].pc = "free" /\ s \in m_sockmap
  /\ TakeSend(s)
  /\ bSendPending' = bSendPending \ {s}
  /\ bInSendWorkThread' = bInSendWorkThread \cup {s}
  /\ Enter(w, "sent", s)
  /\ UNCHANGED <<m_sockmap, bNeedClose, bCheckPending, bClose, stateVars, packVars,
                 hTimeOut, queueVars, check, adoPc, dangling>>

-----------------------------------------------------------------------------
(* CompletionThread: reading.  The loop reads until the socket has no more *)
(* data, hands every request on, and then posts the next empty read.       *)

Inbox(s) == {k \in Pack : adoPc[k] = "arrived" /\ Dest[k] = s}

Receive(w) ==
  LET s == work[w].sock IN
  /\ work[w].pc = "recv" /\ Touch(s)
  /\ \/ \E k \in Inbox(s) :
          /\ conn[s] # "reset" /\ adoPc' = [adoPc EXCEPT ![k] = "asked"]
          /\ UNCHANGED <<work, netRecvBusy, dropped>>
     \* A header split over two reads: the handler gives up where it stands.
     \/ /\ "short" \in Faults /\ conn[s] # "reset"
        /\ \E k \in Inbox(s) : /\ adoPc' = [adoPc EXCEPT ![k] = "given"]
                               /\ dropped' = dropped \cup {k}
        /\ Loop(w) /\ UNCHANGED netRecvBusy
     \/ /\ Inbox(s) = {} /\ conn[s] = "open"
        /\ Goto(w, "repost") /\ UNCHANGED <<adoPc, netRecvBusy, dropped>>
     \* The peer has closed or reset: no bytes.
     \/ /\ conn[s] = "reset" \/ (conn[s] = "fin" /\ Inbox(s) = {})
        /\ netRecvBusy' = netRecvBusy \ {s}
        /\ Goto(w, "drop") /\ UNCHANGED <<adoPc, dropped>>
  /\ UNCHANGED <<m_sockmap, flagVars, netSendBusy, Senddatapack, dwSendRemain,
                 sent, hTimeOut, queueVars,
                 check, netVars>>

\* Reads bNeedClose of the entry it has just marked idle.
Drop(w) ==
  /\ work[w].pc = "drop" /\ Touch(work[w].sock)
  /\ Goto(w, "release")
  /\ UNCHANGED <<m_sockmap, flagVars, stateVars, packVars, hTimeOut, queueVars,
                 check, adoPc, netVars>>

Repost(w) ==
  LET s == work[w].sock IN
  /\ work[w].pc = "repost"
  /\ \/ /\ CanPost(s)
        /\ recvIO' = [recvIO EXCEPT ![s] = "posted"]
        /\ Goto(w, "reposted")
     \/ PostFails(s) /\ Goto(w, "failed") /\ UNCHANGED recvIO
  /\ UNCHANGED <<m_sockmap, flagVars, stateVars, packVars, hTimeOut, queueVars,
                 check, adoPc, conn, sendPosted,
                 sendDone, sendFailed, dangling>>

\* Mutant: the reading loop takes in the posting of the next read.
RecvIdle_ReadsOn(w) ==
  LET s == work[w].sock IN
  /\ work[w].pc \in {"reposted", "failed"} /\ Touch(s)
  /\ netRecvBusy' = netRecvBusy \ {s}
  /\ IF work[w].pc = "reposted" THEN Goto(w, "recv") ELSE Goto(w, "close")
  /\ UNCHANGED <<m_sockmap, flagVars, netSendBusy, packVars, hTimeOut, queueVars,
                 check, adoPc, netVars>>

\* Only now, with the read posted or refused, the receive state is idle.
RecvIdle(w) ==
  LET s == work[w].sock IN
  /\ work[w].pc \in {"reposted", "failed"} /\ Touch(s)
  /\ netRecvBusy' = netRecvBusy \ {s}
  /\ IF work[w].pc = "reposted" THEN Loop(w) ELSE Goto(w, "close")
  /\ UNCHANGED <<m_sockmap, flagVars, netSendBusy, packVars, hTimeOut, queueVars,
                 check, adoPc, netVars>>

CloseAfterFailure(w) ==
  LET s == work[w].sock IN
  /\ work[w].pc = "close" /\ Touch(s)
  /\ IF s \in bNeedClose
     THEN Goto(w, "release") /\ UNCHANGED bClose
     ELSE Loop(w) /\ bClose' = bClose \cup {s}
  /\ UNCHANGED <<m_sockmap, bNeedClose, bCheckPending, bSendPending,
                 bInSendWorkThread, stateVars, packVars, hTimeOut, queueVars,
                 check, adoPc, netVars>>

-----------------------------------------------------------------------------
(* CompletionThread: after a send.                                         *)

\* WSASend fails after shutdown or a reset, and cannot be told to otherwise.
SendFails(s) == conn[s] = "reset" \/ s \in bClose

PostSend(s) ==
  /\ ~SendFails(s)
  /\ sendPosted' = [sendPosted EXCEPT ![s] = @ + 1]
  /\ UNCHANGED <<conn, recvIO, sendDone, sendFailed>>

Sent(w) ==
  LET s == work[w].sock IN
  /\ work[w].pc = "sent" /\ Touch(s)
  /\ \/ /\ dwSendRemain[s] > 1
        /\ dwSendRemain' = [dwSendRemain EXCEPT ![s] = @ - 1]
        /\ \/ /\ PostSend(s)
              /\ \E pc \in {"pended", "unmark"} : Goto(w, pc)
              /\ UNCHANGED <<Senddatapack, dropped>>
           \/ /\ SendFails(s) /\ FreePack(s)
              /\ dropped' = dropped \cup ({Senddatapack[s]} \ {None})
              /\ work' = [work EXCEPT ![w].pc = "unmark", ![w].out = "error"]
              /\ UNCHANGED netVars
        /\ UNCHANGED <<netSendBusy, sent>>
     \/ /\ dwSendRemain[s] <= 1
        /\ dwSendRemain' = [dwSendRemain EXCEPT ![s] = 0]
        /\ sent' = IF Senddatapack[s] = None THEN sent ELSE Append(sent, Senddatapack[s])
        /\ FreePack(s)
        /\ netSendBusy' = netSendBusy \ {s}
        /\ work' = [work EXCEPT ![w].pc = "unmark", ![w].out = "done"]
        /\ UNCHANGED <<dropped, netVars>>
  /\ UNCHANGED <<m_sockmap, flagVars, netRecvBusy, hTimeOut, queueVars,
                 check, adoPc>>

\* WSASend answered "pending"; its completion may have been taken meanwhile.
MarkPending(w) ==
  LET s == work[w].sock IN
  /\ work[w].pc = "pended" /\ Touch(s)
  /\ bSendPending' = bSendPending \cup {s}
  /\ Goto(w, "unmark")
  /\ UNCHANGED <<m_sockmap, bNeedClose, bCheckPending, bClose, bInSendWorkThread,
                 stateVars, packVars, hTimeOut, queueVars, check, adoPc, netVars>>

Unmark(w) ==
  LET s == work[w].sock IN
  /\ work[w].pc = "unmark" /\ Touch(s)
  /\ bInSendWorkThread' = bInSendWorkThread \ {s}
  /\ Goto(w, "decide")
  /\ UNCHANGED <<m_sockmap, bNeedClose, bCheckPending, bSendPending, bClose,
                 stateVars, packVars, hTimeOut, queueVars, check, adoPc, netVars>>

\* Mutant: counts down after every send, not after the last.
Decide_EachSend(w) ==
  LET s == work[w].sock IN
  /\ work[w].pc = "decide" /\ Touch(s)
  /\ Goto(w, IF s \in bNeedClose \/ work[w].out = "error" THEN "release" ELSE "credit")
  /\ UNCHANGED <<m_sockmap, flagVars, stateVars, packVars, hTimeOut, queueVars,
                 check, adoPc, netVars>>

\* Mutant: the deferred release is forgotten.
Decide_NoClose(w) ==
  LET s == work[w].sock IN
  /\ work[w].pc = "decide" /\ Touch(s)
  /\ IF work[w].out = "error" THEN Goto(w, "release")
     ELSE IF work[w].out = "done" THEN Goto(w, "credit") ELSE Loop(w)
  /\ UNCHANGED <<m_sockmap, flagVars, stateVars, packVars, hTimeOut, queueVars,
                 check, adoPc, netVars>>

Decide(w) ==
  LET s == work[w].sock IN
  /\ work[w].pc = "decide" /\ Touch(s)
  /\ IF s \in bNeedClose \/ work[w].out = "error" THEN Goto(w, "release")
     ELSE IF work[w].out = "done" THEN Goto(w, "credit") ELSE Loop(w)
  /\ UNCHANGED <<m_sockmap, flagVars, stateVars, packVars, hTimeOut, queueVars,
                 check, adoPc, netVars>>

Credit(w) ==
  /\ work[w].pc = "credit"
  /\ m_lSend' = m_lSend - 1
  /\ Notify(w)
  /\ Loop(w)
  /\ UNCHANGED <<m_sockmap, flagVars, stateVars, packVars, hTimeOut,
                 m_pendingPackList, check, adoPc,
                 netVars, dangling>>

-----------------------------------------------------------------------------
(* CheckPendingThread and CheckPendingList.                                *)

CheckGoto(pc) == check' = [check EXCEPT !.pc = pc]
CheckEnds == check' = IdleCheck

\* The wait returns the lowest signalled index and resets that event.
WakeCheck ==
  /\ check.pc = "wait"
  /\ \E e \in m_phSendThread :
       /\ \A f \in m_phSendThread : e <= f
       /\ check' = [check EXCEPT !.pc = "reset", !.event = e]
       /\ m_phSendThread' = m_phSendThread \ {e}
  /\ UNCHANGED <<m_sockmap, flagVars, stateVars, packVars, hTimeOut,
                 m_pendingPackList, m_lSend, work,
                 adoPc, netVars, dangling>>

\* ResetEvent once more, then, for event 0 only, the limit.
BeginCheck ==
  /\ check.pc = "reset"
  /\ m_phSendThread' = m_phSendThread \ {check.event}
  /\ IF check.event = 0 /\ m_lSend >= m_maxWsaSend THEN CheckEnds ELSE CheckGoto("scan")
  /\ UNCHANGED <<m_sockmap, flagVars, stateVars, packVars, hTimeOut,
                 m_pendingPackList, m_lSend, work, adoPc, netVars, dangling>>

\* Mutants: the head is taken off instead; nothing is.
EraseItem_Head == m_pendingPackList' = Tail(m_pendingPackList)
EraseItem_None == m_pendingPackList' = m_pendingPackList

EraseItem ==
  m_pendingPackList' = SubSeq(m_pendingPackList, 1, check.it - 1)
                       \o SubSeq(m_pendingPackList, check.it + 1, Len(m_pendingPackList))

Scan ==
  LET pk == m_pendingPackList[check.it]
      s == Dest[pk] IN
  /\ check.pc = "scan" /\ check.it <= Len(m_pendingPackList)
  /\ \/ /\ s \notin m_sockmap
        /\ EraseItem /\ dropped' = dropped \cup {pk}
        /\ UNCHANGED <<check, bCheckPending>>
     \/ /\ s \in m_sockmap
        /\ bCheckPending' = bCheckPending \cup {s}
        /\ check' = [check EXCEPT !.pc = IF s \in netSendBusy THEN "clear" ELSE "mark",
                                 !.pack = pk, !.out = "skip"]
        /\ UNCHANGED <<m_pendingPackList, dropped>>
  /\ UNCHANGED <<m_sockmap, bNeedClose, bSendPending, bClose, bInSendWorkThread,
                 stateVars, Senddatapack, dwSendRemain, sent, hTimeOut, m_lSend,
                 m_phSendThread, work, adoPc, netVars, dangling>>

ScanEnds ==
  /\ check.pc = "scan" /\ check.it > Len(m_pendingPackList)
  /\ CheckEnds
  /\ UNCHANGED <<m_sockmap, flagVars, stateVars, packVars, hTimeOut, queueVars,
                 work, adoPc, netVars, dangling>>

ItemSock == Dest[check.pack]

MarkBusy ==
  /\ check.pc = "mark" /\ Touch(ItemSock)
  /\ netSendBusy' = netSendBusy \cup {ItemSock}
  /\ CheckGoto("send")
  /\ UNCHANGED <<m_sockmap, flagVars, netRecvBusy, packVars, hTimeOut, queueVars,
                 work, adoPc, netVars>>

\* Under m_mutexSockmap.  A WSASend that fails shuts the socket down, and the
\* pack is given up.
SendPack ==
  LET s == ItemSock IN
  /\ check.pc = "send" /\ Touch(s)
  /\ dwSendRemain' = [dwSendRemain EXCEPT ![s] = Chunks[check.pack]]
  /\ \/ /\ PostSend(s)
        /\ Senddatapack' = [Senddatapack EXCEPT ![s] = check.pack]
        /\ m_lSend' = m_lSend + 1
        /\ \/ bSendPending' = bSendPending \cup {s}
           \/ bSendPending' = bSendPending \ {s}
        /\ check' = [check EXCEPT !.pc = "erase", !.out = "ok"]
        /\ UNCHANGED <<bClose, dropped>>
     \/ /\ SendFails(s) /\ FreePack(s)
        /\ bSendPending' = bSendPending \ {s}
        /\ bClose' = bClose \cup {s}
        /\ dropped' = dropped \cup {check.pack}
        /\ check' = [check EXCEPT !.pc = "erase", !.out = "fail"]
        /\ UNCHANGED <<m_lSend, netVars>>
  /\ UNCHANGED <<m_sockmap, bNeedClose, bCheckPending, bInSendWorkThread, stateVars,
                 sent, hTimeOut, m_pendingPackList, m_phSendThread, work, adoPc>>

EraseSent ==
  /\ check.pc = "erase"
  /\ EraseItem
  /\ CheckGoto("clear")
  /\ UNCHANGED <<m_sockmap, flagVars, stateVars, packVars, hTimeOut, m_lSend,
                 m_phSendThread, work,
                 adoPc, netVars, dangling>>

\* Mutant: the send state is idle again whether or not the send was posted.
ClearMark_AlwaysIdle ==
  LET s == ItemSock IN
  /\ check.pc = "clear" /\ Touch(s)
  /\ bCheckPending' = bCheckPending \ {s}
  /\ netSendBusy' = netSendBusy \ {s}
  /\ CheckGoto("look")
  /\ UNCHANGED <<m_sockmap, bNeedClose, bSendPending, bClose, bInSendWorkThread,
                 netRecvBusy, packVars, hTimeOut, queueVars, work, adoPc, netVars>>

ClearMark ==
  LET s == ItemSock IN
  /\ check.pc = "clear" /\ Touch(s)
  /\ bCheckPending' = bCheckPending \ {s}
  /\ netSendBusy' = IF check.out = "fail" THEN netSendBusy \ {s} ELSE netSendBusy
  /\ CheckGoto("look")
  /\ UNCHANGED <<m_sockmap, bNeedClose, bSendPending, bClose, bInSendWorkThread,
                 netRecvBusy, packVars, hTimeOut, queueVars, work, adoPc, netVars>>

\* Mutant: the scan goes back instead of on.
NextItem_Back ==
  CASE check.out = "ok" -> CheckEnds
    [] check.out = "fail" -> CheckGoto("scan")
    [] check.out = "skip" -> check' = [check EXCEPT !.pc = "scan", !.it = @ - 1]

\* A pack that was sent ends the call; after any other the scan goes on.
NextItem ==
  CASE check.out = "ok" -> CheckEnds
    [] check.out = "fail" -> CheckGoto("scan")
    [] check.out = "skip" -> check' = [check EXCEPT !.pc = "scan", !.it = @ + 1]

LookNeedClose ==
  /\ check.pc = "look" /\ Touch(ItemSock)
  /\ IF ItemSock \in bNeedClose THEN CheckGoto("release") ELSE NextItem
  /\ UNCHANGED <<m_sockmap, flagVars, stateVars, packVars, hTimeOut, queueVars,
                 work, adoPc, netVars>>

CheckRelease ==
  /\ check.pc = "release"
  /\ ReleaseSock(ItemSock) /\ Unregister
  /\ NextItem
  /\ UNCHANGED <<bClose, work, dangling>>
  /\ Unreleased

-----------------------------------------------------------------------------
(* RequestProc, in a database thread, and SendAdo, called with its reply.   *)

AdoGoto(k, pc) == adoPc' = [adoPc EXCEPT ![k] = pc]

\* RequestProc returns without a reply: the database does not connect, the request
\* is neither an execute nor an update, or it is old and its connection is gone.
NoReply(k) ==
  /\ adoPc[k] = "asked" /\ AdoGoto(k, "refused")
  /\ UNCHANGED <<m_sockmap, flagVars, stateVars, packVars, hTimeOut, queueVars,
                 work, check, netVars, dangling>>

AdoFind(k) ==
  /\ adoPc[k] = "asked"
  /\ \/ Dest[k] \in m_sockmap /\ AdoGoto(k, "found") /\ UNCHANGED dropped
     \/ /\ Dest[k] \notin m_sockmap
        /\ AdoGoto(k, "given") /\ dropped' = dropped \cup {k}
  /\ UNCHANGED <<m_sockmap, flagVars, stateVars, Senddatapack, dwSendRemain, sent,
                 hTimeOut, queueVars, work, check, netVars, dangling>>

AdoPush(k) ==
  /\ adoPc[k] = "found" /\ AdoGoto(k, "pushed")
  /\ m_pendingPackList' = Append(m_pendingPackList, k)
  /\ UNCHANGED <<m_sockmap, flagVars, stateVars, packVars, hTimeOut, m_lSend,
                 m_phSendThread, work, check, netVars, dangling>>

\* Mutant: signals only for the first pack of the list.
AdoSignal_OnlyFirst(k) ==
  /\ adoPc[k] = "pushed" /\ AdoGoto(k, "given")
  /\ m_phSendThread' = IF Len(m_pendingPackList) = 1 THEN m_phSendThread \cup {0}
                       ELSE m_phSendThread
  /\ UNCHANGED <<m_sockmap, flagVars, stateVars, packVars, hTimeOut, m_lSend,
                 m_pendingPackList, work, check, netVars, dangling>>

AdoSignal(k) ==
  /\ adoPc[k] = "pushed" /\ AdoGoto(k, "given")
  /\ m_phSendThread' = m_phSendThread \cup {0}
  /\ UNCHANGED <<m_sockmap, flagVars, stateVars, packVars, hTimeOut, m_lSend,
                 m_pendingPackList, work, check, netVars, dangling>>

\* TimeOutCallback, under m_mutexSockmap: no request for nMaxTimeOut.  A callback
\* that comes after the erase finds no entry and does nothing.
TimeOut(s) ==
  /\ "timeout" \in Faults /\ s \in hTimeOut
  /\ hTimeOut' = hTimeOut \ {s}
  /\ \/ /\ s \notin bNeedClose /\ bClose' = bClose \cup {s}
        /\ UNCHANGED <<bNeedClose, netSendBusy, releaseVars>>
     \/ s \in bNeedClose /\ ReleaseSock(s) /\ UNCHANGED bClose
  /\ UNCHANGED <<work, check, dangling>>
  /\ Unreleased

-----------------------------------------------------------------------------
(* The network and the kernel.                                             *)

Outside == UNCHANGED <<m_sockmap, flagVars, stateVars, packVars, hTimeOut, queueVars,
                       work, check, dangling>>

Arrive(k) ==
  /\ adoPc[k] = "new" /\ conn[Dest[k]] = "open" /\ AdoGoto(k, "arrived")
  /\ UNCHANGED netVars /\ Outside

PeerGone(s) ==
  /\ \/ "fin" \in Faults /\ conn[s] = "open" /\ conn' = [conn EXCEPT ![s] = "fin"]
     \/ /\ "reset" \in Faults /\ conn[s] \in {"open", "fin"}
        /\ conn' = [conn EXCEPT ![s] = "reset"]
  /\ UNCHANGED <<adoPc, recvIO, sendPosted, sendDone, sendFailed>> /\ Outside

\* An empty read completes when there is something to read, or the end.
RecvCompletes(s) ==
  /\ recvIO[s] = "posted"
  /\ \/ /\ conn[s] = "fin" \/ (conn[s] = "open" /\ Inbox(s) # {})
        /\ recvIO' = [recvIO EXCEPT ![s] = "done"]
     \/ conn[s] = "reset" /\ recvIO' = [recvIO EXCEPT ![s] = "failed"]
  /\ UNCHANGED <<adoPc, conn, sendPosted, sendDone, sendFailed>> /\ Outside

SendCompletes(s) ==
  /\ sendPosted[s] > 0
  /\ sendPosted' = [sendPosted EXCEPT ![s] = @ - 1]
  /\ IF conn[s] = "reset"
     THEN sendFailed' = [sendFailed EXCEPT ![s] = @ + 1] /\ UNCHANGED sendDone
     ELSE sendDone' = [sendDone EXCEPT ![s] = @ + 1] /\ UNCHANGED sendFailed
  /\ UNCHANGED <<adoPc, conn, recvIO>> /\ Outside

-----------------------------------------------------------------------------
WorkStep(w) ==
  \/ WorkRelease(w) \/ AcceptPost(w) \/ Receive(w) \/ Drop(w) \/ Repost(w)
  \/ RecvIdle(w) \/ CloseAfterFailure(w) \/ Sent(w) \/ MarkPending(w)
  \/ Unmark(w) \/ Decide(w) \/ Credit(w)
  \/ \E s \in Sock : \/ DequeueFailed(w, s) \/ Ignore(w, s) \/ DequeueRecv(w, s)
                     \/ DequeueSend(w, s)

CheckStep ==
  \/ WakeCheck \/ BeginCheck \/ Scan \/ ScanEnds \/ MarkBusy \/ SendPack
  \/ EraseSent \/ ClearMark \/ LookNeedClose \/ CheckRelease

AdoStep(k) == NoReply(k) \/ AdoFind(k) \/ AdoPush(k) \/ AdoSignal(k)

IoStep(s) == RecvCompletes(s) \/ SendCompletes(s)

\* No thread has anything to do, and the kernel has no operation to complete.
Quiet ==
  /\ \A k \in Pack : adoPc[k] \in {"new", "arrived", "refused", "given"}
  /\ \A w \in Worker : work[w].pc \in {"free", "dead"}
  /\ check.pc = "wait" /\ m_phSendThread = {}
  /\ \A s \in Sock : /\ sendPosted[s] = 0
                     /\ recvIO[s] = "posted" => conn[s] = "open" /\ Inbox(s) = {}
  /\ \/ \A w \in Worker : work[w].pc = "dead"
     \/ \A s \in Sock : /\ sendDone[s] = 0 /\ sendFailed[s] = 0
                         /\ recvIO[s] \in {"none", "posted"}

\* The server waits for its clients, or its behaviour has become undefined.
Quiescent == (Quiet \/ dangling) /\ UNCHANGED vars

Next ==
  \/ /\ ~dangling
     /\ \/ \E w \in Worker : WorkStep(w) \/ \E s \in Sock : Accept(w, s)
        \/ CheckStep
        \/ \E k \in Pack : AdoStep(k) \/ Arrive(k)
        \/ \E s \in Sock : IoStep(s) \/ TimeOut(s) \/ PeerGone(s)
  \/ Quiescent

Spec == Init /\ [][Next]_vars

SystemStep ==
  \/ \E w \in Worker : WorkStep(w)
  \/ CheckStep
  \/ \E k \in Pack : AdoStep(k)
  \/ \E s \in Sock : IoStep(s)

\* While some thread can run or the kernel has an operation to complete, one of
\* them goes on.  No thread or operation is favoured.
Fairness == WF_vars(~dangling /\ SystemStep)

FairSpec == Spec /\ Fairness

-----------------------------------------------------------------------------
(* Properties.                                                             *)

WorkPc == {"free", "dead", "accepted", "recv", "repost", "reposted", "failed", "drop",
           "close", "sent", "pended", "unmark", "decide", "credit", "release"}
CheckPc == {"wait", "reset", "scan", "mark", "send", "erase", "clear", "look", "release"}

TypeOK ==
  /\ m_sockmap \subseteq Sock /\ hTimeOut \subseteq Sock
  /\ bNeedClose \subseteq Sock /\ bCheckPending \subseteq Sock
  /\ bSendPending \subseteq Sock /\ bClose \subseteq Sock
  /\ bInSendWorkThread \subseteq Sock
  /\ netSendBusy \subseteq Sock /\ netRecvBusy \subseteq Sock
  /\ Senddatapack \in [Sock -> Pack \cup {None}]
  /\ dwSendRemain \in [Sock -> Nat]
  /\ m_pendingPackList \in Seq(Pack) /\ m_lSend \in Int
  /\ m_phSendThread \subseteq {0} \cup Worker
  /\ work \in [Worker -> [pc : WorkPc, sock : Sock \cup {None}, out : {"more", "done", "error"}]]
  /\ check \in [pc : CheckPc, event : {0} \cup Worker, it : Nat \ {0},
                pack : Pack \cup {None}, out : {"ok", "fail", "skip"}]
  /\ adoPc \in [Pack -> {"new", "arrived", "asked", "refused", "found", "pushed", "given"}]
  /\ sent \in Seq(Pack) /\ dropped \subseteq Pack
  /\ conn \in [Sock -> {"none", "open", "fin", "reset"}]
  /\ recvIO \in [Sock -> {"none", "posted", "done", "failed"}]
  /\ sendPosted \in [Sock -> Nat]
  /\ sendDone \in [Sock -> Nat] /\ sendFailed \in [Sock -> Nat]
  /\ dangling \in BOOLEAN

Packs(q) == {q[i] : i \in 1..Len(q)}

Reading(w, s) == work[w].pc \in {"recv", "repost"} /\ work[w].sock = s

\* A connection's requests are put together by one completion thread at a
\* time: nobody else reads it, and no read is outstanding, while one does.
ExclusiveReassembly ==
  \A s \in Sock :
    /\ \A v, w \in Worker : Reading(v, s) /\ Reading(w, s) => v = w
    /\ (\E w \in Worker : Reading(w, s)) => recvIO[s] = "none"

\* Between setting bCheckPending and clearing it, the check thread uses the
\* entry without the mutex: nobody may erase it.
CheckEntryHeld ==
  check.pc \in {"mark", "send", "erase", "clear"} => ItemSock \in m_sockmap

\* m_lSend counts the packs being sent: those in a send buffer, and those sent
\* whose completion thread has not yet counted down.
SendCountExact ==
  m_lSend = Cardinality({s \in Sock : Senddatapack[s] # None})
            + Cardinality({w \in Worker : /\ work[w].out = "done"
                                          /\ work[w].pc \in {"unmark", "decide", "credit"}})

\* IOCPSockSrv.cpp:1136: a connection that is sending is not sent to at the same
\* time.  A second WSASend would use the OVERLAPPED and buffer of the first.
OneSend ==
  \A s \in Sock :
    sendPosted[s] + sendDone[s] + sendFailed[s]
      + Cardinality({w \in Worker : work[w].pc = "sent" /\ work[w].sock = s}) <= 1

\* How many places a reply is in: the pending list (unless it is just being
\* taken off), a send buffer, sent, given up.
ReplyPlaces(k) ==
  Cardinality({i \in 1..Len(m_pendingPackList) :
                 m_pendingPackList[i] = k /\ ~(check.pc = "erase" /\ i = check.it)})
  + Cardinality({s \in Sock : Senddatapack[s] = k})
  + Cardinality({i \in 1..Len(sent) : sent[i] = k})
  + Cardinality({k} \cap dropped)

\* A reply that SendAdo has queued is in one place: neither leaked nor sent twice.
ReplyConserved ==
  \A k \in Pack : adoPc[k] \in {"pushed", "given"} => ReplyPlaces(k) = 1

\* Whatever happens to the connections, no reply is sent twice, nor sent after
\* it was given up.
SentOnce ==
  /\ \A i, j \in 1..Len(sent) : sent[i] = sent[j] => i = j
  /\ Packs(sent) \cap dropped = {}

\* Every request that arrives is answered, unless RequestProc has made no reply to
\* it, its connection goes down, or an entry is used after its erase.
RequestAnswered ==
  \A k \in Pack :
    adoPc[k] # "new" ~> \/ k \in Packs(sent) \/ adoPc[k] = "refused"
                         \/ conn[Dest[k]] # "open" \/ dangling

\* IOCPSockSrv.cpp:927: the end of one send lets the next pack go out.  While no
\* connection has gone down, the server does not rest before every reply that
\* SendAdo has queued is sent.
NoneForgotten ==
  Quiet /\ ~dangling /\ (\A s \in Sock : conn[s] \in {"none", "open"}) =>
    \A k \in Pack : adoPc[k] = "given" => k \in Packs(sent)

\* IOCPSockSrv.cpp:384: the release of an entry in use is put off, not dropped.
\* The server does not rest while a connection its peer has left has an entry.
EntryReleased ==
  Quiet /\ ~dangling =>
    \A s \in Sock : conn[s] \in {"fin", "reset"} => s \notin m_sockmap

-----------------------------------------------------------------------------
(* What comments of the code say and the code does not keep.               *)

\* IOCPSockSrv.cpp:923: a send that has ended or failed lets the next pack go out.
\* So a connection that stays up has all its replies when the server rests,
\* whatever becomes of the others.
OthersServed ==
  Quiet /\ ~dangling =>
    \A k \in Pack : adoPc[k] = "given" /\ conn[Dest[k]] = "open" => k \in Packs(sent)

\* IOCPSockSrv.cpp:384: an entry is not released while a thread works with it.
NeverDangling == ~dangling
=============================================================================
