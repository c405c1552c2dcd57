------------------------------ MODULE MCSockSrv -----------------------------
(* Instances of SockSrv for TLC: who asks on which connection, and how many *)
(* sends the replies take.                                                  *)
EXTENDS SockSrv, TLC

CONSTANTS s1, s2, p1, p2, p3

\* Two requests on s1, of which one has a long reply, and one on s2.
TwoSocks == (p1 :> s1) @@ (p2 :> s1) @@ (p3 :> s2)
LongFirst == [k \in Pack |-> IF k = p1 THEN 2 ELSE 1]

\* Every reply takes one send.
AllShort == [k \in Pack |-> 1]

\* Two requests on s1.
SameSock == (p1 :> s1) @@ (p2 :> s1)

\* The server with all connections accepted and all requests read: a state it
\* reaches, from which the replies can be followed with more packs than from Init.
AskedInit ==
  /\ m_sockmap = Sock /\ hTimeOut = Sock
  /\ bNeedClose = {} /\ bCheckPending = {} /\ bSendPending = {}
  /\ bClose = {} /\ bInSendWorkThread = {}
  /\ netSendBusy = {} /\ netRecvBusy = {}
  /\ Senddatapack = [s \in Sock |-> None] /\ dwSendRemain = [s \in Sock |-> 0]
  /\ m_pendingPackList = <<>> /\ m_lSend = 0 /\ m_phSendThread = {}
  /\ work = [w \in Worker |-> IdleWork] /\ check = IdleCheck
  /\ adoPc = [k \in Pack |-> "asked"]
  /\ sent = <<>> /\ dropped = {}
  /\ conn = [s \in Sock |-> "open"] /\ recvIO = [s \in Sock |-> "posted"]
  /\ sendPosted = [s \in Sock |-> 0]
  /\ sendDone = [s \in Sock |-> 0] /\ sendFailed = [s \in Sock |-> 0]
  /\ dangling = FALSE

AskedSpec == AskedInit /\ [][Next]_vars
=============================================================================
