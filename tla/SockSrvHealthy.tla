--------------------------- MODULE SockSrvHealthy ---------------------------
(***************************************************************************)
(* Machine-checked proofs about SockSrv while no connection fails: no      *)
(* client leaves, no connection is reset or timed out, and WSARecv does    *)
(* not fail for want of memory.  For any number of connections, packs and  *)
(* completion threads, with replies of any length and any limit on sends.  *)
(*                                                                         *)
(* A connection is then sent to by one thread at a time (Sends), m_lSend   *)
(* counts these sends (Counted), a queued reply is never lost (Somewhere), *)
(* and while replies wait, some event, send or thread brings the check     *)
(* thread back to them (Token).                                            *)
(*                                                                         *)
(* The last part lets the clients close: an entry that is still there then *)
(* has somebody who will release it (Followed).                            *)
(***************************************************************************)
EXTENDS SockSrvProofs

NoFailure == Faults \cap {"fin", "reset", "timeout", "post"} = {}

-----------------------------------------------------------------------------
(* The invariant.                                                          *)

\* Nothing is closed or released, and no thread is on a way that leads there.
Calm ==
  /\ dangling = FALSE /\ bNeedClose = {} /\ bClose = {}
  /\ \A w \in Worker : work[w].pc \notin {"drop", "failed", "close", "release", "dead"}
  /\ check.pc # "release" /\ check.out # "fail"
  /\ \A s \in Sock : /\ conn[s] \in {"none", "open"}
                     /\ recvIO[s] # "failed" /\ sendFailed[s] = 0

\* Every connection anybody has to do with has its entry.
Known ==
  /\ \A s \in Sock : s \in m_sockmap <=> conn[s] = "open"
  /\ \A w \in Worker : work[w].pc # "free" => work[w].sock \in m_sockmap
  /\ \A s \in Sock : recvIO[s] # "none" \/ sendPosted[s] > 0 \/ sendDone[s] > 0
                       => s \in m_sockmap
  /\ check.pc \in {"mark", "send", "erase", "clear", "look"} => ItemSock \in m_sockmap
  /\ \A k \in Pack : adoPc[k] # "new" => Dest[k] \in m_sockmap

\* How the send went is known only at its end.
Outs ==
  \A w \in Worker : /\ work[w].pc \notin {"unmark", "decide", "credit"} => work[w].out = "more"
                    /\ work[w].out # "error"
                    /\ work[w].pc = "credit" => work[w].out = "done"

AtSent(w, s) == work[w].pc = "sent" /\ work[w].sock = s

\* A connection with a pack in its buffer has one send outstanding, or one thread
\* that carries it on, and is NETBUSY; and nobody else is.
Sends ==
  /\ \A s \in Sock : sendPosted[s] + sendDone[s] <= 1
  /\ \A s \in Sock : \A w \in Worker : AtSent(w, s) => sendPosted[s] + sendDone[s] = 0
  /\ \A s \in Sock : \A v, w \in Worker : AtSent(v, s) /\ AtSent(w, s) => v = w
  /\ \A s \in Sock : sendPosted[s] + sendDone[s] > 0 => Senddatapack[s] # None
  /\ \A s \in Sock : \A w \in Worker : AtSent(w, s) => Senddatapack[s] # None
  /\ \A s \in Sock : Senddatapack[s] # None =>
       sendPosted[s] + sendDone[s] > 0 \/ \E w \in Worker : AtSent(w, s)
  /\ \A s \in Sock : Senddatapack[s] # None => s \in netSendBusy
  /\ \A s \in netSendBusy : Senddatapack[s] # None \/ (check.pc = "send" /\ ItemSock = s)
  /\ check.pc = "mark" => ItemSock \notin netSendBusy
  /\ check.pc = "send" => ItemSock \in netSendBusy /\ Senddatapack[ItemSock] = None

\* What m_lSend counts.
Buf == {s \in Sock : Senddatapack[s] # None}
Done == {w \in Worker : /\ work[w].out = "done"
                        /\ work[w].pc \in {"unmark", "decide", "credit"}}

Counted ==
  /\ IsFiniteSet(Buf) /\ IsFiniteSet(Done)
  /\ m_lSend = Cardinality(Buf) + Cardinality(Done)

\* A reply that has been pushed is somewhere.
Somewhere ==
  \A k \in Pack : adoPc[k] \in {"pushed", "given"} =>
    Waiting(k) \/ InBuffer(k) \/ Gone(k) \/ k \in dropped

\* Something that will signal the check thread, or has.
Due ==
  \/ m_phSendThread # {} \/ Buf # {} \/ Done # {}
  \/ \E k \in Pack : adoPc[k] = "pushed"

\* While replies wait, the check thread is about to find one it can send, or is due.
Token ==
  /\ check.pc \in {"wait", "reset"} => check.it = 1
  /\ m_pendingPackList # <<>> =>
       Due \/ check.pc \in {"reset", "mark", "send"} \/ (check.pc = "scan" /\ check.it = 1)

HealthyInv ==
  Calm /\ Known /\ Outs /\ Sends /\ Counted /\ Somewhere /\ Token
-----------------------------------------------------------------------------
(* Lemmas.                                                                 *)

\* What is used of the types.
LEMMA Facts ==
  ASSUME ReplyInv
  PROVE  /\ WorkType /\ \A w \in Worker : work[w].pc # "free" => work[w].sock \in Sock \/ work[w].pc = "dead"
         /\ m_sockmap \subseteq Sock /\ netSendBusy \subseteq Sock
         /\ conn \in [Sock -> {"none", "open", "fin", "reset"}]
         /\ recvIO \in [Sock -> {"none", "posted", "done", "failed"}]
         /\ sendPosted \in [Sock -> Nat] /\ sendDone \in [Sock -> Nat]
         /\ sendFailed \in [Sock -> Nat]
         /\ Senddatapack \in [Sock -> Pack \cup {None}] /\ dwSendRemain \in [Sock -> Nat]
         /\ adoPc \in [Pack -> {"new", "arrived", "asked", "refused", "found", "pushed", "given"}]
         /\ \A k \in Pack : Dest[k] \in Sock
         /\ None \notin Pack
  BY Constants DEF ReplyInv, WorkOK, SetsOK, NetOK, PacksOK

LEMMA CheckFacts ==
  ASSUME ReplyInv
  PROVE  /\ CheckType /\ m_pendingPackList \in Seq(Pack) /\ m_lSend \in Int
         /\ check.pc \notin {"wait", "reset", "scan"} =>
              ItemSock \in Sock /\ check.pack \in Pack
         /\ check.pc = "scan" /\ check.it <= Len(m_pendingPackList) =>
              check.it \in Place /\ m_pendingPackList[check.it] \in Pack
         /\ m_nSockThread \in Nat /\ m_nSockThread > 0
         /\ m_maxWsaSend \in Nat /\ m_maxWsaSend >= m_nSockThread
<1>1. m_nSockThread \in Nat /\ m_nSockThread > 0 /\ m_maxWsaSend \in Nat /\ m_maxWsaSend >= m_nSockThread
  BY SockAssumption DEF SockAssumption
<1>2. check.pc \notin {"wait", "reset", "scan"} => ItemSock \in Sock /\ check.pack \in Pack
  BY ItemSockIs DEF ReplyInv
<1>3. CheckType /\ m_pendingPackList \in Seq(Pack) /\ m_lSend \in Int
  BY DEF ReplyInv, CheckOK, ListOK, PacksOK
<1>4. check.it <= Len(m_pendingPackList) =>
              check.it \in Place /\ m_pendingPackList[check.it] \in Pack
  BY <1>3 DEF CheckType, Place
<1> QED
  BY <1>1, <1>2, <1>3, <1>4

\* A count that is positive counts something.
LEMMA SomeCounted ==
  ASSUME ReplyInv, Counted, m_lSend > 0
  PROVE  Buf # {} \/ Done # {}
  BY FS_EmptySet, CheckFacts DEF Counted

\* A reply stays where it is, or is given up.
LEMMA SomewhereStays ==
  ASSUME Somewhere, UNCHANGED <<m_pendingPackList, Senddatapack, sent>>, dropped \subseteq dropped',
         \A k \in Pack : Waiting(k) => Waiting(k)',
         \A k \in Pack : adoPc'[k] \in {"pushed", "given"} =>
           adoPc[k] \in {"pushed", "given"} \/ k \in dropped'
  PROVE  Somewhere'
  BY DEF Somewhere, InBuffer, Gone

LEMMA AcceptHealthy ==
  ASSUME HealthyInv, ReplyInv, NoFailure, NEW w \in Worker, NEW s \in Sock, Accept(w, s)
  PROVE  HealthyInv'
<1> USE DEF HealthyInv, flagVars, stateVars, packVars, queueVars, netVars, releaseVars
<1>20. /\ Moves(w) /\ work[w].pc = "free" /\ work'[w].pc = "accepted"
       /\ work'[w].sock = s /\ work'[w].out = work[w].out
  BY Facts, GotoMoves, EnterMoves, LoopMoves DEF Accept, WorkPc, Calm, Known, PostFails, NoFailure
<1>21. \A v \in Worker, t \in Sock : AtSent(v, t)' <=> AtSent(v, t)
  BY <1>20 DEF AtSent, Moves
<1>22. Buf' = Buf /\ Done' = Done
  BY <1>20 DEF Buf, Done, Outs, Moves, Accept
<1>1. Calm'
  BY <1>20, Facts DEF Accept, Calm, Known, ItemSock, Moves
<1>2. Known'
  BY <1>20, Facts DEF Accept, Known, ItemSock, Moves
<1>3. Outs'
  BY <1>20, Facts DEF Accept, Outs, Moves
<1>4. Sends'
  BY <1>20, <1>21, Facts DEF Sends, ItemSock, Accept, TakeRecv, Inbox
<1>5. Counted'
  BY <1>22 DEF Counted, Accept
<1>6. Somewhere'
  <2>1. UNCHANGED <<m_pendingPackList, Senddatapack, sent>> /\ dropped \subseteq dropped'
    BY <1>20 DEF Accept
  <2>2. \A j \in Pack : Waiting(j) => Waiting(j)'
    BY <1>20, <2>1 DEF Accept, Waiting, Place
  <2>3. \A j \in Pack : adoPc'[j] \in {"pushed", "given"} =>
          adoPc[j] \in {"pushed", "given"} \/ j \in dropped'
    BY Facts DEF Accept, AdoGoto
  <2> QED
    BY <2>1, <2>2, <2>3, SomewhereStays
<1>7. Token'
  BY <1>20, <1>22, Facts DEF Token, Due, Accept, Inbox
<1> QED
  BY <1>1, <1>2, <1>3, <1>4, <1>5, <1>6, <1>7

LEMMA AcceptPostHealthy ==
  ASSUME HealthyInv, ReplyInv, NoFailure, NEW w \in Worker, AcceptPost(w)
  PROVE  HealthyInv'
<1> USE DEF HealthyInv, flagVars, stateVars, packVars, queueVars, netVars, releaseVars
<1>20. /\ Moves(w) /\ work[w].pc = "accepted" /\ work'[w].pc = "free" /\ work'[w].out = "more"
  BY Facts, GotoMoves, EnterMoves, LoopMoves DEF AcceptPost, WorkPc, Calm, Known, PostFails, NoFailure
<1>21. \A v \in Worker, t \in Sock : AtSent(v, t)' <=> AtSent(v, t)
  BY <1>20 DEF AtSent, Moves
<1>22. Buf' = Buf /\ Done' = Done
  BY <1>20 DEF Buf, Done, Outs, Moves, AcceptPost
<1>1. Calm'
  BY <1>20, Facts DEF AcceptPost, CanPost, PostFails, Calm, Known, ItemSock, Moves
<1>2. Known'
  BY <1>20, Facts DEF AcceptPost, CanPost, PostFails, Known, ItemSock, Moves
<1>3. Outs'
  BY <1>20, Facts DEF AcceptPost, CanPost, PostFails, Outs, Moves
<1>4. Sends'
  BY <1>20, <1>21, Facts DEF Sends, ItemSock, AcceptPost, TakeRecv, Inbox
<1>5. Counted'
  BY <1>22 DEF Counted, AcceptPost
<1>6. Somewhere'
  <2>1. UNCHANGED <<m_pendingPackList, Senddatapack, sent>> /\ dropped \subseteq dropped'
    BY <1>20 DEF AcceptPost
  <2>2. \A j \in Pack : Waiting(j) => Waiting(j)'
    BY <1>20, <2>1 DEF AcceptPost, Waiting, Place
  <2>3. \A j \in Pack : adoPc'[j] \in {"pushed", "given"} =>
          adoPc[j] \in {"pushed", "given"} \/ j \in dropped'
    BY Facts DEF AcceptPost, AdoGoto
  <2> QED
    BY <2>1, <2>2, <2>3, SomewhereStays
<1>7. Token'
  BY <1>20, <1>22, Facts DEF Token, Due, AcceptPost, Inbox
<1> QED
  BY <1>1, <1>2, <1>3, <1>4, <1>5, <1>6, <1>7

LEMMA ReceiveHealthy ==
  ASSUME HealthyInv, ReplyInv, NoFailure, NEW w \in Worker, Receive(w)
  PROVE  HealthyInv'
<1> USE DEF HealthyInv, flagVars, stateVars, packVars, queueVars, netVars, releaseVars
<1>20. /\ Moves(w) /\ work[w].pc = "recv"
       /\ \/ work'[w] = work[w]
          \/ work'[w].pc = "free" /\ work'[w].out = "more"
          \/ work'[w].pc = "repost" /\ work'[w].sock = work[w].sock /\ work'[w].out = work[w].out
  <2>1. work[w].pc = "recv" /\ conn[work[w].sock] = "open"
    BY Facts DEF Receive, Known, Calm
  <2>2. UNCHANGED work \/ Loop(w) \/ Goto(w, "repost")
    BY <2>1 DEF Receive
  <2> QED
    BY <2>1, <2>2, Facts, GotoMoves, LoopMoves DEF WorkPc, Moves, WorkType
<1>21. \A v \in Worker, t \in Sock : AtSent(v, t)' <=> AtSent(v, t)
  BY <1>20 DEF AtSent, Moves
<1>22. Buf' = Buf /\ Done' = Done
  BY <1>20 DEF Buf, Done, Outs, Moves, Receive
<1>1. Calm'
  <2>1. dangling' = FALSE /\ bNeedClose' = {} /\ bClose' = {}
    BY <1>20, Facts DEF Receive, Touch, Calm, Known
  <2>2. \A v \in Worker : work'[v].pc \notin {"drop", "failed", "close", "release", "dead"}
    BY <1>20 DEF Calm, Moves
  <2>3. UNCHANGED <<check, conn, recvIO, sendFailed>>
    BY DEF Receive
  <2> QED
    BY <2>1, <2>2, <2>3 DEF Calm
<1>2. Known'
  BY <1>20, Facts DEF Receive, Touch, Inbox, Known, ItemSock, Moves
<1>3. Outs'
  BY <1>20, Facts DEF Receive, Touch, Inbox, Outs, Moves
<1>4. Sends'
  BY <1>20, <1>21, Facts DEF Sends, ItemSock, Receive, TakeRecv, Inbox
<1>5. Counted'
  BY <1>22 DEF Counted, Receive
<1>6. Somewhere'
  <2>1. UNCHANGED <<m_pendingPackList, Senddatapack, sent>> /\ dropped \subseteq dropped'
    BY <1>20 DEF Receive
  <2>2. \A j \in Pack : Waiting(j) => Waiting(j)'
    BY <1>20, <2>1 DEF Receive, Waiting, Place
  <2>3. \A j \in Pack : adoPc'[j] \in {"pushed", "given"} =>
          adoPc[j] \in {"pushed", "given"} \/ j \in dropped'
    BY Facts DEF Receive, AdoGoto
  <2> QED
    BY <2>1, <2>2, <2>3, SomewhereStays
<1>7. Token'
  BY <1>20, <1>22, Facts DEF Token, Due, Receive, Inbox
<1> QED
  BY <1>1, <1>2, <1>3, <1>4, <1>5, <1>6, <1>7

LEMMA RepostHealthy ==
  ASSUME HealthyInv, ReplyInv, NoFailure, NEW w \in Worker, Repost(w)
  PROVE  HealthyInv'
<1> USE DEF HealthyInv, flagVars, stateVars, packVars, queueVars, netVars, releaseVars
<1>20. /\ Moves(w) /\ work[w].pc = "repost" /\ work'[w].pc = "reposted"
       /\ work'[w].sock = work[w].sock /\ work'[w].out = work[w].out
  BY Facts, GotoMoves, EnterMoves, LoopMoves DEF Repost, WorkPc, Calm, Known, PostFails, NoFailure
<1>21. \A v \in Worker, t \in Sock : AtSent(v, t)' <=> AtSent(v, t)
  BY <1>20 DEF AtSent, Moves
<1>22. Buf' = Buf /\ Done' = Done
  BY <1>20 DEF Buf, Done, Outs, Moves, Repost
<1>1. Calm'
  BY <1>20, Facts DEF Repost, CanPost, PostFails, Calm, Known, ItemSock, Moves
<1>2. Known'
  BY <1>20, Facts DEF Repost, CanPost, PostFails, Known, ItemSock, Moves
<1>3. Outs'
  BY <1>20, Facts DEF Repost, CanPost, PostFails, Outs, Moves
<1>4. Sends'
  BY <1>20, <1>21, Facts DEF Sends, ItemSock, Repost, TakeRecv, Inbox
<1>5. Counted'
  BY <1>22 DEF Counted, Repost
<1>6. Somewhere'
  <2>1. UNCHANGED <<m_pendingPackList, Senddatapack, sent>> /\ dropped \subseteq dropped'
    BY <1>20 DEF Repost
  <2>2. \A j \in Pack : Waiting(j) => Waiting(j)'
    BY <1>20, <2>1 DEF Repost, Waiting, Place
  <2>3. \A j \in Pack : adoPc'[j] \in {"pushed", "given"} =>
          adoPc[j] \in {"pushed", "given"} \/ j \in dropped'
    BY Facts DEF Repost, AdoGoto
  <2> QED
    BY <2>1, <2>2, <2>3, SomewhereStays
<1>7. Token'
  BY <1>20, <1>22, Facts DEF Token, Due, Repost, Inbox
<1> QED
  BY <1>1, <1>2, <1>3, <1>4, <1>5, <1>6, <1>7

LEMMA RecvIdleHealthy ==
  ASSUME HealthyInv, ReplyInv, NoFailure, NEW w \in Worker, RecvIdle(w)
  PROVE  HealthyInv'
<1> USE DEF HealthyInv, flagVars, stateVars, packVars, queueVars, netVars, releaseVars
<1>20. /\ Moves(w) /\ work[w].pc = "reposted" /\ work'[w].pc = "free" /\ work'[w].out = "more"
  BY Facts, GotoMoves, EnterMoves, LoopMoves DEF RecvIdle, WorkPc, Calm, Known, PostFails, NoFailure
<1>21. \A v \in Worker, t \in Sock : AtSent(v, t)' <=> AtSent(v, t)
  BY <1>20 DEF AtSent, Moves
<1>22. Buf' = Buf /\ Done' = Done
  BY <1>20 DEF Buf, Done, Outs, Moves, RecvIdle
<1>1. Calm'
  BY <1>20, Facts DEF RecvIdle, Touch, Calm, Known, ItemSock, Moves
<1>2. Known'
  BY <1>20, Facts DEF RecvIdle, Touch, Known, ItemSock, Moves
<1>3. Outs'
  BY <1>20, Facts DEF RecvIdle, Touch, Outs, Moves
<1>4. Sends'
  BY <1>20, <1>21, Facts DEF Sends, ItemSock, RecvIdle, TakeRecv, Inbox
<1>5. Counted'
  BY <1>22 DEF Counted, RecvIdle
<1>6. Somewhere'
  <2>1. UNCHANGED <<m_pendingPackList, Senddatapack, sent>> /\ dropped \subseteq dropped'
    BY <1>20 DEF RecvIdle
  <2>2. \A j \in Pack : Waiting(j) => Waiting(j)'
    BY <1>20, <2>1 DEF RecvIdle, Waiting, Place
  <2>3. \A j \in Pack : adoPc'[j] \in {"pushed", "given"} =>
          adoPc[j] \in {"pushed", "given"} \/ j \in dropped'
    BY Facts DEF RecvIdle, AdoGoto
  <2> QED
    BY <2>1, <2>2, <2>3, SomewhereStays
<1>7. Token'
  BY <1>20, <1>22, Facts DEF Token, Due, RecvIdle, Inbox
<1> QED
  BY <1>1, <1>2, <1>3, <1>4, <1>5, <1>6, <1>7

LEMMA SentHealthy ==
  ASSUME HealthyInv, ReplyInv, NoFailure, NEW w \in Worker, Sent(w)
  PROVE  HealthyInv'
<1> USE DEF HealthyInv, flagVars, stateVars, packVars, queueVars, netVars, releaseVars
<1> DEFINE s == work[w].sock
<1>30. /\ work[w].pc = "sent" /\ s \in m_sockmap /\ s \in Sock /\ AtSent(w, s)
       /\ conn[s] = "open" /\ Senddatapack[s] # None
  BY Facts DEF Sent, Known, Sends, AtSent
<1>31. ~SendFails(s)
  BY <1>30 DEF SendFails, Calm
<1>32. \/ /\ \E pc \in {"pended", "unmark"} : Goto(w, pc)
          /\ PostSend(s) /\ UNCHANGED <<netSendBusy, Senddatapack, sent, dropped>>
       \/ /\ work' = [work EXCEPT ![w].pc = "unmark", ![w].out = "done"]
          /\ netSendBusy' = netSendBusy \ {s} /\ FreePack(s) /\ UNCHANGED <<netVars, dropped>>
          /\ sent' = Append(sent, Senddatapack[s])
  BY <1>30, <1>31 DEF Sent
<1>33. UNCHANGED <<m_sockmap, flagVars, netRecvBusy, queueVars, check, adoPc>> /\ dangling' = FALSE
  BY <1>30 DEF Sent, Touch
<1> HIDE DEF s
<1>34. \A v \in Worker : AtSent(v, s) => v = w
  BY <1>30 DEF Sends
<1>35. sendPosted[s] + sendDone[s] = 0 /\ sendPosted[s] \in Nat /\ sendDone[s] \in Nat
  BY <1>30, Facts DEF Sends
<1>36. work[w].out = "more" /\ w \notin Done
  BY <1>30 DEF Outs, Done
<1>37. \A k : Waiting(k)' <=> Waiting(k)
  BY <1>33 DEF Waiting, Place
<1>1. ASSUME NEW pc \in {"pended", "unmark"}, Goto(w, pc), PostSend(s),
             UNCHANGED <<netSendBusy, Senddatapack, sent, dropped>>
      PROVE  HealthyInv'
  <2>1. Moves(w) /\ work'[w].pc = pc /\ work'[w].sock = s /\ work'[w].out = "more"
    BY <1>1, <1>36, Facts, GotoMoves DEF WorkPc, s
  <2>2. \A v \in Worker, t \in Sock : AtSent(v, t)' <=> AtSent(v, t) /\ v # w
    BY <2>1 DEF AtSent, Moves
  <2>3. Buf' = Buf /\ Done' = Done
    BY <1>1, <1>36, <2>1 DEF Buf, Done, Moves
  <2>4. /\ UNCHANGED <<conn, recvIO, sendDone, sendFailed>>
        /\ sendPosted'[s] = sendPosted[s] + 1
        /\ \A t \in Sock : t # s => sendPosted'[t] = sendPosted[t]
    BY <1>1, <1>30, Facts DEF PostSend
  <2>5. sendPosted'[s] + sendDone'[s] = 1
    BY <1>35, <2>4
  <2>6. \A t \in Sock : t # s => sendPosted'[t] + sendDone'[t] = sendPosted[t] + sendDone[t]
    BY <2>4
  <2>7. Calm'
    BY <1>33, <2>1, <2>4 DEF Calm, Moves
  <2>8. Known'
    BY <1>30, <1>33, <2>1, <2>4 DEF Known, Moves, ItemSock
  <2>9. Outs'
    BY <2>1 DEF Outs, Moves
  <2>10. Sends'
    <3>1. \A v \in Worker, t \in Sock : AtSent(v, t)' => t # s
      BY <1>34, <2>2
    <3>2. \A t \in Sock : t # s => \A v \in Worker : AtSent(v, t) => v # w
      BY <1>30 DEF AtSent
    <3> QED
      BY <1>1, <1>30, <1>33, <2>2, <2>5, <2>6, <3>1, <3>2 DEF Sends, ItemSock
  <2>11. Counted' /\ Token'
    BY <1>33, <2>3 DEF Counted, Token, Due
  <2>12. Somewhere'
    BY <1>1, <1>33, <1>37 DEF Somewhere, InBuffer, Gone
  <2> QED
    BY <2>7, <2>8, <2>9, <2>10, <2>11, <2>12
<1>2. ASSUME work' = [work EXCEPT ![w].pc = "unmark", ![w].out = "done"],
             netSendBusy' = netSendBusy \ {s}, FreePack(s), UNCHANGED <<netVars, dropped>>,
             sent' = Append(sent, Senddatapack[s])
      PROVE  HealthyInv'
  <2>1. Moves(w) /\ work'[w].pc = "unmark" /\ work'[w].sock = s /\ work'[w].out = "done"
    BY <1>2, Facts, OutMoves DEF WorkPc, s
  <2>2. \A v \in Worker, t \in Sock : AtSent(v, t)' <=> AtSent(v, t) /\ v # w
    BY <2>1 DEF AtSent, Moves
  <2>3. \A t \in Sock : Senddatapack'[t] = IF t = s THEN None ELSE Senddatapack[t]
    BY <1>2, Facts DEF FreePack
  <2>4. Buf' = Buf \ {s} /\ s \in Buf /\ Done' = Done \cup {w}
    BY <1>30, <2>1, <2>3 DEF Buf, Done, Moves
  <2>5. Calm'
    BY <1>2, <1>33, <2>1 DEF Calm, Moves
  <2>6. Known'
    <3>1. UNCHANGED <<m_sockmap, conn, recvIO, sendPosted, sendDone, check, adoPc>>
      BY <1>2, <1>33
    <3>2. \A v \in Worker : work'[v].pc # "free" => work'[v].sock \in m_sockmap
      BY <1>30, <2>1 DEF Known, Moves
    <3> QED
      BY <3>1, <3>2 DEF Known, ItemSock
  <2>7. Outs'
    BY <2>1 DEF Outs, Moves
  <2>8. Sends'
    <3>1. \A v \in Worker, t \in Sock : AtSent(v, t)' => t # s
      BY <1>34, <2>2
    <3>2. \A t \in Sock : t # s => \A v \in Worker : AtSent(v, t) => v # w
      BY <1>30 DEF AtSent
    <3>3. \A t \in netSendBusy : t \in Sock
      BY Facts
    <3>4. check.pc = "send" => ItemSock # s
      BY <1>30 DEF Sends
    <3> QED
      BY <1>2, <1>33, <1>35, <2>2, <2>3, <3>1, <3>2, <3>3, <3>4 DEF Sends, ItemSock
  <2>9. Counted'
    <3>1. IsFiniteSet(Buf') /\ Cardinality(Buf') = Cardinality(Buf) - 1
      BY <2>4, FS_RemoveElement DEF Counted
    <3>2. IsFiniteSet(Done') /\ Cardinality(Done') = Cardinality(Done) + 1
      BY <1>36, <2>4, FS_AddElement DEF Counted
    <3>3. Cardinality(Done) \in Nat /\ Cardinality(Buf) \in Nat
      BY FS_CardinalityType DEF Counted
    <3> QED
      BY <1>33, <3>1, <3>2, <3>3 DEF Counted
  <2>10. Token'
    BY <1>33, <2>4 DEF Token, Due
  <2>11. Somewhere'
    <3>1. sent \in Seq(Pack) /\ Senddatapack[s] \in Pack
      BY <1>30, Facts DEF ReplyInv, PacksOK
    <3>2. \A k : Gone(k) \/ k = Senddatapack[s] => Gone(k)'
      <4>1. /\ Len(sent') = Len(sent) + 1 /\ Len(sent) \in Nat
            /\ sent'[Len(sent) + 1] = Senddatapack[s]
            /\ \A i \in 1..Len(sent) : sent'[i] = sent[i]
        BY <1>2, <3>1, Grown
      <4>2. 1..Len(sent) \subseteq 1..Len(sent') /\ Len(sent) + 1 \in 1..Len(sent')
        BY <4>1
      <4> QED
        BY <4>1, <4>2 DEF Gone
    <3>3. \A k : InBuffer(k) => InBuffer(k)' \/ k = Senddatapack[s]
      BY <2>3 DEF InBuffer
    <3> QED
      BY <1>2, <1>33, <1>37, <3>2, <3>3 DEF Somewhere
  <2> QED
    BY <2>5, <2>6, <2>7, <2>8, <2>9, <2>10, <2>11
<1> QED
  BY <1>1, <1>2, <1>32

LEMMA MarkPendingHealthy ==
  ASSUME HealthyInv, ReplyInv, NoFailure, NEW w \in Worker, MarkPending(w)
  PROVE  HealthyInv'
<1> USE DEF HealthyInv, flagVars, stateVars, packVars, queueVars, netVars, releaseVars
<1>20. /\ Moves(w) /\ work[w].pc = "pended" /\ work'[w].pc = "unmark"
       /\ work'[w].sock = work[w].sock /\ work'[w].out = work[w].out
  BY Facts, GotoMoves, EnterMoves, LoopMoves DEF MarkPending, WorkPc, Calm, Known, PostFails, NoFailure
<1>21. \A v \in Worker, t \in Sock : AtSent(v, t)' <=> AtSent(v, t)
  BY <1>20 DEF AtSent, Moves
<1>22. Buf' = Buf /\ Done' = Done
  BY <1>20 DEF Buf, Done, Outs, Moves, MarkPending
<1>1. Calm'
  BY <1>20, Facts DEF MarkPending, Touch, Calm, Known, ItemSock, Moves
<1>2. Known'
  BY <1>20, Facts DEF MarkPending, Touch, Known, ItemSock, Moves
<1>3. Outs'
  BY <1>20, Facts DEF MarkPending, Touch, Outs, Moves
<1>4. Sends'
  BY <1>20, <1>21, Facts DEF Sends, ItemSock, MarkPending, TakeRecv, Inbox
<1>5. Counted'
  BY <1>22 DEF Counted, MarkPending
<1>6. Somewhere'
  <2>1. UNCHANGED <<m_pendingPackList, Senddatapack, sent>> /\ dropped \subseteq dropped'
    BY <1>20 DEF MarkPending
  <2>2. \A j \in Pack : Waiting(j) => Waiting(j)'
    BY <1>20, <2>1 DEF MarkPending, Waiting, Place
  <2>3. \A j \in Pack : adoPc'[j] \in {"pushed", "given"} =>
          adoPc[j] \in {"pushed", "given"} \/ j \in dropped'
    BY Facts DEF MarkPending, AdoGoto
  <2> QED
    BY <2>1, <2>2, <2>3, SomewhereStays
<1>7. Token'
  BY <1>20, <1>22, Facts DEF Token, Due, MarkPending, Inbox
<1> QED
  BY <1>1, <1>2, <1>3, <1>4, <1>5, <1>6, <1>7

LEMMA UnmarkHealthy ==
  ASSUME HealthyInv, ReplyInv, NoFailure, NEW w \in Worker, Unmark(w)
  PROVE  HealthyInv'
<1> USE DEF HealthyInv, flagVars, stateVars, packVars, queueVars, netVars, releaseVars
<1>20. /\ Moves(w) /\ work[w].pc = "unmark" /\ work'[w].pc = "decide"
       /\ work'[w].sock = work[w].sock /\ work'[w].out = work[w].out
  BY Facts, GotoMoves, EnterMoves, LoopMoves DEF Unmark, WorkPc, Calm, Known, PostFails, NoFailure
<1>21. \A v \in Worker, t \in Sock : AtSent(v, t)' <=> AtSent(v, t)
  BY <1>20 DEF AtSent, Moves
<1>22. Buf' = Buf /\ Done' = Done
  BY <1>20 DEF Buf, Done, Outs, Moves, Unmark
<1>1. Calm'
  BY <1>20, Facts DEF Unmark, Touch, Calm, Known, ItemSock, Moves
<1>2. Known'
  BY <1>20, Facts DEF Unmark, Touch, Known, ItemSock, Moves
<1>3. Outs'
  BY <1>20, Facts DEF Unmark, Touch, Outs, Moves
<1>4. Sends'
  BY <1>20, <1>21, Facts DEF Sends, ItemSock, Unmark, TakeRecv, Inbox
<1>5. Counted'
  BY <1>22 DEF Counted, Unmark
<1>6. Somewhere'
  <2>1. UNCHANGED <<m_pendingPackList, Senddatapack, sent>> /\ dropped \subseteq dropped'
    BY <1>20 DEF Unmark
  <2>2. \A j \in Pack : Waiting(j) => Waiting(j)'
    BY <1>20, <2>1 DEF Unmark, Waiting, Place
  <2>3. \A j \in Pack : adoPc'[j] \in {"pushed", "given"} =>
          adoPc[j] \in {"pushed", "given"} \/ j \in dropped'
    BY Facts DEF Unmark, AdoGoto
  <2> QED
    BY <2>1, <2>2, <2>3, SomewhereStays
<1>7. Token'
  BY <1>20, <1>22, Facts DEF Token, Due, Unmark, Inbox
<1> QED
  BY <1>1, <1>2, <1>3, <1>4, <1>5, <1>6, <1>7

LEMMA DecideHealthy ==
  ASSUME HealthyInv, ReplyInv, NoFailure, NEW w \in Worker, Decide(w)
  PROVE  HealthyInv'
<1> USE DEF HealthyInv, flagVars, stateVars, packVars, queueVars, netVars, releaseVars
<1>20. /\ Moves(w) /\ work[w].pc = "decide"
       /\ \/ /\ work[w].out = "done" /\ work'[w].pc = "credit"
             /\ work'[w].sock = work[w].sock /\ work'[w].out = work[w].out
          \/ work[w].out # "done" /\ work'[w].pc = "free" /\ work'[w].out = "more"
  <2>1. work[w].out # "error" /\ bNeedClose = {} /\ work[w].pc = "decide"
    BY DEF Decide, Outs, Calm
  <2>2. CASE work[w].out = "done"
    <3>1. Goto(w, "credit")
      BY <2>1, <2>2 DEF Decide
    <3> QED
      BY <2>1, <2>2, <3>1, Facts, GotoMoves DEF WorkPc
  <2>3. CASE work[w].out # "done"
    <3>1. Loop(w)
      BY <2>1, <2>3 DEF Decide
    <3> QED
      BY <2>1, <2>3, <3>1, Facts, LoopMoves
  <2> QED
    BY <2>2, <2>3
<1>21. \A v \in Worker, t \in Sock : AtSent(v, t)' <=> AtSent(v, t)
  BY <1>20 DEF AtSent, Moves
<1>22. Buf' = Buf /\ Done' = Done
  BY <1>20 DEF Buf, Done, Outs, Moves, Decide
<1>1. Calm'
  BY <1>20, Facts DEF Decide, Touch, Calm, Known, ItemSock, Moves
<1>2. Known'
  BY <1>20, Facts DEF Decide, Touch, Known, ItemSock, Moves
<1>3. Outs'
  BY <1>20, Facts DEF Decide, Touch, Outs, Moves
<1>4. Sends'
  BY <1>20, <1>21, Facts DEF Sends, ItemSock, Decide, TakeRecv, Inbox
<1>5. Counted'
  BY <1>22 DEF Counted, Decide
<1>6. Somewhere'
  <2>1. UNCHANGED <<m_pendingPackList, Senddatapack, sent>> /\ dropped \subseteq dropped'
    BY <1>20 DEF Decide
  <2>2. \A j \in Pack : Waiting(j) => Waiting(j)'
    BY <1>20, <2>1 DEF Decide, Waiting, Place
  <2>3. \A j \in Pack : adoPc'[j] \in {"pushed", "given"} =>
          adoPc[j] \in {"pushed", "given"} \/ j \in dropped'
    BY Facts DEF Decide, AdoGoto
  <2> QED
    BY <2>1, <2>2, <2>3, SomewhereStays
<1>7. Token'
  BY <1>20, <1>22, Facts DEF Token, Due, Decide, Inbox
<1> QED
  BY <1>1, <1>2, <1>3, <1>4, <1>5, <1>6, <1>7

LEMMA CreditHealthy ==
  ASSUME HealthyInv, ReplyInv, NoFailure, NEW w \in Worker, Credit(w)
  PROVE  HealthyInv'
<1> USE DEF HealthyInv, flagVars, stateVars, packVars, queueVars, netVars, releaseVars
<1>20. /\ Moves(w) /\ work[w].pc = "credit" /\ work'[w].pc = "free" /\ work'[w].out = "more"
  BY Facts, GotoMoves, EnterMoves, LoopMoves DEF Credit, WorkPc, Calm, Known, PostFails, NoFailure
<1>21. \A v \in Worker, t \in Sock : AtSent(v, t)' <=> AtSent(v, t)
  BY <1>20 DEF AtSent, Moves
<1>22. Buf' = Buf /\ w \in Done /\ Done' = Done \ {w}
  BY <1>20 DEF Buf, Done, Outs, Moves, Credit
<1>1. Calm'
  BY <1>20, Facts DEF Credit, Notify, Calm, Known, ItemSock, Moves
<1>2. Known'
  BY <1>20, Facts DEF Credit, Notify, Known, ItemSock, Moves
<1>3. Outs'
  BY <1>20, Facts DEF Credit, Notify, Outs, Moves
<1>4. Sends'
  BY <1>20, <1>21, Facts DEF Sends, ItemSock, Credit
<1>5. Counted'
  <2>1. IsFiniteSet(Done') /\ Cardinality(Done') = Cardinality(Done) - 1
    BY <1>22, FS_RemoveElement DEF Counted
  <2>2. Cardinality(Done) \in Nat /\ Cardinality(Buf) \in Nat
    BY FS_CardinalityType DEF Counted
  <2> QED
    BY <1>22, <2>1, <2>2 DEF Counted, Credit
<1>6. Somewhere'
  <2>1. UNCHANGED <<m_pendingPackList, Senddatapack, sent>> /\ dropped \subseteq dropped'
    BY <1>20 DEF Credit
  <2>2. \A j \in Pack : Waiting(j) => Waiting(j)'
    BY <1>20, <2>1 DEF Credit, Waiting, Place
  <2>3. \A j \in Pack : adoPc'[j] \in {"pushed", "given"} =>
          adoPc[j] \in {"pushed", "given"} \/ j \in dropped'
    BY Facts DEF Credit, AdoGoto
  <2> QED
    BY <2>1, <2>2, <2>3, SomewhereStays
<1>7. Token'
  BY <1>20, Facts DEF Credit, Notify, Token, Due, Buf, Done, Moves
<1> QED
  BY <1>1, <1>2, <1>3, <1>4, <1>5, <1>6, <1>7

LEMMA DequeueRecvHealthy ==
  ASSUME HealthyInv, ReplyInv, NoFailure, NEW w \in Worker, NEW s \in Sock, DequeueRecv(w, s)
  PROVE  HealthyInv'
<1> USE DEF HealthyInv, flagVars, stateVars, packVars, queueVars, netVars, releaseVars
<1>20. /\ Moves(w) /\ work[w].pc = "free" /\ work'[w].pc = "recv"
       /\ work'[w].sock = s /\ work'[w].out = work[w].out
  BY Facts, GotoMoves, EnterMoves, LoopMoves DEF DequeueRecv, WorkPc, Calm, Known, PostFails, NoFailure
<1>21. \A v \in Worker, t \in Sock : AtSent(v, t)' <=> AtSent(v, t)
  BY <1>20 DEF AtSent, Moves
<1>22. Buf' = Buf /\ Done' = Done
  BY <1>20 DEF Buf, Done, Outs, Moves, DequeueRecv
<1>1. Calm'
  BY <1>20, Facts DEF DequeueRecv, TakeRecv, Calm, Known, ItemSock, Moves
<1>2. Known'
  BY <1>20, Facts DEF DequeueRecv, TakeRecv, Known, ItemSock, Moves
<1>3. Outs'
  BY <1>20, Facts DEF DequeueRecv, TakeRecv, Outs, Moves
<1>4. Sends'
  BY <1>20, <1>21, Facts DEF Sends, ItemSock, DequeueRecv, TakeRecv, Inbox
<1>5. Counted'
  BY <1>22 DEF Counted, DequeueRecv
<1>6. Somewhere'
  <2>1. UNCHANGED <<m_pendingPackList, Senddatapack, sent>> /\ dropped \subseteq dropped'
    BY <1>20 DEF DequeueRecv
  <2>2. \A j \in Pack : Waiting(j) => Waiting(j)'
    BY <1>20, <2>1 DEF DequeueRecv, Waiting, Place
  <2>3. \A j \in Pack : adoPc'[j] \in {"pushed", "given"} =>
          adoPc[j] \in {"pushed", "given"} \/ j \in dropped'
    BY Facts DEF DequeueRecv, AdoGoto
  <2> QED
    BY <2>1, <2>2, <2>3, SomewhereStays
<1>7. Token'
  BY <1>20, <1>22, Facts DEF Token, Due, DequeueRecv, Inbox
<1> QED
  BY <1>1, <1>2, <1>3, <1>4, <1>5, <1>6, <1>7

LEMMA DequeueSendHealthy ==
  ASSUME HealthyInv, ReplyInv, NoFailure, NEW w \in Worker, NEW s \in Sock, DequeueSend(w, s)
  PROVE  HealthyInv'
<1> USE DEF HealthyInv, flagVars, stateVars, packVars, queueVars, netVars, releaseVars
<1>20. /\ Moves(w) /\ work[w].pc = "free" /\ work'[w].pc = "sent"
       /\ work'[w].sock = s /\ work'[w].out = work[w].out
  BY Facts, GotoMoves, EnterMoves, LoopMoves DEF DequeueSend, WorkPc, Calm, Known, PostFails, NoFailure
<1>21. \A v \in Worker, t \in Sock : AtSent(v, t)' <=> AtSent(v, t) \/ (v = w /\ t = s)
  BY <1>20 DEF AtSent, Moves
<1>22. Buf' = Buf /\ Done' = Done
  BY <1>20 DEF Buf, Done, Outs, Moves, DequeueSend
<1>23. /\ sendDone[s] > 0 /\ UNCHANGED sendPosted /\ sendDone'[s] = sendDone[s] - 1
       /\ \A t \in Sock : sendPosted[t] \in Nat /\ sendDone[t] \in Nat
       /\ \A t \in Sock : t # s => sendDone'[t] = sendDone[t]
  BY Facts DEF DequeueSend, TakeSend
<1>24. \A v \in Worker : ~AtSent(v, s)
  BY <1>23 DEF Sends
<1>25. sendPosted[s] + sendDone[s] = 1 /\ sendPosted[s] = 0 /\ Senddatapack[s] # None
  BY <1>23 DEF Sends
<1>1. Calm'
  BY <1>20, Facts DEF DequeueSend, TakeSend, Calm, Known, ItemSock, Moves
<1>2. Known'
  BY <1>20, Facts DEF DequeueSend, TakeSend, Known, ItemSock, Moves
<1>3. Outs'
  BY <1>20, Facts DEF DequeueSend, TakeSend, Outs, Moves
<1>4. Sends'
  <2>1. \A t \in Sock : sendPosted'[t] + sendDone'[t] <= sendPosted[t] + sendDone[t]
    BY <1>23
  <2>2. sendPosted'[s] + sendDone'[s] = 0
    BY <1>23, <1>25
  <2>4. \A t \in Sock : t # s => sendPosted'[t] + sendDone'[t] = sendPosted[t] + sendDone[t]
    BY <1>23
  <2>3. \A t \in Sock : sendPosted'[t] + sendDone'[t] \in Nat /\ sendPosted[t] + sendDone[t] \in Nat
    BY <1>23, <2>2, <2>4
  <2>5. UNCHANGED <<check, Senddatapack, netSendBusy>>
    BY DEF DequeueSend
  <2> QED
    BY <1>21, <1>24, <1>25, <2>1, <2>2, <2>3, <2>4, <2>5 DEF Sends, ItemSock
<1>5. Counted'
  BY <1>22 DEF Counted, DequeueSend
<1>6. Somewhere'
  <2>1. UNCHANGED <<m_pendingPackList, Senddatapack, sent>> /\ dropped \subseteq dropped'
    BY <1>20 DEF DequeueSend
  <2>2. \A j \in Pack : Waiting(j) => Waiting(j)'
    BY <1>20, <2>1 DEF DequeueSend, Waiting, Place
  <2>3. \A j \in Pack : adoPc'[j] \in {"pushed", "given"} =>
          adoPc[j] \in {"pushed", "given"} \/ j \in dropped'
    BY Facts DEF DequeueSend, AdoGoto
  <2> QED
    BY <2>1, <2>2, <2>3, SomewhereStays
<1>7. Token'
  BY <1>22 DEF Token, Due, DequeueSend
<1> QED
  BY <1>1, <1>2, <1>3, <1>4, <1>5, <1>6, <1>7

LEMMA WakeCheckHealthy ==
  ASSUME HealthyInv, ReplyInv, NoFailure, WakeCheck
  PROVE  HealthyInv'
<1> USE DEF HealthyInv, flagVars, stateVars, packVars, queueVars, netVars, releaseVars
<1>20. /\ check.pc = "wait" /\ check'.pc = "reset"
       /\ check'.it = check.it /\ check'.out = check.out
  BY CheckFacts DEF WakeCheck, CheckGoto, CheckType, CheckPc, ItemSock
<1>21. \A v \in Worker, c \in Sock : AtSent(v, c)' <=> AtSent(v, c)
  BY DEF AtSent, WakeCheck
<1>22. Buf' = Buf /\ Done' = Done
  BY DEF Buf, Done, WakeCheck
<1>1. Outs'
  BY DEF WakeCheck, Outs
<1>2. Calm'
  BY <1>20, Facts DEF WakeCheck, Calm, Known, ItemSock, Moves
<1>3. Known'
  BY <1>20, Facts DEF WakeCheck, Known, ItemSock, Moves
<1>4. Sends'
  BY <1>20, <1>21, Facts, CheckFacts DEF Sends, ItemSock, WakeCheck
<1>5. Counted'
  BY <1>22 DEF Counted, WakeCheck
<1>6. Somewhere'
  <2>1. UNCHANGED <<m_pendingPackList, Senddatapack, sent>> /\ dropped \subseteq dropped'
    BY <1>20 DEF WakeCheck
  <2>2. \A j \in Pack : Waiting(j) => Waiting(j)'
    BY <1>20, <2>1 DEF WakeCheck, Waiting, Place
  <2>3. \A j \in Pack : adoPc'[j] \in {"pushed", "given"} =>
          adoPc[j] \in {"pushed", "given"} \/ j \in dropped'
    BY Facts DEF WakeCheck, AdoGoto
  <2> QED
    BY <2>1, <2>2, <2>3, SomewhereStays
<1>7. Token'
  BY <1>20, <1>22, Facts, CheckFacts DEF Token, Due, AdoGoto, WakeCheck
<1> QED
  BY <1>1, <1>2, <1>3, <1>4, <1>5, <1>6, <1>7

LEMMA BeginCheckHealthy ==
  ASSUME HealthyInv, ReplyInv, NoFailure, BeginCheck
  PROVE  HealthyInv'
<1> USE DEF HealthyInv, flagVars, stateVars, packVars, queueVars, netVars, releaseVars
<1>20. /\ check.pc = "reset" /\ check'.pc \in {"wait", "scan"} /\ check'.it = 1
       /\ check'.out # "fail" /\ (check'.pc = "wait" => m_lSend >= m_maxWsaSend)
  BY CheckFacts DEF BeginCheck, CheckGoto, CheckEnds, IdleCheck, CheckType, Token, Calm
<1>21. \A v \in Worker, c \in Sock : AtSent(v, c)' <=> AtSent(v, c)
  BY DEF AtSent, BeginCheck
<1>22. Buf' = Buf /\ Done' = Done
  BY DEF Buf, Done, BeginCheck
<1>1. Outs'
  BY DEF BeginCheck, Outs
<1>2. Calm'
  BY <1>20, Facts DEF BeginCheck, Calm, Known, ItemSock, Moves
<1>3. Known'
  BY <1>20, Facts DEF BeginCheck, Known, ItemSock, Moves
<1>4. Sends'
  BY <1>20, <1>21, Facts, CheckFacts DEF Sends, ItemSock, BeginCheck
<1>5. Counted'
  BY <1>22 DEF Counted, BeginCheck
<1>6. Somewhere'
  <2>1. UNCHANGED <<m_pendingPackList, Senddatapack, sent>> /\ dropped \subseteq dropped'
    BY <1>20 DEF BeginCheck
  <2>2. \A j \in Pack : Waiting(j) => Waiting(j)'
    BY <1>20, <2>1 DEF BeginCheck, Waiting, Place
  <2>3. \A j \in Pack : adoPc'[j] \in {"pushed", "given"} =>
          adoPc[j] \in {"pushed", "given"} \/ j \in dropped'
    BY Facts DEF BeginCheck, AdoGoto
  <2> QED
    BY <2>1, <2>2, <2>3, SomewhereStays
<1>7. Token'
  <2>1. ASSUME check'.pc = "wait" PROVE Due'
    <3>1. m_lSend > 0
      BY <1>20, <2>1, CheckFacts
    <3>2. Buf # {} \/ Done # {}
      BY <3>1, SomeCounted
    <3> QED
      BY <1>22, <3>2 DEF Due
  <2> QED
    BY <1>20, <2>1 DEF Token
<1> QED
  BY <1>1, <1>2, <1>3, <1>4, <1>5, <1>6, <1>7

LEMMA ScanHealthy ==
  ASSUME HealthyInv, ReplyInv, NoFailure, Scan
  PROVE  HealthyInv'
<1> USE DEF HealthyInv, flagVars, stateVars, packVars, queueVars, netVars, releaseVars
<1> DEFINE pk == m_pendingPackList[check.it]
           t == Dest[pk]
<1>30. /\ check.pc = "scan" /\ check.it \in Place /\ pk \in Pack /\ Listed(pk) /\ t \in Sock
  BY CheckFacts, Facts DEF Scan, Listed
<1>31. adoPc[pk] \in {"pushed", "given"} /\ t \in m_sockmap
  BY <1>30, Facts DEF ReplyInv, Unqueued, Known
<1>20. /\ check'.pc = IF t \in netSendBusy THEN "clear" ELSE "mark"
       /\ check'.it = check.it /\ check'.out = "skip" /\ ItemSock' = t
       /\ UNCHANGED <<m_pendingPackList, dropped>>
  BY <1>30, <1>31, CheckFacts DEF Scan, CheckType, CheckPc, ItemSock
<1> HIDE DEF pk, t
<1>21. \A v \in Worker, c \in Sock : AtSent(v, c)' <=> AtSent(v, c)
  BY DEF AtSent, Scan
<1>22. Buf' = Buf /\ Done' = Done
  BY DEF Buf, Done, Scan
<1>1. Outs'
  BY DEF Scan, Outs
<1>2. Calm'
  BY <1>20, Facts DEF Scan, Calm, Known, ItemSock, Moves
<1>3. Known'
  BY <1>20, <1>31, Facts DEF Scan, Known
<1>4. Sends'
  BY <1>20, <1>21, Facts, CheckFacts DEF Sends, ItemSock, Scan
<1>5. Counted'
  BY <1>22 DEF Counted, Scan
<1>6. Somewhere'
  <2>1. UNCHANGED <<m_pendingPackList, Senddatapack, sent>> /\ dropped \subseteq dropped'
    BY <1>20 DEF Scan
  <2>2. \A j \in Pack : Waiting(j) => Waiting(j)'
    BY <1>20, <2>1 DEF Scan, Waiting, Place
  <2>3. \A j \in Pack : adoPc'[j] \in {"pushed", "given"} =>
          adoPc[j] \in {"pushed", "given"} \/ j \in dropped'
    BY Facts DEF Scan, AdoGoto
  <2> QED
    BY <2>1, <2>2, <2>3, SomewhereStays
<1>7. Token'
  <2>1. t \in netSendBusy => t \in Buf
    BY <1>30 DEF Sends, Buf
  <2>2. Due => Due'
    BY <1>22 DEF Due, Scan
  <2>3. t \in netSendBusy => Due
    BY <2>1 DEF Due
  <2> QED
    BY <1>20, <1>30, <2>2, <2>3 DEF Token
<1> QED
  BY <1>1, <1>2, <1>3, <1>4, <1>5, <1>6, <1>7

LEMMA ScanEndsHealthy ==
  ASSUME HealthyInv, ReplyInv, NoFailure, ScanEnds
  PROVE  HealthyInv'
<1> USE DEF HealthyInv, flagVars, stateVars, packVars, queueVars, netVars, releaseVars
<1>20. /\ check.pc = "scan" /\ check.it > Len(m_pendingPackList)
       /\ check' = IdleCheck /\ check'.pc = "wait" /\ check'.it = 1 /\ check'.out # "fail"
       /\ (m_pendingPackList # <<>> => check.it # 1)
  BY CheckFacts DEF ScanEnds, CheckEnds, IdleCheck, CheckType
<1>21. \A v \in Worker, c \in Sock : AtSent(v, c)' <=> AtSent(v, c)
  BY DEF AtSent, ScanEnds
<1>22. Buf' = Buf /\ Done' = Done
  BY DEF Buf, Done, ScanEnds
<1>1. Outs'
  BY DEF ScanEnds, Outs
<1>2. Calm'
  BY <1>20, Facts DEF ScanEnds, Calm, Known, ItemSock, Moves
<1>3. Known'
  BY <1>20, Facts DEF ScanEnds, Known, ItemSock, Moves
<1>4. Sends'
  BY <1>20, Facts DEF ScanEnds, Sends, ItemSock, AtSent, Moves
<1>5. Counted'
  BY <1>22 DEF Counted, ScanEnds
<1>6. Somewhere'
  <2>1. UNCHANGED <<m_pendingPackList, Senddatapack, sent>> /\ dropped \subseteq dropped'
    BY <1>20 DEF ScanEnds
  <2>2. \A j \in Pack : Waiting(j) => Waiting(j)'
    BY <1>20, <2>1 DEF ScanEnds, Waiting, Place
  <2>3. \A j \in Pack : adoPc'[j] \in {"pushed", "given"} =>
          adoPc[j] \in {"pushed", "given"} \/ j \in dropped'
    BY Facts DEF ScanEnds, AdoGoto
  <2> QED
    BY <2>1, <2>2, <2>3, SomewhereStays
<1>7. Token'
  BY <1>20, <1>22, Facts, CheckFacts DEF Token, Due, AdoGoto, ScanEnds
<1> QED
  BY <1>1, <1>2, <1>3, <1>4, <1>5, <1>6, <1>7

LEMMA MarkBusyHealthy ==
  ASSUME HealthyInv, ReplyInv, NoFailure, MarkBusy
  PROVE  HealthyInv'
<1> USE DEF HealthyInv, flagVars, stateVars, packVars, queueVars, netVars, releaseVars
<1>20. /\ check.pc = "mark" /\ check'.pc = "send"
       /\ check'.it = check.it /\ check'.out = check.out /\ ItemSock' = ItemSock
  BY CheckFacts DEF MarkBusy, CheckGoto, CheckType, CheckPc, ItemSock
<1>21. \A v \in Worker, c \in Sock : AtSent(v, c)' <=> AtSent(v, c)
  BY DEF AtSent, MarkBusy
<1>22. Buf' = Buf /\ Done' = Done
  BY DEF Buf, Done, MarkBusy
<1>1. Outs'
  BY DEF MarkBusy, Touch, ItemSock, Outs
<1>2. Calm'
  BY <1>20, Facts DEF MarkBusy, Touch, ItemSock, Calm, Known, Moves
<1>3. Known'
  BY <1>20, Facts DEF MarkBusy, Touch, ItemSock, Known, Moves
<1>4. Sends'
  BY <1>20, <1>21, Facts, CheckFacts DEF Sends, ItemSock, MarkBusy
<1>5. Counted'
  BY <1>22 DEF Counted, MarkBusy
<1>6. Somewhere'
  <2>1. UNCHANGED <<m_pendingPackList, Senddatapack, sent>> /\ dropped \subseteq dropped'
    BY <1>20 DEF MarkBusy
  <2>2. \A j \in Pack : Waiting(j) => Waiting(j)'
    BY <1>20, <2>1 DEF MarkBusy, Waiting, Place
  <2>3. \A j \in Pack : adoPc'[j] \in {"pushed", "given"} =>
          adoPc[j] \in {"pushed", "given"} \/ j \in dropped'
    BY Facts DEF MarkBusy, AdoGoto
  <2> QED
    BY <2>1, <2>2, <2>3, SomewhereStays
<1>7. Token'
  BY <1>20, <1>22, Facts, CheckFacts DEF Token, Due, AdoGoto, MarkBusy
<1> QED
  BY <1>1, <1>2, <1>3, <1>4, <1>5, <1>6, <1>7

LEMMA SendPackHealthy ==
  ASSUME HealthyInv, ReplyInv, NoFailure, SendPack
  PROVE  HealthyInv'
<1> USE DEF HealthyInv, flagVars, stateVars, packVars, queueVars, netVars, releaseVars
<1>30. /\ check.pc = "send" /\ ItemSock \in m_sockmap /\ ItemSock \in Sock /\ check.pack \in Pack
       /\ Senddatapack[ItemSock] = None /\ ItemSock \in netSendBusy
  BY CheckFacts DEF SendPack, Known, Sends
<1>31. ~SendFails(ItemSock)
  BY <1>30 DEF SendFails, Calm
<1>20. /\ check'.pc = "erase" /\ check'.it = check.it /\ check'.out = "ok" /\ ItemSock' = ItemSock
       /\ check'.pack = check.pack /\ PostSend(ItemSock)
       /\ Senddatapack' = [Senddatapack EXCEPT ![ItemSock] = check.pack]
       /\ m_lSend' = m_lSend + 1 /\ UNCHANGED <<bClose, dropped>>
  BY <1>30, <1>31, CheckFacts DEF SendPack, CheckType, CheckPc, ItemSock
<1> DEFINE c == ItemSock
<1> HIDE DEF c
<1>21. \A v \in Worker, t \in Sock : AtSent(v, t)' <=> AtSent(v, t)
  BY DEF AtSent, SendPack
<1>22. Buf' = Buf \cup {c} /\ c \notin Buf /\ Done' = Done /\ c \in Sock
  BY <1>20, <1>30, Facts DEF Buf, Done, SendPack, c
<1>23. /\ \A t \in Sock : sendPosted[t] \in Nat /\ sendDone[t] \in Nat
       /\ sendPosted'[c] = sendPosted[c] + 1 /\ UNCHANGED sendDone
       /\ \A t \in Sock : t # c => sendPosted'[t] = sendPosted[t]
  BY <1>20, <1>30, Facts DEF PostSend, c
<1>24. \A v \in Worker : ~AtSent(v, c)
  BY <1>30 DEF Sends, c
<1>25. sendPosted[c] + sendDone[c] = 0
  BY <1>23, <1>30 DEF Sends, c
<1>1. Outs'
  BY DEF SendPack, Touch, FreePack, SendFails, PostSend, ItemSock, Outs
<1>2. Calm'
  BY <1>20, <1>30, Facts DEF SendPack, Touch, PostSend, Calm, Known
<1>3. Known'
  BY <1>20, Facts DEF SendPack, Touch, FreePack, SendFails, PostSend, ItemSock, Known, Moves
<1>4. Sends'
  <2>1. sendPosted'[c] + sendDone'[c] = 1
    BY <1>22, <1>23, <1>25
  <2>2. \A t \in Sock : t # c => sendPosted'[t] + sendDone'[t] = sendPosted[t] + sendDone[t]
    BY <1>23
  <2>3. \A t \in Sock : Senddatapack'[t] = IF t = c THEN check.pack ELSE Senddatapack[t]
    BY <1>20, <1>30, Facts DEF c
  <2>4. UNCHANGED netSendBusy /\ c \in netSendBusy /\ check.pack # None /\ check.pc = "send"
    BY <1>30, Facts DEF SendPack, stateVars, c
  <2>5. \A t \in netSendBusy : t \in Sock
    BY Facts
  <2>6. \A t \in netSendBusy : Senddatapack'[t] # None
    BY <2>3, <2>4, <2>5 DEF Sends, c
  <2> QED
    BY <1>20, <1>21, <1>22, <1>24, <2>1, <2>2, <2>3, <2>4, <2>6 DEF Sends
<1>5. Counted'
  <2>1. IsFiniteSet(Buf') /\ Cardinality(Buf') = Cardinality(Buf) + 1
    BY <1>22, FS_AddElement DEF Counted
  <2>2. Cardinality(Done) \in Nat /\ Cardinality(Buf) \in Nat
    BY FS_CardinalityType DEF Counted
  <2> QED
    BY <1>20, <1>22, <2>1, <2>2 DEF Counted
<1>6. Somewhere'
  <2>1. \A t \in Sock : Senddatapack'[t] = IF t = c THEN check.pack ELSE Senddatapack[t]
    BY <1>20, <1>30, Facts DEF c
  <2>2. Senddatapack[c] = None
    BY <1>30 DEF c
  <2>3. \A k \in Pack : InBuffer(k) \/ k = check.pack => InBuffer(k)'
    BY <1>22, <2>1, <2>2, Facts DEF InBuffer
  <2>4. \A k \in Pack : Waiting(k) => Waiting(k)' \/ k = check.pack
    BY <1>20 DEF Waiting, Place, SendPack, ReplyInv, CheckOK, AtPc
  <2> QED
    BY <1>20, <2>3, <2>4 DEF Somewhere, SendPack, Gone
<1>7. Token'
  BY <1>20, <1>22 DEF Token, Due
<1> QED
  BY <1>1, <1>2, <1>3, <1>4, <1>5, <1>6, <1>7

LEMMA EraseSentHealthy ==
  ASSUME HealthyInv, ReplyInv, NoFailure, EraseSent
  PROVE  HealthyInv'
<1> USE DEF HealthyInv, flagVars, stateVars, packVars, queueVars, netVars, releaseVars
<1>20. /\ check.pc = "erase" /\ check'.pc = "clear"
       /\ check'.it = check.it /\ check'.out = check.out /\ ItemSock' = ItemSock
  BY CheckFacts DEF EraseSent, CheckGoto, CheckType, CheckPc, ItemSock
<1>21. \A v \in Worker, c \in Sock : AtSent(v, c)' <=> AtSent(v, c)
  BY DEF AtSent, EraseSent
<1>22. Buf' = Buf /\ Done' = Done
  BY DEF Buf, Done, EraseSent
<1>1. Outs'
  BY DEF EraseSent, Outs
<1>2. Calm'
  BY <1>20, Facts DEF EraseSent, Calm, Known, ItemSock, Moves
<1>3. Known'
  BY <1>20, Facts DEF EraseSent, Known, ItemSock, Moves
<1>4. Sends'
  BY <1>20, <1>21, Facts, CheckFacts DEF Sends, ItemSock, EraseSent
<1>5. Counted'
  BY <1>22 DEF Counted, EraseSent
<1>6. Somewhere'
  <2>1. /\ check.it \in Place /\ check.pc = "erase"
    BY DEF ReplyInv, EraseSent, CheckOK, CheckType, AtPc, Place, ListOK
  <2>2. /\ \A k : Listed(k)' <=> Listed(k) /\ k # m_pendingPackList[check.it]
        /\ \A i, j \in Place : m_pendingPackList[i] = m_pendingPackList[j] => i = j
    BY <2>1, ErasedItem DEF EraseSent, ReplyInv, Buffers
  <2>3. \A k : Waiting(k)' <=> Listed(k)'
    BY <1>20 DEF Waiting, Listed
  <2>4. \A k : Waiting(k) => Listed(k) /\ k # m_pendingPackList[check.it]
    BY <2>1, <2>2 DEF Waiting, Listed
  <2>5. \A k : (InBuffer(k)' <=> InBuffer(k)) /\ (Gone(k)' <=> Gone(k))
    BY DEF InBuffer, Gone, EraseSent
  <2> QED
    BY <2>2, <2>3, <2>4, <2>5 DEF Somewhere, EraseSent
<1>7. Token'
  <2>1. m_pendingPackList # <<>>
    BY CheckFacts DEF ReplyInv, EraseSent, CheckOK, CheckType, AtPc
  <2> QED
    BY <1>20, <1>22, <2>1, Facts, CheckFacts DEF Token, Due, EraseSent
<1> QED
  BY <1>1, <1>2, <1>3, <1>4, <1>5, <1>6, <1>7

LEMMA ClearMarkHealthy ==
  ASSUME HealthyInv, ReplyInv, NoFailure, ClearMark
  PROVE  HealthyInv'
<1> USE DEF HealthyInv, flagVars, stateVars, packVars, queueVars, netVars, releaseVars
<1>20. /\ check.pc = "clear" /\ check'.pc = "look"
       /\ check'.it = check.it /\ check'.out = check.out /\ ItemSock' = ItemSock
  BY CheckFacts DEF ClearMark, CheckGoto, CheckType, CheckPc, ItemSock
<1>21. \A v \in Worker, c \in Sock : AtSent(v, c)' <=> AtSent(v, c)
  BY DEF AtSent, ClearMark
<1>22. Buf' = Buf /\ Done' = Done
  BY DEF Buf, Done, ClearMark
<1>1. Outs'
  BY DEF ClearMark, Touch, ItemSock, Outs
<1>2. Calm'
  BY <1>20, Facts DEF ClearMark, Touch, ItemSock, Calm, Known, Moves
<1>3. Known'
  BY <1>20, Facts DEF ClearMark, Touch, ItemSock, Known, Moves
<1>4. Sends'
  BY <1>20, <1>21, Facts, CheckFacts DEF Sends, ItemSock, ClearMark, Calm
<1>5. Counted'
  BY <1>22 DEF Counted, ClearMark
<1>6. Somewhere'
  <2>1. UNCHANGED <<m_pendingPackList, Senddatapack, sent>> /\ dropped \subseteq dropped'
    BY <1>20 DEF ClearMark
  <2>2. \A j \in Pack : Waiting(j) => Waiting(j)'
    BY <1>20, <2>1 DEF ClearMark, Waiting, Place
  <2>3. \A j \in Pack : adoPc'[j] \in {"pushed", "given"} =>
          adoPc[j] \in {"pushed", "given"} \/ j \in dropped'
    BY Facts DEF ClearMark, AdoGoto
  <2> QED
    BY <2>1, <2>2, <2>3, SomewhereStays
<1>7. Token'
  BY <1>20, <1>22, Facts, CheckFacts DEF Token, Due, AdoGoto, ClearMark
<1> QED
  BY <1>1, <1>2, <1>3, <1>4, <1>5, <1>6, <1>7

LEMMA LookNeedCloseHealthy ==
  ASSUME HealthyInv, ReplyInv, NoFailure, LookNeedClose
  PROVE  HealthyInv'
<1> USE DEF HealthyInv, flagVars, stateVars, packVars, queueVars, netVars, releaseVars
<1>20. /\ check.pc = "look" /\ check'.out # "fail"
       /\ \/ check'.pc = "wait" /\ check'.it = 1
          \/ check'.pc = "scan" /\ check'.it # 1
  <2>1. check.pc = "look" /\ NextItem /\ check.out \in {"ok", "skip"}
    BY CheckFacts DEF LookNeedClose, Calm, CheckType
  <2>2. CASE check.out = "ok"
    BY <2>1, <2>2 DEF NextItem, CheckEnds, IdleCheck
  <2>3. CASE check.out = "skip"
    <3>1. check' = [check EXCEPT !.pc = "scan", !.it = check.it + 1]
      BY <2>1, <2>3 DEF NextItem
    <3>2. check.it + 1 # 1
      BY CheckFacts DEF CheckType
    <3> QED
      BY <2>1, <3>1, <3>2, CheckFacts DEF Calm, CheckType
  <2> QED
    BY <2>1, <2>2, <2>3
<1>21. \A v \in Worker, c \in Sock : AtSent(v, c)' <=> AtSent(v, c)
  BY DEF AtSent, LookNeedClose
<1>22. Buf' = Buf /\ Done' = Done
  BY DEF Buf, Done, LookNeedClose
<1>1. Outs'
  BY DEF LookNeedClose, Touch, ItemSock, Outs
<1>2. Calm'
  BY <1>20, Facts DEF LookNeedClose, Touch, ItemSock, Calm, Known, Moves
<1>3. Known'
  BY <1>20, Facts DEF LookNeedClose, Touch, ItemSock, Known, Moves
<1>4. Sends'
  BY <1>20, <1>21, Facts, CheckFacts DEF Sends, ItemSock, LookNeedClose
<1>5. Counted'
  BY <1>22 DEF Counted, LookNeedClose
<1>6. Somewhere'
  <2>1. UNCHANGED <<m_pendingPackList, Senddatapack, sent>> /\ dropped \subseteq dropped'
    BY <1>20 DEF LookNeedClose
  <2>2. \A j \in Pack : Waiting(j) => Waiting(j)'
    BY <1>20, <2>1 DEF LookNeedClose, Waiting, Place
  <2>3. \A j \in Pack : adoPc'[j] \in {"pushed", "given"} =>
          adoPc[j] \in {"pushed", "given"} \/ j \in dropped'
    BY Facts DEF LookNeedClose, AdoGoto
  <2> QED
    BY <2>1, <2>2, <2>3, SomewhereStays
<1>7. Token'
  BY <1>20, <1>22, Facts, CheckFacts DEF Token, Due, AdoGoto, LookNeedClose
<1> QED
  BY <1>1, <1>2, <1>3, <1>4, <1>5, <1>6, <1>7

LEMMA NoReplyHealthy ==
  ASSUME HealthyInv, ReplyInv, NoFailure, NEW k \in Pack, NoReply(k)
  PROVE  HealthyInv'
<1> USE DEF HealthyInv, flagVars, stateVars, packVars, queueVars, netVars, releaseVars
<1>20. TRUE
  OBVIOUS
<1>21. \A v \in Worker, c \in Sock : AtSent(v, c)' <=> AtSent(v, c)
  BY DEF AtSent, NoReply
<1>22. Buf' = Buf /\ Done' = Done
  BY DEF Buf, Done, NoReply
<1>1. Calm' /\ Outs' /\ Sends'
  BY DEF NoReply, AdoGoto, Calm, Outs, Sends, ItemSock, AtSent
<1>2. Known'
  BY <1>20, Facts DEF NoReply, AdoGoto, Known, ItemSock, Moves
<1>3. Counted'
  BY <1>22 DEF Counted, NoReply
<1>4. Somewhere'
  <2>1. UNCHANGED <<m_pendingPackList, Senddatapack, sent>> /\ dropped \subseteq dropped'
    BY <1>20 DEF NoReply
  <2>2. \A j \in Pack : Waiting(j) => Waiting(j)'
    BY <1>20, <2>1 DEF NoReply, Waiting, Place
  <2>3. \A j \in Pack : adoPc'[j] \in {"pushed", "given"} =>
          adoPc[j] \in {"pushed", "given"} \/ j \in dropped'
    BY Facts DEF NoReply, AdoGoto
  <2> QED
    BY <2>1, <2>2, <2>3, SomewhereStays
<1>5. Token'
  BY <1>20, <1>22, Facts, CheckFacts DEF Token, Due, AdoGoto, NoReply
<1> QED
  BY <1>1, <1>2, <1>3, <1>4, <1>5

LEMMA AdoFindHealthy ==
  ASSUME HealthyInv, ReplyInv, NoFailure, NEW k \in Pack, AdoFind(k)
  PROVE  HealthyInv'
<1> USE DEF HealthyInv, flagVars, stateVars, packVars, queueVars, netVars, releaseVars
<1>20. TRUE
  OBVIOUS
<1>21. \A v \in Worker, c \in Sock : AtSent(v, c)' <=> AtSent(v, c)
  BY DEF AtSent, AdoFind
<1>22. Buf' = Buf /\ Done' = Done
  BY DEF Buf, Done, AdoFind
<1>1. Calm' /\ Outs' /\ Sends'
  BY DEF AdoFind, AdoGoto, Calm, Outs, Sends, ItemSock, AtSent
<1>2. Known'
  BY <1>20, Facts DEF AdoFind, AdoGoto, Known, ItemSock, Moves
<1>3. Counted'
  BY <1>22 DEF Counted, AdoFind
<1>4. Somewhere'
  <2>1. UNCHANGED <<m_pendingPackList, Senddatapack, sent>> /\ dropped \subseteq dropped'
    BY <1>20 DEF AdoFind
  <2>2. \A j \in Pack : Waiting(j) => Waiting(j)'
    BY <1>20, <2>1 DEF AdoFind, Waiting, Place
  <2>3. \A j \in Pack : adoPc'[j] \in {"pushed", "given"} =>
          adoPc[j] \in {"pushed", "given"} \/ j \in dropped'
    BY Facts DEF AdoFind, AdoGoto
  <2> QED
    BY <2>1, <2>2, <2>3, SomewhereStays
<1>5. Token'
  BY <1>20, <1>22, Facts, CheckFacts DEF Token, Due, AdoGoto, AdoFind
<1> QED
  BY <1>1, <1>2, <1>3, <1>4, <1>5

LEMMA AdoPushHealthy ==
  ASSUME HealthyInv, ReplyInv, NoFailure, NEW k \in Pack, AdoPush(k)
  PROVE  HealthyInv'
<1> USE DEF HealthyInv, flagVars, stateVars, packVars, queueVars, netVars, releaseVars
<1>20. TRUE
  OBVIOUS
<1>21. \A v \in Worker, c \in Sock : AtSent(v, c)' <=> AtSent(v, c)
  BY DEF AtSent, AdoPush
<1>22. Buf' = Buf /\ Done' = Done
  BY DEF Buf, Done, AdoPush
<1>1. Calm' /\ Outs' /\ Sends'
  BY DEF AdoPush, AdoGoto, Calm, Outs, Sends, ItemSock, AtSent
<1>2. Known'
  BY <1>20, Facts DEF AdoPush, AdoGoto, Known, ItemSock, Moves
<1>3. Counted'
  BY <1>22 DEF Counted, AdoPush
<1>4. Somewhere'
  <2>1. /\ Len(m_pendingPackList) \in Nat /\ Len(m_pendingPackList') = Len(m_pendingPackList) + 1
        /\ m_pendingPackList'[Len(m_pendingPackList) + 1] = k
        /\ \A i \in 1..Len(m_pendingPackList) : m_pendingPackList'[i] = m_pendingPackList[i]
    BY CheckFacts, Grown DEF AdoPush
  <2>2. Place \subseteq Place' /\ Len(m_pendingPackList) + 1 \in Place'
    BY <2>1 DEF Place
  <2>3. \A j \in Pack : Waiting(j) => Waiting(j)'
    BY <2>1, <2>2 DEF Waiting, AdoPush, Place
  <2>4. Waiting(k)'
    <3>1. ~(check.pc = "erase" /\ Len(m_pendingPackList) + 1 = check.it)
      BY <2>1 DEF ReplyInv, CheckOK, CheckType, AtPc
    <3> QED
      BY <2>1, <2>2, <3>1 DEF Waiting, AdoPush
  <2>5. \A j : (InBuffer(j)' <=> InBuffer(j)) /\ (Gone(j)' <=> Gone(j))
    BY DEF InBuffer, Gone, AdoPush
  <2>6. \A j \in Pack : adoPc'[j] \in {"pushed", "given"} => j = k \/ adoPc[j] \in {"pushed", "given"}
    BY Facts DEF AdoPush, AdoGoto
  <2> QED
    BY <2>3, <2>4, <2>5, <2>6 DEF Somewhere, AdoPush
<1>5. Token'
  BY <1>20, <1>22, Facts, CheckFacts DEF Token, Due, AdoGoto, AdoPush
<1> QED
  BY <1>1, <1>2, <1>3, <1>4, <1>5

LEMMA AdoSignalHealthy ==
  ASSUME HealthyInv, ReplyInv, NoFailure, NEW k \in Pack, AdoSignal(k)
  PROVE  HealthyInv'
<1> USE DEF HealthyInv, flagVars, stateVars, packVars, queueVars, netVars, releaseVars
<1>20. TRUE
  OBVIOUS
<1>21. \A v \in Worker, c \in Sock : AtSent(v, c)' <=> AtSent(v, c)
  BY DEF AtSent, AdoSignal
<1>22. Buf' = Buf /\ Done' = Done
  BY DEF Buf, Done, AdoSignal
<1>1. Calm' /\ Outs' /\ Sends'
  BY DEF AdoSignal, AdoGoto, Calm, Outs, Sends, ItemSock, AtSent
<1>2. Known'
  BY <1>20, Facts DEF AdoSignal, AdoGoto, Known, ItemSock, Moves
<1>3. Counted'
  BY <1>22 DEF Counted, AdoSignal
<1>4. Somewhere'
  <2>1. UNCHANGED <<m_pendingPackList, Senddatapack, sent>> /\ dropped \subseteq dropped'
    BY <1>20 DEF AdoSignal
  <2>2. \A j \in Pack : Waiting(j) => Waiting(j)'
    BY <1>20, <2>1 DEF AdoSignal, Waiting, Place
  <2>3. \A j \in Pack : adoPc'[j] \in {"pushed", "given"} =>
          adoPc[j] \in {"pushed", "given"} \/ j \in dropped'
    BY Facts DEF AdoSignal, AdoGoto
  <2> QED
    BY <2>1, <2>2, <2>3, SomewhereStays
<1>5. Token'
  BY <1>20, <1>22, Facts, CheckFacts DEF Token, Due, AdoGoto, AdoSignal
<1> QED
  BY <1>1, <1>2, <1>3, <1>4, <1>5

LEMMA ArriveHealthy ==
  ASSUME HealthyInv, ReplyInv, NoFailure, NEW k \in Pack, Arrive(k)
  PROVE  HealthyInv'
<1> USE DEF HealthyInv, flagVars, stateVars, packVars, queueVars, netVars, releaseVars
<1>20. TRUE
  OBVIOUS
<1>21. \A v \in Worker, c \in Sock : AtSent(v, c)' <=> AtSent(v, c)
  BY DEF AtSent, Arrive, Outside
<1>22. Buf' = Buf /\ Done' = Done
  BY DEF Buf, Done, Arrive, Outside
<1>1. Calm' /\ Outs' /\ Sends'
  BY DEF Arrive, AdoGoto, Outside, Calm, Outs, Sends, ItemSock, AtSent
<1>2. Known'
  BY <1>20, Facts DEF Arrive, AdoGoto, Outside, Known, ItemSock, Moves
<1>3. Counted'
  BY <1>22 DEF Counted, Arrive, Outside
<1>4. Somewhere'
  <2>1. UNCHANGED <<m_pendingPackList, Senddatapack, sent>> /\ dropped \subseteq dropped'
    BY <1>20 DEF Arrive, Outside
  <2>2. \A j \in Pack : Waiting(j) => Waiting(j)'
    BY <1>20, <2>1 DEF Arrive, Outside, Waiting, Place
  <2>3. \A j \in Pack : adoPc'[j] \in {"pushed", "given"} =>
          adoPc[j] \in {"pushed", "given"} \/ j \in dropped'
    BY Facts DEF Arrive, Outside, AdoGoto
  <2> QED
    BY <2>1, <2>2, <2>3, SomewhereStays
<1>5. Token'
  BY <1>20, <1>22, Facts, CheckFacts DEF Token, Due, AdoGoto, Arrive, Outside
<1> QED
  BY <1>1, <1>2, <1>3, <1>4, <1>5

LEMMA RecvCompletesHealthy ==
  ASSUME HealthyInv, ReplyInv, NoFailure, NEW s \in Sock, RecvCompletes(s)
  PROVE  HealthyInv'
<1> USE DEF HealthyInv, flagVars, stateVars, packVars, queueVars, netVars, releaseVars
<1>20. TRUE
  OBVIOUS
<1>21. \A v \in Worker, c \in Sock : AtSent(v, c)' <=> AtSent(v, c)
  BY DEF AtSent, RecvCompletes, Outside
<1>22. Buf' = Buf /\ Done' = Done
  BY DEF Buf, Done, RecvCompletes, Outside
<1>1. Outs'
  BY DEF RecvCompletes, Inbox, Outside, Outs
<1>2. Calm'
  BY <1>20, Facts DEF RecvCompletes, Inbox, Outside, Calm, Known, ItemSock, Moves
<1>3. Known'
  BY <1>20, Facts DEF RecvCompletes, Inbox, Outside, Known, ItemSock, Moves
<1>4. Sends'
  BY <1>20, <1>21, Facts, CheckFacts DEF Sends, ItemSock, RecvCompletes, Outside
<1>5. Counted'
  BY <1>22 DEF Counted, RecvCompletes, Outside
<1>6. Somewhere'
  <2>1. UNCHANGED <<m_pendingPackList, Senddatapack, sent>> /\ dropped \subseteq dropped'
    BY <1>20 DEF RecvCompletes, Outside
  <2>2. \A j \in Pack : Waiting(j) => Waiting(j)'
    BY <1>20, <2>1 DEF RecvCompletes, Outside, Waiting, Place
  <2>3. \A j \in Pack : adoPc'[j] \in {"pushed", "given"} =>
          adoPc[j] \in {"pushed", "given"} \/ j \in dropped'
    BY Facts DEF RecvCompletes, Outside, AdoGoto
  <2> QED
    BY <2>1, <2>2, <2>3, SomewhereStays
<1>7. Token'
  BY <1>20, <1>22, Facts, CheckFacts DEF Token, Due, AdoGoto, RecvCompletes, Outside
<1> QED
  BY <1>1, <1>2, <1>3, <1>4, <1>5, <1>6, <1>7

LEMMA SendCompletesHealthy ==
  ASSUME HealthyInv, ReplyInv, NoFailure, NEW s \in Sock, SendCompletes(s)
  PROVE  HealthyInv'
<1> USE DEF HealthyInv, flagVars, stateVars, packVars, queueVars, netVars, releaseVars
<1>20. TRUE
  OBVIOUS
<1>21. \A v \in Worker, c \in Sock : AtSent(v, c)' <=> AtSent(v, c)
  BY DEF AtSent, SendCompletes, Outside
<1>22. Buf' = Buf /\ Done' = Done
  BY DEF Buf, Done, SendCompletes, Outside
<1>1. Outs'
  BY DEF SendCompletes, Outside, Outs
<1>2. Calm'
  BY <1>20, Facts DEF SendCompletes, Outside, Calm, Known, ItemSock, Moves
<1>3. Known'
  BY <1>20, Facts DEF SendCompletes, Outside, Known, ItemSock, Moves
<1>4. Sends'
  <2>1. conn[s] = "open" /\ sendPosted[s] > 0
    BY Facts DEF SendCompletes, Known, Calm
  <2>2. /\ \A t \in Sock : sendPosted[t] \in Nat /\ sendDone[t] \in Nat
        /\ sendPosted'[s] = sendPosted[s] - 1 /\ sendDone'[s] = sendDone[s] + 1
        /\ \A t \in Sock : t # s => sendPosted'[t] = sendPosted[t] /\ sendDone'[t] = sendDone[t]
    BY <2>1, Facts DEF SendCompletes
  <2>3. \A t \in Sock : sendPosted'[t] + sendDone'[t] = sendPosted[t] + sendDone[t]
    BY <2>2
  <2> QED
    BY <1>21, <2>3 DEF Sends, ItemSock, SendCompletes, Outside
<1>5. Counted'
  BY <1>22 DEF Counted, SendCompletes, Outside
<1>6. Somewhere'
  <2>1. UNCHANGED <<m_pendingPackList, Senddatapack, sent>> /\ dropped \subseteq dropped'
    BY <1>20 DEF SendCompletes, Outside
  <2>2. \A j \in Pack : Waiting(j) => Waiting(j)'
    BY <1>20, <2>1 DEF SendCompletes, Outside, Waiting, Place
  <2>3. \A j \in Pack : adoPc'[j] \in {"pushed", "given"} =>
          adoPc[j] \in {"pushed", "given"} \/ j \in dropped'
    BY Facts DEF SendCompletes, Outside, AdoGoto
  <2> QED
    BY <2>1, <2>2, <2>3, SomewhereStays
<1>7. Token'
  BY <1>20, <1>22, Facts, CheckFacts DEF Token, Due, AdoGoto, SendCompletes, Outside
<1> QED
  BY <1>1, <1>2, <1>3, <1>4, <1>5, <1>6, <1>7

-----------------------------------------------------------------------------
(* The steps that no longer happen.                                        *)

LEMMA NoRelease ==
  ASSUME HealthyInv, ReplyInv, NoFailure, NEW w \in Worker
  PROVE  ~WorkRelease(w) /\ ~Drop(w) /\ ~CloseAfterFailure(w) /\ ~CheckRelease
  BY DEF HealthyInv, Calm, WorkRelease, Drop, CloseAfterFailure, CheckRelease

LEMMA NoFailedWait ==
  ASSUME HealthyInv, ReplyInv, NoFailure, NEW w \in Worker, NEW s \in Sock
  PROVE  ~DequeueFailed(w, s) /\ ~Ignore(w, s)
  BY Facts DEF HealthyInv, Calm, Known, DequeueFailed, Ignore, TakeRecv, TakeSend, TakeFailedSend

LEMMA NobodyGone ==
  ASSUME NoFailure, NEW s \in Sock
  PROVE  ~TimeOut(s) /\ ~PeerGone(s)
  BY DEF NoFailure, TimeOut, PeerGone

-----------------------------------------------------------------------------
(* The invariant, and what it says.                                        *)

LEMMA HealthyStart == Init => HealthyInv
<1> SUFFICES ASSUME Init PROVE HealthyInv
  OBVIOUS
<1>1. Calm /\ Outs
  BY DEF Init, Calm, Outs, IdleWork, IdleCheck
<1>2. Known
  BY DEF Init, Known, IdleWork, IdleCheck
<1>3. Buf = {} /\ Done = {}
  BY DEF Init, Buf, Done, IdleWork
<1>4. Counted
  BY <1>3, FS_EmptySet DEF Init, Counted
<1>5. Sends
  BY DEF Init, Sends, AtSent, IdleWork, IdleCheck
<1>6. Somewhere /\ Token
  BY DEF Init, Somewhere, Token, IdleCheck
<1> QED
  BY <1>1, <1>2, <1>4, <1>5, <1>6 DEF HealthyInv

LEMMA HealthyStutter == HealthyInv /\ UNCHANGED vars => HealthyInv'
<1> SUFFICES ASSUME HealthyInv, UNCHANGED vars PROVE HealthyInv'
  OBVIOUS
<1> USE DEF HealthyInv, vars, flagVars, stateVars, packVars, queueVars, netVars
<1>1. Calm' /\ Outs' /\ Known'
  BY DEF Calm, Outs, Known, ItemSock
<1>2. Sends'
  BY DEF Sends, AtSent, ItemSock
<1>3. Buf' = Buf /\ Done' = Done
  BY DEF Buf, Done
<1>4. Counted' /\ Token'
  BY <1>3 DEF Counted, Token, Due
<1>5. Somewhere'
  BY DEF Somewhere, Waiting, InBuffer, Gone, Place
<1> QED
  BY <1>1, <1>2, <1>4, <1>5

LEMMA HealthyStep == NoFailure /\ ReplyInv /\ HealthyInv /\ [Next]_vars => HealthyInv'
<1> SUFFICES ASSUME NoFailure, ReplyInv, HealthyInv, [Next]_vars PROVE HealthyInv'
  OBVIOUS
<1>1. ASSUME NEW w \in Worker, WorkStep(w) PROVE HealthyInv'
  BY <1>1, NoRelease, NoFailedWait, AcceptPostHealthy, ReceiveHealthy, RepostHealthy,
     RecvIdleHealthy, SentHealthy, MarkPendingHealthy, UnmarkHealthy, DecideHealthy,
     CreditHealthy, DequeueRecvHealthy, DequeueSendHealthy DEF WorkStep
<1>2. ASSUME NEW w \in Worker, NEW s \in Sock, Accept(w, s) PROVE HealthyInv'
  BY <1>2, AcceptHealthy
<1>3. CASE CheckStep
  <2>1. ~CheckRelease
    BY DEF HealthyInv, Calm, CheckRelease
  <2> QED
    BY <1>3, <2>1, WakeCheckHealthy, BeginCheckHealthy, ScanHealthy, ScanEndsHealthy,
       MarkBusyHealthy, SendPackHealthy, EraseSentHealthy, ClearMarkHealthy,
       LookNeedCloseHealthy DEF CheckStep
<1>4. ASSUME NEW k \in Pack, AdoStep(k) \/ Arrive(k) PROVE HealthyInv'
  BY <1>4, NoReplyHealthy, AdoFindHealthy, AdoPushHealthy, AdoSignalHealthy, ArriveHealthy DEF AdoStep
<1>5. ASSUME NEW s \in Sock, IoStep(s) \/ TimeOut(s) \/ PeerGone(s) PROVE HealthyInv'
  BY <1>5, NobodyGone, RecvCompletesHealthy, SendCompletesHealthy DEF IoStep
<1>6. CASE Quiescent \/ UNCHANGED vars
  BY <1>6, HealthyStutter DEF Quiescent
<1> QED
  BY <1>1, <1>2, <1>3, <1>4, <1>5, <1>6 DEF Next

\* While no connection fails, every reachable state satisfies the invariant.
THEOREM HealthyInvariant == ASSUME NoFailure PROVE Spec => [](ReplyInv /\ HealthyInv)
<1>1. Init => ReplyInv /\ HealthyInv
  BY ReplyStart, HealthyStart
<1>2. ReplyInv /\ HealthyInv /\ [Next]_vars => (ReplyInv /\ HealthyInv)'
  BY NoFailure, ReplyStep, HealthyStep
<1> QED
  BY <1>1, <1>2, PTL DEF Spec

\* A set without two elements.
LEMMA AtMostOne ==
  ASSUME NEW S, \A x, y \in S : x = y
  PROVE  Cardinality(S) \in {0, 1} /\ IsFiniteSet(S) /\ (S # {} => Cardinality(S) = 1)
<1>1. CASE S = {}
  BY <1>1, FS_EmptySet
<1>2. CASE S # {}
  <2>1. PICK x : x \in S
    BY <1>2
  <2>2. S = {x}
    BY <2>1
  <2> QED
    BY <1>2, <2>2, FS_Singleton
<1> QED
  BY <1>1, <1>2

\* A connection that is sending is not sent to at the same time.
THEOREM OneSendHolds == ASSUME NoFailure PROVE Spec => []OneSend
<1>1. ReplyInv /\ HealthyInv => OneSend
  <2> SUFFICES ASSUME ReplyInv, HealthyInv, NEW s \in Sock
               PROVE  sendPosted[s] + sendDone[s] + sendFailed[s]
                      + Cardinality({w \in Worker : work[w].pc = "sent" /\ work[w].sock = s}) <= 1
    BY DEF OneSend
  <2> DEFINE W == {w \in Worker : work[w].pc = "sent" /\ work[w].sock = s}
  <2>1. sendFailed[s] = 0 /\ sendPosted[s] \in Nat /\ sendDone[s] \in Nat
    BY Facts DEF HealthyInv, Calm
  <2>2. \A v, w \in W : v = w
    BY DEF HealthyInv, Sends, AtSent
  <2>3. sendPosted[s] + sendDone[s] <= 1 /\ (W # {} => sendPosted[s] + sendDone[s] = 0)
    BY DEF HealthyInv, Sends, AtSent
  <2> HIDE DEF W
  <2>4. CASE W = {}
    <3>1. Cardinality(W) = 0
      BY <2>4, FS_EmptySet
    <3> QED
      BY <2>1, <2>3, <3>1 DEF W
  <2>5. CASE W # {}
    <3>1. Cardinality(W) = 1
      BY <2>2, <2>5, AtMostOne
    <3>2. sendPosted[s] + sendDone[s] = 0
      BY <2>3, <2>5
    <3> QED
      BY <2>1, <3>1, <3>2 DEF W
  <2> QED
    BY <2>4, <2>5
<1> QED
  BY <1>1, HealthyInvariant, NoFailure, PTL

\* m_lSend counts the packs that are being sent.
THEOREM SendCountHolds == ASSUME NoFailure PROVE Spec => []SendCountExact
<1>1. HealthyInv => SendCountExact
  BY DEF HealthyInv, Counted, Buf, Done, SendCountExact
<1> QED
  BY <1>1, HealthyInvariant, NoFailure, PTL

\* A reply that SendAdo has queued is in one place: neither leaked nor sent twice.
THEOREM ReplyConservedHolds == ASSUME NoFailure PROVE Spec => []ReplyConserved
<1>1. ReplyInv /\ HealthyInv => ReplyConserved
  <2> SUFFICES ASSUME ReplyInv, HealthyInv, NEW k \in Pack, adoPc[k] \in {"pushed", "given"}
               PROVE  ReplyPlaces(k) = 1
    BY DEF ReplyConserved
  <2> DEFINE A == {i \in 1..Len(m_pendingPackList) :
                     m_pendingPackList[i] = k /\ ~(check.pc = "erase" /\ i = check.it)}
             B == {s \in Sock : Senddatapack[s] = k}
             C == {i \in 1..Len(sent) : sent[i] = k}
             D == {k} \cap dropped
  <2>1. \A x, y \in A : x = y
    BY DEF ReplyInv, Buffers, Place
  <2>2. \A x, y \in B : x = y
    <3>1. \A s \in B : Dest[k] = s
      BY Facts DEF ReplyInv, Buffers
    <3> QED
      BY <3>1
  <2>3. \A x, y \in C : x = y
    BY DEF ReplyInv, Apart
  <2>4. \A x, y \in D : x = y
    OBVIOUS
  <2>5. /\ A # {} <=> Waiting(k)
        /\ B # {} <=> InBuffer(k)
        /\ C # {} <=> Gone(k)
        /\ D # {} <=> k \in dropped
    BY DEF Waiting, InBuffer, Gone, Place
  <2>6. ReplyPlaces(k) = Cardinality(A) + Cardinality(B) + Cardinality(C) + Cardinality(D)
    BY DEF ReplyPlaces
  <2> HIDE DEF A, B, C, D
  <2>7. /\ Cardinality(A) = IF Waiting(k) THEN 1 ELSE 0
        /\ Cardinality(B) = IF InBuffer(k) THEN 1 ELSE 0
        /\ Cardinality(C) = IF Gone(k) THEN 1 ELSE 0
        /\ Cardinality(D) = IF k \in dropped THEN 1 ELSE 0
    BY <2>1, <2>2, <2>3, <2>4, <2>5, AtMostOne, FS_EmptySet
  <2>8. Waiting(k) \/ InBuffer(k) \/ Gone(k) \/ k \in dropped
    BY DEF HealthyInv, Somewhere
  <2>9. /\ Waiting(k) => ~InBuffer(k) /\ ~Gone(k) /\ k \notin dropped
        /\ InBuffer(k) => ~Gone(k) /\ k \notin dropped
        /\ Gone(k) => k \notin dropped
    BY DEF ReplyInv, Apart
  <2> QED
    BY <2>6, <2>7, <2>8, <2>9
<1> QED
  BY <1>1, HealthyInvariant, NoFailure, PTL

-----------------------------------------------------------------------------
(* No reply is forgotten.                                                  *)

\* A header cut by the network makes the server give a request up: exclude it too.
WholeReads == Faults \cap {"short"} = {}

LEMMA NothingDropped ==
  NoFailure /\ WholeReads /\ ReplyInv /\ HealthyInv /\ dropped = {} /\ [Next]_vars => dropped' = {}
<1> SUFFICES ASSUME NoFailure, WholeReads, ReplyInv, HealthyInv, dropped = {}, [Next]_vars
             PROVE  dropped' = {}
  OBVIOUS
<1> USE DEF packVars
<1>1. ASSUME NEW w \in Worker, WorkStep(w) PROVE dropped' = {}
  <2>1. CASE Receive(w)
    BY <2>1 DEF Receive, WholeReads
  <2>2. CASE Sent(w)
    <3>1. AtSent(w, work[w].sock) /\ work[w].sock \in Sock /\ conn[work[w].sock] = "open" /\ bClose = {}
      BY <2>2, Facts DEF Sent, AtSent, HealthyInv, Known, Calm
    <3> QED
      BY <2>2, <3>1 DEF Sent, SendFails
  <2>3. CASE ~Receive(w) /\ ~Sent(w)
    BY <1>1, <2>3, NoRelease, NoFailedWait DEF WorkStep, AcceptPost, Repost, RecvIdle, MarkPending,
       Unmark, Decide, Credit, DequeueRecv, DequeueSend
  <2> QED
    BY <2>1, <2>2, <2>3
<1>2. ASSUME NEW w \in Worker, NEW s \in Sock, Accept(w, s) PROVE dropped' = {}
  BY <1>2 DEF Accept
<1>3. CASE CheckStep
  <2>1. ~CheckRelease
    BY DEF HealthyInv, Calm, CheckRelease
  <2>2. CASE Scan
    <3>1. m_pendingPackList[check.it] \in Pack /\ Listed(m_pendingPackList[check.it])
      BY <2>2, CheckFacts DEF Scan, Listed
    <3>2. Dest[m_pendingPackList[check.it]] \in m_sockmap
      BY <3>1, Facts DEF ReplyInv, Unqueued, HealthyInv, Known
    <3> QED
      BY <2>2, <3>2 DEF Scan
  <2>3. CASE SendPack
    <3>1. ItemSock \in m_sockmap /\ ItemSock \in Sock /\ conn[ItemSock] = "open" /\ bClose = {}
      BY <2>3, CheckFacts DEF SendPack, HealthyInv, Known, Calm
    <3> QED
      BY <2>3, <3>1 DEF SendPack, SendFails
  <2>4. CASE ~Scan /\ ~SendPack
    BY <1>3, <2>1, <2>4 DEF CheckStep, WakeCheck, BeginCheck, ScanEnds, MarkBusy, EraseSent,
       ClearMark, LookNeedClose
  <2> QED
    BY <2>2, <2>3, <2>4
<1>4. ASSUME NEW k \in Pack, AdoStep(k) \/ Arrive(k) PROVE dropped' = {}
  <2>1. CASE AdoFind(k)
    BY <2>1 DEF AdoFind, HealthyInv, Known
  <2> QED
    BY <1>4, <2>1 DEF AdoStep, NoReply, AdoPush, AdoSignal, Arrive, Outside
<1>5. ASSUME NEW s \in Sock, IoStep(s) \/ TimeOut(s) \/ PeerGone(s) PROVE dropped' = {}
  BY <1>5, NobodyGone DEF IoStep, RecvCompletes, SendCompletes, Outside
<1>6. CASE Quiescent \/ UNCHANGED vars
  BY <1>6 DEF Quiescent, vars
<1> QED
  BY <1>1, <1>2, <1>3, <1>4, <1>5, <1>6 DEF Next

\* While no connection goes down, is shut for its silence or refuses a read, the server does
\* not rest before every reply that SendAdo has queued is sent.
THEOREM NoneForgottenHolds ==
  ASSUME NoFailure, WholeReads PROVE Spec => []NoneForgotten
<1>1. Init => dropped = {}
  BY DEF Init
<1>2. ReplyInv /\ HealthyInv /\ dropped = {} /\ [Next]_vars => (dropped = {})'
  BY NoFailure, WholeReads, NothingDropped
<1>3. ReplyInv /\ HealthyInv /\ dropped = {} => NoneForgotten
  <2> SUFFICES ASSUME ReplyInv, HealthyInv, dropped = {}, Quiet, NEW k \in Pack, adoPc[k] = "given"
               PROVE  k \in Packs(sent)
    BY DEF NoneForgotten
  <2>1. \A w \in Worker : work[w].pc = "free"
    BY Facts DEF Quiet, HealthyInv, Calm
  <2>2. 1 \in Worker
    BY CheckFacts DEF Worker
  <2>3. \A s \in Sock : sendPosted[s] = 0 /\ sendDone[s] = 0
    BY <2>1, <2>2 DEF Quiet
  <2>4. \A s \in Sock : Senddatapack[s] = None
    BY <2>1, <2>3 DEF HealthyInv, Sends, AtSent
  <2>5. ~Due
    BY <2>1, <2>4 DEF Due, Buf, Done, Quiet
  <2>6. m_pendingPackList = <<>>
    BY <2>5 DEF HealthyInv, Token, Quiet
  <2>7. ~Waiting(k) /\ ~InBuffer(k)
    BY <2>4, <2>6, Facts DEF Waiting, InBuffer, Place
  <2> QED
    BY <2>7 DEF HealthyInv, Somewhere, Gone, Packs
<1> QED
  BY <1>1, <1>2, <1>3, HealthyInvariant, NoFailure, PTL DEF Spec

-----------------------------------------------------------------------------
(* When clients close their connections, and nothing else goes wrong.      *)

OnlyFin == Faults \subseteq {"fin", "fatal"}

AnyAt(pcs, s) == \E w \in Worker : work[w].pc \in pcs /\ work[w].sock = s

ReadEndPc == {"drop", "release"}
SentPc == {"sent", "pended", "unmark"}

\* No operation fails, so that no thread is on a way that follows a failure.
Unfailing ==
  /\ bClose = {}
  /\ \A w \in Worker : work[w].pc \notin {"failed", "close", "dead"} /\ work[w].out # "error"
  /\ check.out # "fail"
  /\ \A s \in Sock : conn[s] # "reset" /\ recvIO[s] # "failed" /\ sendFailed[s] = 0

\* An entry, its marks and whoever works with it come after the accept.
Met ==
  /\ \A s \in m_sockmap \cup bNeedClose : conn[s] # "none"
  /\ \A w \in Worker : work[w].pc # "free" => conn[work[w].sock] # "none"

\* Once a release is asked for, or about to be, the reading is over.
ReadOver ==
  \A s \in Sock : s \in bNeedClose \/ AnyAt(ReadEndPc, s) =>
    recvIO[s] = "none" /\ ~AnyAt(HoldPc, s) /\ s \notin netRecvBusy

\* A mark has its thread, and the check thread releases what is to be closed.
Marked ==
  /\ \A s \in bInSendWorkThread : AnyAt(SentPc, s)
  /\ \A s \in bCheckPending : check.pc \in MarkPc /\ ItemSock = s
  /\ check.pc = "release" => ItemSock \in bNeedClose

\* What leads to the release of an entry: a read, the thread that reads, and
\* where the release was put off, the thread for which it was.
Followed ==
  \A s \in m_sockmap :
    \/ recvIO[s] \in {"posted", "done"}
    \/ AnyAt(HoldPc \cup ReadEndPc, s)
    \/ /\ s \in bNeedClose
       /\ \/ AnyAt(SentPc \cup {"decide"}, s)
          \/ check.pc \in MarkPc \cup {"look", "release"} /\ ItemSock = s

FinInv == Unfailing /\ Met /\ ReadOver /\ Marked /\ Followed

\* Thread w goes on at the same connection, and stays among those that lead to a
\* release, or was not among them.
LEMMA FinOn ==
  ASSUME FinInv, NEW w \in Worker, Moves(w),
         UNCHANGED <<m_sockmap, bNeedClose, bClose, bCheckPending, conn, recvIO, sendFailed, check>>,
         bInSendWorkThread' \subseteq bInSendWorkThread, netRecvBusy' \subseteq netRecvBusy,
         work'[w].pc \notin {"failed", "close", "dead"}, work'[w].out # "error",
         work'[w].pc # "free" => work[w].pc # "free" /\ work'[w].sock = work[w].sock,
         work'[w].pc \in HoldPc => work[w].pc \in HoldPc,
         work'[w].pc \in ReadEndPc =>
           work[w].pc \in ReadEndPc \/ work[w].sock \in bNeedClose,
         work[w].pc \in HoldPc \cup ReadEndPc => work'[w].pc \in HoldPc \cup ReadEndPc,
         work[w].pc \in SentPc =>
           work'[w].pc \in SentPc \/ work[w].sock \notin bInSendWorkThread',
         work[w].pc \in SentPc \cup {"decide"} =>
           work'[w].pc \in SentPc \cup {"decide"} \cup ReadEndPc \/ work[w].sock \notin bNeedClose
  PROVE  FinInv'
<1> USE DEF Moves
<1>1. Unfailing' /\ Met'
  BY DEF FinInv, Unfailing, Met
<1>2. \A s \in Sock : AnyAt(ReadEndPc, s)' => AnyAt(ReadEndPc, s) \/ s \in bNeedClose
  BY DEF AnyAt, ReadEndPc
<1>3. \A s \in Sock : AnyAt(HoldPc, s)' => AnyAt(HoldPc, s)
  BY DEF AnyAt, HoldPc
<1>4. ReadOver'
  BY <1>2, <1>3 DEF FinInv, ReadOver
<1>5. \A s : s \in bInSendWorkThread' /\ AnyAt(SentPc, s) => AnyAt(SentPc, s)'
  BY DEF AnyAt, SentPc
<1>6. Marked'
  BY <1>5 DEF FinInv, Marked, ItemSock
<1>7. \A s : AnyAt(HoldPc \cup ReadEndPc, s) => AnyAt(HoldPc \cup ReadEndPc, s)'
  BY DEF AnyAt, ReadEndPc, HoldPc
<1>8. \A s \in bNeedClose : AnyAt(SentPc \cup {"decide"}, s) =>
        AnyAt(SentPc \cup {"decide"}, s)' \/ AnyAt(HoldPc \cup ReadEndPc, s)'
  BY DEF AnyAt, ReadEndPc, HoldPc, SentPc
<1>9. Followed'
  BY <1>7, <1>8 DEF FinInv, Followed, ItemSock
<1> QED
  BY <1>1, <1>4, <1>6, <1>9 DEF FinInv

\* A step that leaves threads, entries and the network alone.
LEMMA FinFrame ==
  ASSUME FinInv, UNCHANGED <<m_sockmap, bNeedClose, bClose, bCheckPending, bInSendWorkThread,
                             netRecvBusy, conn, recvIO, sendFailed, work, check>>
  PROVE  FinInv'
  BY DEF FinInv, Unfailing, Met, ReadOver, Marked, Followed, AnyAt, ItemSock

\* ReleaseSock, where the reading is over: the entry goes, or one of those who
\* have marked it follows.
LEMMA FinRelease ==
  ASSUME FinInv, NEW s \in Sock, ReleaseSock(s), s \in bNeedClose \/ AnyAt(ReadEndPc, s),
         UNCHANGED <<bInSendWorkThread, bCheckPending, netRecvBusy>>
  PROVE  /\ m_sockmap' \subseteq m_sockmap /\ bNeedClose \subseteq bNeedClose'
         /\ bNeedClose' \subseteq bNeedClose \cup ({s} \cap m_sockmap)
         /\ \A r \in m_sockmap : r # s => r \in m_sockmap'
         /\ s \in m_sockmap' => /\ s \in bNeedClose'
                                /\ \/ AnyAt(SentPc, s)
                                   \/ check.pc \in MarkPc /\ ItemSock = s
<1>1. s \notin netRecvBusy
  BY DEF FinInv, ReadOver
<1>2. CASE s \notin m_sockmap
  BY <1>2 DEF ReleaseSock, releaseVars
<1>3. CASE s \in m_sockmap /\ InUse(s)
  <2>1. s \in bInSendWorkThread \/ s \in bCheckPending
    BY <1>1, <1>3 DEF InUse
  <2>2. AnyAt(SentPc, s) \/ (check.pc \in MarkPc /\ ItemSock = s)
    BY <2>1 DEF FinInv, Marked
  <2>3. m_sockmap' = m_sockmap /\ bNeedClose' = bNeedClose \cup {s}
    BY <1>3 DEF ReleaseSock, releaseVars
  <2> QED
    BY <1>3, <2>2, <2>3
<1>4. CASE s \in m_sockmap /\ ~InUse(s)
  <2>1. m_sockmap' = m_sockmap \ {s} /\ bNeedClose' = bNeedClose \cup {s}
    BY <1>4 DEF ReleaseSock
  <2> QED
    BY <1>4, <2>1
<1> QED
  BY <1>2, <1>3, <1>4

\* A completion thread releases.
LEMMA FinWorkRelease ==
  ASSUME FinInv, ReplyInv, NEW w \in Worker, WorkRelease(w), ~dangling'
  PROVE  FinInv'
<1>0. PICK s : s = work[w].sock
  OBVIOUS
<1>1. WorkType /\ work[w].pc = "release" /\ s \in Sock
  BY <1>0 DEF WorkRelease, ReplyInv, WorkOK
<1>2. Moves(w) /\ work'[w].pc = "free" /\ work'[w].out = "more"
  BY <1>1, LoopMoves DEF WorkRelease
<1>3. UNCHANGED <<bClose, bCheckPending, bInSendWorkThread, netRecvBusy, conn, recvIO, sendFailed, check>>
  BY DEF WorkRelease, Unreleased, netVars
<1>4. AnyAt(ReadEndPc, s)
  BY <1>0, <1>1 DEF AnyAt, ReadEndPc
<1>5. /\ m_sockmap' \subseteq m_sockmap /\ bNeedClose \subseteq bNeedClose'
      /\ bNeedClose' \subseteq bNeedClose \cup ({s} \cap m_sockmap)
      /\ \A r \in m_sockmap : r # s => r \in m_sockmap'
      /\ s \in m_sockmap' => /\ s \in bNeedClose'
                             /\ AnyAt(SentPc, s) \/ (check.pc \in MarkPc /\ ItemSock = s)
  BY <1>0, <1>1, <1>3, <1>4, FinRelease DEF WorkRelease
<1>6. Unfailing' /\ Met'
  BY <1>2, <1>3, <1>5 DEF FinInv, Unfailing, Met, Moves
<1>7. \A r, pcs : /\ AnyAt(pcs, r) /\ "release" \notin pcs => AnyAt(pcs, r)'
                  /\ AnyAt(pcs, r)' /\ "free" \notin pcs => AnyAt(pcs, r)
                  /\ AnyAt(pcs, r) /\ r # s => AnyAt(pcs, r)'
  BY <1>0, <1>1, <1>2 DEF AnyAt, Moves
<1>8. "free" \notin ReadEndPc /\ "free" \notin HoldPc /\ "release" \notin SentPc
      /\ "release" \notin SentPc \cup {"decide"} /\ "release" \notin HoldPc
  BY DEF ReadEndPc, HoldPc, SentPc
<1>9. ReadOver'
  BY <1>3, <1>4, <1>5, <1>7, <1>8 DEF FinInv, ReadOver
<1>10. Marked'
  BY <1>3, <1>5, <1>7, <1>8 DEF FinInv, Marked, ItemSock
<1>11. ASSUME AnyAt(SentPc, s) PROVE AnyAt(SentPc \cup {"decide"}, s)'
  <2>1. AnyAt(SentPc \cup {"decide"}, s)
    BY <1>11 DEF AnyAt
  <2> QED
    BY <2>1, <1>7, <1>8
<1>12. Followed'
  <2>1. SUFFICES ASSUME NEW r \in m_sockmap'
                 PROVE  \/ recvIO'[r] \in {"posted", "done"}
                        \/ AnyAt(HoldPc \cup ReadEndPc, r)'
                        \/ /\ r \in bNeedClose'
                           /\ \/ AnyAt(SentPc \cup {"decide"}, r)'
                              \/ check'.pc \in MarkPc \cup {"look", "release"} /\ ItemSock' = r
    BY DEF Followed
  <2>2. CASE r = s
    BY <1>3, <1>5, <1>11, <2>2 DEF ItemSock
  <2>3. CASE r # s
    BY <1>3, <1>5, <1>7, <2>3 DEF FinInv, Followed, ItemSock
  <2> QED
    BY <2>2, <2>3
<1> QED
  BY <1>6, <1>9, <1>10, <1>12 DEF FinInv

\* Past an item that was sent or skipped the check thread ends or scans on.
LEMMA NextPlain ==
  ASSUME CheckType, check.out \in {"ok", "skip"}, NextItem
  PROVE  check'.pc \in {"wait", "scan"} /\ check'.out # "fail"
<1>1. CASE check.out = "ok"
  BY <1>1 DEF NextItem, CheckEnds, IdleCheck
<1>2. CASE check.out = "skip"
  <2>1. check' = [check EXCEPT !.pc = "scan", !.it = @ + 1]
    BY <1>2 DEF NextItem
  <2> QED
    BY <1>2, <2>1 DEF CheckType
<1> QED
  BY <1>1, <1>2

\* The check thread releases an entry whose release was put off.
LEMMA FinCheckRelease ==
  ASSUME FinInv, ReplyInv, CheckRelease
  PROVE  FinInv'
<1> DEFINE s == ItemSock
<1>1. check.pc = "release" /\ s \in Sock /\ s \in bNeedClose /\ CheckType
  <2>1. check.pc = "release" /\ CheckOK
    BY DEF CheckRelease, ReplyInv
  <2>2. check.pack \in Pack /\ ItemSock \in Sock
    BY <2>1, Constants DEF CheckOK, ItemSock
  <2> QED
    BY <2>1, <2>2 DEF FinInv, Marked, CheckOK
<1>2. UNCHANGED <<work, bClose, bCheckPending, bInSendWorkThread, netRecvBusy, conn, recvIO, sendFailed>>
  BY DEF CheckRelease, Unreleased, netVars
<1>3. /\ m_sockmap' \subseteq m_sockmap /\ bNeedClose \subseteq bNeedClose'
      /\ bNeedClose' \subseteq bNeedClose \cup ({s} \cap m_sockmap)
      /\ \A r \in m_sockmap : r # s => r \in m_sockmap'
      /\ s \in m_sockmap' => /\ s \in bNeedClose'
                             /\ AnyAt(SentPc, s) \/ (check.pc \in MarkPc /\ ItemSock = s)
  BY <1>1, <1>2, FinRelease DEF CheckRelease
<1>4. check.pc \notin MarkPc
  BY <1>1 DEF MarkPc
<1>5. check'.pc \notin MarkPc \cup {"release"} /\ check'.out # "fail"
  <2>1. check.out \in {"ok", "skip"}
    BY <1>1 DEF CheckType, FinInv, Unfailing
  <2>2. check'.pc \in {"wait", "scan"} /\ check'.out # "fail"
    BY <1>1, <2>1, NextPlain DEF CheckRelease
  <2> QED
    BY <2>2 DEF MarkPc
<1> HIDE DEF s
<1>6. Unfailing' /\ Met'
  BY <1>2, <1>3, <1>5 DEF FinInv, Unfailing, Met
<1>7. \A r, pcs : AnyAt(pcs, r)' <=> AnyAt(pcs, r)
  BY <1>2 DEF AnyAt
<1>8. ReadOver'
  BY <1>1, <1>2, <1>3, <1>7 DEF FinInv, ReadOver
<1>9. Marked'
  BY <1>2, <1>4, <1>5, <1>7 DEF FinInv, Marked
<1>10. AnyAt(SentPc, s) => AnyAt(SentPc \cup {"decide"}, s)
  BY DEF AnyAt
<1>11. Followed'
  <2>1. SUFFICES ASSUME NEW r \in m_sockmap'
                 PROVE  \/ recvIO'[r] \in {"posted", "done"}
                        \/ AnyAt(HoldPc \cup ReadEndPc, r)'
                        \/ r \in bNeedClose' /\ AnyAt(SentPc \cup {"decide"}, r)'
    BY DEF Followed
  <2>2. CASE r = s
    BY <1>3, <1>4, <1>7, <1>10, <2>2
  <2>3. CASE r # s
    BY <1>2, <1>3, <1>7, <2>3 DEF FinInv, Followed, s
  <2> QED
    BY <2>2, <2>3
<1> QED
  BY <1>6, <1>8, <1>9, <1>11 DEF FinInv

\* A thread takes a connection: an accept, or a completion of its read.
LEMMA FinTakes ==
  ASSUME FinInv, ReplyInv, OnlyFin, NEW w \in Worker, NEW s \in Sock,
         Accept(w, s) \/ DequeueRecv(w, s) \/ DequeueSend(w, s)
  PROVE  FinInv'
<1>1. WorkType /\ work[w].pc = "free" /\ work[w].out \in {"more", "done", "error"}
      /\ conn \in [Sock -> {"none", "open", "fin", "reset"}]
      /\ recvIO \in [Sock -> {"none", "posted", "done", "failed"}]
  BY DEF Accept, DequeueRecv, DequeueSend, ReplyInv, WorkOK, WorkType, NetOK
<1>2. UNCHANGED <<bNeedClose, bClose, bCheckPending, sendFailed, check>>
  BY DEF Accept, DequeueRecv, DequeueSend, TakeRecv, TakeSend, flagVars
<1>3. CASE Accept(w, s)
  <2>1. /\ Moves(w) /\ work'[w].pc = "accepted" /\ work'[w].sock = s /\ work'[w].out = work[w].out
    BY <1>1, <1>3, EnterMoves DEF Accept, WorkPc
  <2>2. /\ UNCHANGED <<bInSendWorkThread, netRecvBusy, recvIO>> /\ m_sockmap' = m_sockmap \cup {s}
        /\ conn[s] = "none" /\ conn' = [conn EXCEPT ![s] = "open"]
    BY <1>3 DEF Accept, flagVars, stateVars
  <2>3. Unfailing' /\ Met'
    BY <1>1, <1>2, <2>1, <2>2 DEF FinInv, Unfailing, Met, Moves
  <2>4. \A r, pcs : /\ AnyAt(pcs, r) /\ "free" \notin pcs => AnyAt(pcs, r)'
                    /\ AnyAt(pcs, r)' => AnyAt(pcs, r) \/ ("accepted" \in pcs /\ r = s)
    BY <1>1, <2>1 DEF AnyAt, Moves
  <2>5. /\ AnyAt(HoldPc \cup ReadEndPc, s)' /\ "accepted" \notin ReadEndPc
        /\ "free" \notin SentPc /\ "free" \notin HoldPc \cup ReadEndPc
        /\ "free" \notin SentPc \cup {"decide"}
    BY <2>1 DEF AnyAt, HoldPc, ReadEndPc, SentPc
  <2>6. s \notin bNeedClose /\ ~AnyAt(ReadEndPc, s)
    BY <2>2 DEF FinInv, Met, AnyAt, ReadEndPc
  <2>7. ReadOver'
    BY <1>2, <2>2, <2>4, <2>5, <2>6 DEF FinInv, ReadOver
  <2>8. Marked'
    BY <1>2, <2>2, <2>4, <2>5 DEF FinInv, Marked, ItemSock
  <2>9. Followed'
    BY <1>2, <2>2, <2>4, <2>5 DEF FinInv, Followed, ItemSock
  <2> QED
    BY <2>3, <2>7, <2>8, <2>9 DEF FinInv
<1>4. CASE DequeueRecv(w, s)
  <2>1. recvIO[s] = "done" /\ s \notin bNeedClose \cup bClose /\ ~AnyAt(ReadEndPc, s)
    BY <1>4 DEF DequeueRecv, TakeRecv, FinInv, ReadOver, Unfailing
  <2>2. /\ Moves(w) /\ work'[w].pc = "recv" /\ work'[w].sock = s /\ work'[w].out = work[w].out
    BY <1>1, <1>4, <2>1, EnterMoves DEF DequeueRecv, WorkPc
  <2>3. /\ UNCHANGED <<bInSendWorkThread, m_sockmap, conn>> /\ s \in m_sockmap
        /\ netRecvBusy' = netRecvBusy \cup {s} /\ recvIO' = [recvIO EXCEPT ![s] = "none"]
    BY <1>4, <2>1 DEF DequeueRecv, TakeRecv
  <2>4. Unfailing' /\ Met'
    BY <1>1, <1>2, <2>2, <2>3 DEF FinInv, Unfailing, Met, Moves
  <2>5. \A r, pcs : /\ AnyAt(pcs, r) /\ "free" \notin pcs => AnyAt(pcs, r)'
                    /\ AnyAt(pcs, r)' => AnyAt(pcs, r) \/ ("recv" \in pcs /\ r = s)
    BY <1>1, <2>2 DEF AnyAt, Moves
  <2>6. /\ AnyAt(HoldPc \cup ReadEndPc, s)' /\ "recv" \notin ReadEndPc
        /\ "free" \notin SentPc /\ "free" \notin HoldPc \cup ReadEndPc
        /\ "free" \notin SentPc \cup {"decide"}
    BY <2>2 DEF AnyAt, HoldPc, ReadEndPc, SentPc
  <2>7. ReadOver'
    BY <1>1, <1>2, <2>1, <2>3, <2>5, <2>6 DEF FinInv, ReadOver
  <2>8. Marked'
    BY <1>2, <2>3, <2>5, <2>6 DEF FinInv, Marked, ItemSock
  <2>9. Followed'
    <3>1. \A r \in m_sockmap : r # s => recvIO'[r] = recvIO[r]
      BY <1>1, <2>3
    <3>2. "free" \notin HoldPc /\ "free" \notin ReadEndPc /\ "free" \notin SentPc
      BY <2>6
    <3> QED
      BY <1>2, <2>3, <2>5, <2>6, <3>1, <3>2 DEF FinInv, Followed, ItemSock
  <2> QED
    BY <2>4, <2>7, <2>8, <2>9 DEF FinInv
<1>5. CASE DequeueSend(w, s)
  <2>1. /\ Moves(w) /\ work'[w].pc = "sent" /\ work'[w].sock = s /\ work'[w].out = work[w].out
    BY <1>1, <1>5, EnterMoves DEF DequeueSend, WorkPc
  <2>2. /\ UNCHANGED <<m_sockmap, netRecvBusy, conn, recvIO>> /\ s \in m_sockmap
        /\ bInSendWorkThread' = bInSendWorkThread \cup {s}
    BY <1>5 DEF DequeueSend, TakeSend, stateVars
  <2>3. Unfailing' /\ Met'
    BY <1>1, <1>2, <2>1, <2>2 DEF FinInv, Unfailing, Met, Moves
  <2>4. \A r, pcs : /\ AnyAt(pcs, r) /\ "free" \notin pcs => AnyAt(pcs, r)'
                    /\ AnyAt(pcs, r)' => AnyAt(pcs, r) \/ ("sent" \in pcs /\ r = s)
    BY <1>1, <2>1 DEF AnyAt, Moves
  <2>5. /\ AnyAt(SentPc, s)' /\ "sent" \notin ReadEndPc /\ "sent" \notin HoldPc
        /\ "free" \notin SentPc /\ "free" \notin HoldPc \cup ReadEndPc
        /\ "free" \notin SentPc \cup {"decide"}
    BY <2>1 DEF AnyAt, HoldPc, ReadEndPc, SentPc
  <2>6. ReadOver'
    BY <1>2, <2>2, <2>4, <2>5 DEF FinInv, ReadOver
  <2>7. Marked'
    BY <1>2, <2>2, <2>4, <2>5 DEF FinInv, Marked, ItemSock
  <2>8. Followed'
    BY <1>2, <2>2, <2>4, <2>5 DEF FinInv, Followed, ItemSock
  <2> QED
    BY <2>3, <2>6, <2>7, <2>8 DEF FinInv
<1> QED
  BY <1>3, <1>4, <1>5

\* A thread that posts a read lets go of the connection.
LEMMA FinPosts ==
  ASSUME FinInv, ReplyInv, OnlyFin, NEW w \in Worker, AcceptPost(w) \/ Repost(w)
  PROVE  FinInv'
<1>0. PICK s : s = work[w].sock
  OBVIOUS
<1>1. WorkType /\ work[w].pc \in HoldPc /\ s \in Sock
      /\ recvIO \in [Sock -> {"none", "posted", "done", "failed"}]
  BY <1>0 DEF AcceptPost, Repost, ReplyInv, WorkOK, NetOK, HoldPc
<1>2. ~PostFails(s)
  BY <1>1 DEF PostFails, OnlyFin, FinInv, Unfailing
<1>3. /\ recvIO' = [recvIO EXCEPT ![s] = "posted"]
      /\ UNCHANGED <<m_sockmap, bNeedClose, bClose, bCheckPending, bInSendWorkThread,
                     netRecvBusy, conn, sendFailed, check>>
  BY <1>0, <1>2 DEF AcceptPost, Repost, flagVars, stateVars
<1>4. /\ Moves(w) /\ work'[w].pc \in {"free", "reposted"} /\ work'[w].out # "error"
      /\ work'[w].pc = "reposted" => work'[w].sock = s
  BY <1>0, <1>1, <1>2, GotoMoves, LoopMoves DEF AcceptPost, Repost, WorkPc, FinInv, Unfailing
<1>5. Unfailing' /\ Met'
  BY <1>0, <1>1, <1>3, <1>4 DEF FinInv, Unfailing, Met, Moves, HoldPc
<1>6. \A r, pcs : /\ AnyAt(pcs, r) /\ r # s => AnyAt(pcs, r)'
                  /\ AnyAt(pcs, r) /\ pcs \cap HoldPc = {} => AnyAt(pcs, r)'
                  /\ AnyAt(pcs, r)' /\ pcs \cap {"free", "reposted"} = {} => AnyAt(pcs, r)
  BY <1>0, <1>1, <1>4 DEF AnyAt, Moves
<1>7. /\ SentPc \cap HoldPc = {} /\ HoldPc \cap {"free", "reposted"} = {}
      /\ ReadEndPc \cap {"free", "reposted"} = {}
  BY DEF SentPc, HoldPc, ReadEndPc
<1>8. AnyAt(HoldPc, s)
  BY <1>0, <1>1 DEF AnyAt
<1>9. ReadOver'
  BY <1>1, <1>3, <1>6, <1>7, <1>8 DEF FinInv, ReadOver
<1>10. Marked'
  BY <1>3, <1>6, <1>7 DEF FinInv, Marked, ItemSock
<1>11. Followed'
  <2>1. \A r \in m_sockmap : r # s => recvIO'[r] = recvIO[r]
    BY <1>1, <1>3
  <2> QED
    BY <1>1, <1>3, <1>6, <2>1 DEF FinInv, Followed, ItemSock
<1> QED
  BY <1>5, <1>9, <1>10, <1>11 DEF FinInv

\* A thread reads on, or finds that the peer has closed: it is the only one.
LEMMA FinReceive ==
  ASSUME FinInv, ReplyInv, RecvInv, OnlyFin, NEW w \in Worker, Receive(w)
  PROVE  FinInv'
<1>0. PICK s : s = work[w].sock
  OBVIOUS
<1>1. WorkType /\ work[w].pc = "recv" /\ s \in Sock
  BY <1>0 DEF Receive, ReplyInv, WorkOK
<1>2. UNCHANGED <<m_sockmap, bNeedClose, bClose, bCheckPending, bInSendWorkThread,
                  conn, recvIO, sendFailed, check>>
  BY DEF Receive, flagVars, netVars
<1>3. CASE UNCHANGED <<work, netRecvBusy>>
  BY <1>2, <1>3, FinFrame
<1>4. CASE Goto(w, "repost") /\ UNCHANGED netRecvBusy
  <2>1. Moves(w) /\ work'[w].pc = "repost" /\ work'[w].sock = s /\ work'[w].out = work[w].out
    BY <1>0, <1>1, <1>4, GotoMoves DEF WorkPc
  <2> QED
    BY <1>0, <1>1, <1>2, <1>4, <2>1, FinOn DEF FinInv, Unfailing, HoldPc, ReadEndPc, SentPc
<1>5. CASE Goto(w, "drop") /\ netRecvBusy' = netRecvBusy \ {s}
  <2>1. Moves(w) /\ work'[w].pc = "drop" /\ work'[w].sock = s /\ work'[w].out = work[w].out
    BY <1>0, <1>1, <1>5, GotoMoves DEF WorkPc
  <2>2. recvIO[s] = "none" /\ \A v \in Worker : Holds(v, s) => v = w
    BY <1>0, <1>1 DEF RecvInv, Holds
  <2>3. Unfailing' /\ Met'
    BY <1>0, <1>1, <1>2, <2>1 DEF FinInv, Unfailing, Met, Moves
  <2>4. ~AnyAt(HoldPc, s)'
    BY <1>0, <2>1, <2>2 DEF AnyAt, Moves, HoldPc, Holds
  <2>5. \A r, pcs : /\ AnyAt(pcs, r) /\ "recv" \notin pcs => AnyAt(pcs, r)'
                    /\ AnyAt(pcs, r) /\ "drop" \in pcs => AnyAt(pcs, r)'
                    /\ AnyAt(pcs, r)' /\ r # s => AnyAt(pcs, r)
    BY <1>0, <1>1, <2>1 DEF AnyAt, Moves
  <2>6. ReadOver'
    <3>1. ASSUME NEW r \in Sock, r # s, r \in bNeedClose' \/ AnyAt(ReadEndPc, r)'
          PROVE  recvIO'[r] = "none" /\ ~AnyAt(HoldPc, r)' /\ r \notin netRecvBusy'
      BY <1>2, <1>5, <2>5, <3>1 DEF FinInv, ReadOver
    <3>2. recvIO'[s] = "none" /\ ~AnyAt(HoldPc, s)' /\ s \notin netRecvBusy'
      BY <1>2, <1>5, <2>2, <2>4
    <3> QED
      BY <3>1, <3>2 DEF ReadOver
  <2>7. Marked'
    BY <1>2, <2>5 DEF FinInv, Marked, ItemSock, SentPc
  <2>8. "drop" \in HoldPc \cup ReadEndPc /\ "recv" \notin SentPc \cup {"decide"}
    BY DEF ReadEndPc, SentPc
  <2>9. Followed'
    BY <1>2, <2>5, <2>8 DEF FinInv, Followed, ItemSock
  <2> QED
    BY <2>3, <2>6, <2>7, <2>9 DEF FinInv
<1> QED
  BY <1>0, <1>3, <1>4, <1>5 DEF Receive, OnlyFin

\* The steps of a completion thread that neither take nor leave a connection.
LEMMA FinWork ==
  ASSUME FinInv, ReplyInv, OnlyFin, NEW w \in Worker, ~dangling',
         \/ Drop(w) \/ RecvIdle(w) \/ CloseAfterFailure(w) \/ Sent(w) \/ MarkPending(w)
         \/ Unmark(w) \/ Decide(w) \/ Credit(w)
  PROVE  FinInv'
<1>1. WorkType /\ work[w].out # "error" /\ work[w].pc \notin {"failed", "close"}
  BY DEF ReplyInv, WorkOK, FinInv, Unfailing
<1>2. UNCHANGED <<m_sockmap, bNeedClose, bClose, bCheckPending, conn, recvIO, sendFailed, check>>
  BY <1>1 DEF Drop, RecvIdle, CloseAfterFailure, Sent, PostSend, MarkPending, Unmark, Decide,
     Credit, flagVars, netVars
<1>3. bInSendWorkThread' \subseteq bInSendWorkThread /\ netRecvBusy' \subseteq netRecvBusy
  BY <1>1 DEF Drop, RecvIdle, CloseAfterFailure, Sent, MarkPending, Unmark, Decide,
     Credit, flagVars, stateVars
<1>4. CASE Drop(w)
  <2>1. Moves(w) /\ work[w].pc = "drop" /\ work'[w].pc = "release" /\ work'[w].sock = work[w].sock
        /\ work'[w].out = work[w].out
    BY <1>1, <1>4, GotoMoves DEF Drop, WorkPc
  <2> QED
    BY <1>1, <1>2, <1>3, <2>1, FinOn DEF HoldPc, ReadEndPc, SentPc
<1>5. CASE RecvIdle(w) \/ Credit(w)
  <2>1. Moves(w) /\ work[w].pc \in {"reposted", "credit"} /\ work'[w].pc = "free"
        /\ work'[w].out = "more"
    BY <1>1, <1>5, LoopMoves DEF RecvIdle, Credit
  <2> QED
    BY <1>1, <1>2, <1>3, <2>1, FinOn DEF HoldPc, ReadEndPc, SentPc
<1>6. CASE CloseAfterFailure(w)
  BY <1>1, <1>6 DEF CloseAfterFailure
<1>7. CASE Sent(w)
  <2>1. ~SendFails(work[w].sock)
    <3>1. work[w].sock \in Sock
      BY <1>7 DEF Sent, ReplyInv, WorkOK
    <3> QED
      BY <3>1 DEF SendFails, FinInv, Unfailing
  <2>2. Moves(w) /\ work[w].pc = "sent" /\ work'[w].pc \in {"pended", "unmark"}
        /\ work'[w].sock = work[w].sock /\ work'[w].out # "error"
    <3>1. CASE \E pc \in {"pended", "unmark"} : Goto(w, pc)
      BY <1>1, <1>7, <3>1, GotoMoves DEF Sent, WorkPc
    <3>2. CASE work' = [work EXCEPT ![w].pc = "unmark", ![w].out = "done"]
      BY <1>1, <1>7, <3>2, OutMoves DEF Sent, WorkPc
    <3> QED
      BY <1>7, <2>1, <3>1, <3>2 DEF Sent
  <2> QED
    BY <1>1, <1>2, <1>3, <2>2, FinOn DEF HoldPc, ReadEndPc, SentPc
<1>8. CASE MarkPending(w)
  <2>1. Moves(w) /\ work[w].pc = "pended" /\ work'[w].pc = "unmark" /\ work'[w].sock = work[w].sock
        /\ work'[w].out = work[w].out
    BY <1>1, <1>8, GotoMoves DEF MarkPending, WorkPc
  <2> QED
    BY <1>1, <1>2, <1>3, <2>1, FinOn DEF HoldPc, ReadEndPc, SentPc
<1>9. CASE Unmark(w)
  <2>1. Moves(w) /\ work[w].pc = "unmark" /\ work'[w].pc = "decide" /\ work'[w].sock = work[w].sock
        /\ work'[w].out = work[w].out /\ work[w].sock \notin bInSendWorkThread'
    BY <1>1, <1>9, GotoMoves DEF Unmark, WorkPc
  <2> QED
    BY <1>1, <1>2, <1>3, <2>1, FinOn DEF HoldPc, ReadEndPc, SentPc
<1>10. CASE Decide(w)
  <2>1. CASE work[w].sock \in bNeedClose
    <3>1. Moves(w) /\ work[w].pc = "decide" /\ work'[w].pc = "release"
          /\ work'[w].sock = work[w].sock /\ work'[w].out = work[w].out
      BY <1>1, <1>10, <2>1, GotoMoves DEF Decide, WorkPc
    <3> QED
      BY <1>1, <1>2, <1>3, <2>1, <3>1, FinOn DEF HoldPc, ReadEndPc, SentPc
  <2>2. CASE work[w].sock \notin bNeedClose
    <3>1. Moves(w) /\ work[w].pc = "decide" /\ work'[w].pc \in {"credit", "free"}
          /\ (work'[w].pc = "credit" => work'[w].sock = work[w].sock) /\ work'[w].out # "error"
      BY <1>1, <1>10, <2>2, GotoMoves, LoopMoves DEF Decide, WorkPc
    <3> QED
      BY <1>1, <1>2, <1>3, <2>2, <3>1, FinOn DEF HoldPc, ReadEndPc, SentPc
  <2> QED
    BY <2>1, <2>2
<1> QED
  BY <1>4, <1>5, <1>6, <1>7, <1>8, <1>9, <1>10

\* The check thread, its releases apart.
LEMMA FinCheck ==
  ASSUME FinInv, ReplyInv, CheckStep, ~CheckRelease
  PROVE  FinInv'
<1>1. CheckType /\ check.out # "fail" /\ bClose = {}
  BY DEF ReplyInv, CheckOK, FinInv, Unfailing
<1>2. CASE SendPack /\ SendFails(ItemSock)
  <2>1. ItemSock \in Sock
    BY <1>2, Constants DEF SendPack, ReplyInv, CheckOK, ItemSock
  <2> QED
    BY <1>2, <2>1 DEF SendFails, FinInv, Unfailing
<1>3. CASE ~(SendPack /\ SendFails(ItemSock))
  <2>1. UNCHANGED <<m_sockmap, bNeedClose, bClose, bInSendWorkThread, netRecvBusy, conn, recvIO,
                    sendFailed, work>>
    BY <1>3 DEF CheckStep, WakeCheck, BeginCheck, Scan, ScanEnds, MarkBusy, SendPack, PostSend,
       EraseSent, ClearMark, LookNeedClose, flagVars, stateVars, netVars
  <2>2. \A r, pcs : AnyAt(pcs, r)' <=> AnyAt(pcs, r)
    BY <2>1 DEF AnyAt
  <2>3. ReadOver' /\ Met'
    BY <2>1, <2>2 DEF FinInv, ReadOver, Met
  <2>4. ASSUME check'.out # "fail",
               \A s \in bCheckPending' : check'.pc \in MarkPc /\ ItemSock' = s,
               check'.pc = "release" => ItemSock' \in bNeedClose,
               check.pc \in MarkPc \cup {"look", "release"} /\ ItemSock \in bNeedClose =>
                 check'.pc \in MarkPc \cup {"look", "release"} /\ ItemSock' = ItemSock
        PROVE  FinInv'
    <3>1. Unfailing' /\ Marked'
      BY <2>1, <2>2, <2>4 DEF FinInv, Unfailing, Marked
    <3>2. Followed'
      BY <2>1, <2>2, <2>4 DEF FinInv, Followed
    <3> QED
      BY <2>3, <3>1, <3>2 DEF FinInv
  <2>5. CASE WakeCheck \/ BeginCheck \/ ScanEnds
    <3>1. UNCHANGED bCheckPending /\ check.pc \in {"wait", "reset", "scan"}
          /\ check'.out # "fail" /\ check'.pc \in {"wait", "reset", "scan"}
      <4>1. UNCHANGED bCheckPending /\ check.pc \in {"wait", "reset", "scan"}
        BY <2>5 DEF WakeCheck, BeginCheck, ScanEnds, flagVars
      <4>2. CASE WakeCheck
        BY <1>1, <4>1, <4>2 DEF WakeCheck, CheckType
      <4>3. CASE CheckEnds
        BY <4>1, <4>3 DEF CheckEnds, IdleCheck
      <4>4. CASE CheckGoto("scan")
        BY <1>1, <4>1, <4>4 DEF CheckGoto, CheckType
      <4> QED
        BY <2>5, <4>2, <4>3, <4>4 DEF BeginCheck, ScanEnds
    <3>2. bCheckPending = {}
      BY <3>1 DEF FinInv, Marked, MarkPc
    <3> QED
      BY <2>4, <3>1, <3>2 DEF MarkPc
  <2>6. CASE Scan
    <3>1. bCheckPending = {} /\ check.pc = "scan"
      BY <2>6 DEF Scan, FinInv, Marked, MarkPc
    <3>2. CASE UNCHANGED <<check, bCheckPending>>
      BY <2>4, <3>1, <3>2, <1>1 DEF MarkPc
    <3>3. CASE ~UNCHANGED <<check, bCheckPending>>
      <4>1. PICK k, s, pc :
               /\ pc \in {"clear", "mark"} /\ s = Dest[k] /\ bCheckPending' = bCheckPending \cup {s}
               /\ check' = [check EXCEPT !.pc = pc, !.pack = k, !.out = "skip"]
        <5>1. PICK k : k = m_pendingPackList[check.it]
          OBVIOUS
        <5>2. PICK s : s = Dest[k]
          OBVIOUS
        <5>3. /\ bCheckPending' = bCheckPending \cup {s}
              /\ check' = [check EXCEPT !.pc = IF s \in netSendBusy THEN "clear" ELSE "mark",
                                       !.pack = k, !.out = "skip"]
          BY <2>6, <3>3, <5>1, <5>2 DEF Scan
        <5>4. CASE s \in netSendBusy
          BY <5>2, <5>3, <5>4
        <5>5. CASE s \notin netSendBusy
          BY <5>2, <5>3, <5>5
        <5> QED
          BY <5>4, <5>5
      <4>2. check'.pc = pc /\ check'.pack = k /\ check'.out = "skip"
        BY <1>1, <4>1 DEF CheckType
      <4>3. ItemSock' = s /\ bCheckPending' = {s}
        BY <3>1, <4>1, <4>2 DEF ItemSock
      <4> QED
        BY <2>4, <3>1, <4>1, <4>2, <4>3 DEF MarkPc
    <3> QED
      BY <3>2, <3>3
  <2>7. CASE MarkBusy \/ EraseSent \/ SendPack
    <3>1. PICK pc \in {"send", "clear", "erase"}, out \in {"ok", "skip"} :
            check' = [check EXCEPT !.pc = pc, !.out = out]
      <4>1. check.out \in {"ok", "skip"} /\ check = [check EXCEPT !.out = check.out]
        BY <1>1 DEF CheckType
      <4>2. CASE MarkBusy \/ EraseSent
        <5>1. PICK pc \in {"send", "clear"} : check' = [check EXCEPT !.pc = pc]
          BY <4>2 DEF MarkBusy, EraseSent, CheckGoto
        <5>2. check' = [check EXCEPT !.pc = pc, !.out = check.out]
          BY <5>1, <1>1 DEF CheckType
        <5> QED
          BY <4>1, <5>2
      <4>3. CASE SendPack
        BY <1>3, <4>3 DEF SendPack
      <4> QED
        BY <2>7, <4>2, <4>3
    <3>2. check'.pc = pc /\ check'.out = out /\ check'.pack = check.pack
      BY <1>1, <3>1 DEF CheckType
    <3>3. ItemSock' = ItemSock
      BY <3>2 DEF ItemSock
    <3>4. UNCHANGED bCheckPending /\ check.pc \in MarkPc
      BY <2>7 DEF MarkBusy, EraseSent, SendPack, MarkPc, flagVars
    <3>5. \A s \in bCheckPending' : ItemSock' = s
      BY <3>3, <3>4 DEF FinInv, Marked
    <3> QED
      BY <2>4, <3>2, <3>3, <3>4, <3>5 DEF MarkPc
  <2>8. CASE ClearMark
    <3>1. check'.pc = "look" /\ check'.out = check.out /\ check'.pack = check.pack
          /\ bCheckPending' = bCheckPending \ {ItemSock}
      BY <1>1, <2>8 DEF ClearMark, CheckGoto, CheckType
    <3>2. bCheckPending' = {}
      BY <3>1 DEF FinInv, Marked
    <3>3. ItemSock' = ItemSock
      BY <3>1 DEF ItemSock
    <3> QED
      BY <1>1, <2>4, <3>1, <3>2, <3>3 DEF MarkPc
  <2>9. CASE LookNeedClose
    <3>1. UNCHANGED bCheckPending /\ check.pc = "look"
      BY <2>9 DEF LookNeedClose, flagVars
    <3>2. bCheckPending = {}
      BY <3>1 DEF FinInv, Marked, MarkPc
    <3>3. CASE ItemSock \in bNeedClose
      <4>1. check'.pc = "release" /\ check'.out = check.out /\ check'.pack = check.pack
        BY <1>1, <2>9, <3>3 DEF LookNeedClose, CheckGoto, CheckType
      <4>2. ItemSock' = ItemSock
        BY <4>1 DEF ItemSock
      <4> QED
        BY <1>1, <2>1, <2>4, <3>1, <3>2, <3>3, <4>1, <4>2
    <3>4. CASE ItemSock \notin bNeedClose
      <4>1. check.out \in {"ok", "skip"}
        BY <1>1 DEF CheckType
      <4>2. check'.pc \in {"wait", "scan"} /\ check'.out # "fail"
        BY <1>1, <2>9, <3>4, <4>1, NextPlain DEF LookNeedClose
      <4> QED
        BY <2>4, <3>1, <3>2, <3>4, <4>2
    <3> QED
      BY <3>3, <3>4
  <2> QED
    BY <2>5, <2>6, <2>7, <2>8, <2>9 DEF CheckStep
<1> QED
  BY <1>2, <1>3

\* The network and the kernel: connections end, reads complete.
LEMMA FinNet ==
  ASSUME FinInv, ReplyInv, OnlyFin, NEW s \in Sock, IoStep(s) \/ PeerGone(s)
  PROVE  FinInv'
<1>1. UNCHANGED <<m_sockmap, bNeedClose, bClose, bCheckPending, bInSendWorkThread, netRecvBusy,
                  work, check>>
  BY DEF IoStep, RecvCompletes, SendCompletes, PeerGone, Outside, flagVars, stateVars
<1>2. /\ conn \in [Sock -> {"none", "open", "fin", "reset"}]
      /\ recvIO \in [Sock -> {"none", "posted", "done", "failed"}]
      /\ \A r \in Sock : conn[r] # "reset"
  BY DEF ReplyInv, NetOK, FinInv, Unfailing
<1>3. /\ \A r \in Sock : /\ conn[r] # "none" => conn'[r] # "none"
                         /\ conn'[r] # "reset"
      /\ UNCHANGED sendFailed
      /\ \A r \in Sock : /\ recvIO'[r] # "failed" \/ recvIO'[r] = recvIO[r]
                         /\ recvIO[r] = "none" => recvIO'[r] = "none"
                         /\ recvIO[r] \in {"posted", "done"} => recvIO'[r] \in {"posted", "done"}
  BY <1>2 DEF IoStep, RecvCompletes, SendCompletes, PeerGone, OnlyFin
<1>4. m_sockmap \subseteq Sock /\ bNeedClose \subseteq Sock
      /\ \A w \in Worker : work[w].pc \notin {"free", "dead"} => work[w].sock \in Sock
  BY DEF ReplyInv, SetsOK, WorkOK
<1>5. \A r, pcs : AnyAt(pcs, r)' <=> AnyAt(pcs, r)
  BY <1>1 DEF AnyAt
<1>6. Unfailing' /\ Met'
  BY <1>1, <1>3, <1>4 DEF FinInv, Unfailing, Met
<1>7. ReadOver'
  BY <1>1, <1>3, <1>5 DEF FinInv, ReadOver
<1>8. Marked' /\ Followed'
  BY <1>1, <1>3, <1>4, <1>5 DEF FinInv, Marked, Followed, ItemSock
<1> QED
  BY <1>6, <1>7, <1>8 DEF FinInv

LEMMA FinStep ==
  ASSUME OnlyFin, ReplyInv, RecvInv, dangling \/ FinInv, [Next]_vars
  PROVE  dangling' \/ FinInv'
<1>1. CASE Quiescent \/ UNCHANGED vars
  <2>1. UNCHANGED <<m_sockmap, bNeedClose, bClose, bCheckPending, bInSendWorkThread,
                    netRecvBusy, conn, recvIO, sendFailed, work, check, dangling>>
    BY <1>1 DEF Quiescent, vars, flagVars, stateVars, netVars
  <2> QED
    BY <2>1, FinFrame
<1>2. CASE ~dangling /\ ~Quiescent /\ ~UNCHANGED vars
  <2> SUFFICES ASSUME ~dangling' PROVE FinInv'
    OBVIOUS
  <2>1. FinInv
    BY <1>2
  <2>2. ASSUME NEW w \in Worker, WorkStep(w) PROVE FinInv'
    <3>1. ASSUME NEW s \in Sock, DequeueFailed(w, s) PROVE FALSE
      BY <2>1, <3>1 DEF DequeueFailed, TakeRecv, TakeFailedSend, FinInv, Unfailing
    <3>2. ASSUME NEW s \in Sock, Ignore(w, s) PROVE FALSE
      BY <3>2 DEF Ignore, Touch
    <3> QED
      BY <2>1, <2>2, <3>1, <3>2, FinWorkRelease, FinPosts, FinReceive, FinWork, FinTakes DEF WorkStep
  <2>3. ASSUME NEW w \in Worker, NEW s \in Sock, Accept(w, s) PROVE FinInv'
    BY <2>1, <2>3, FinTakes
  <2>4. CASE CheckStep
    BY <2>1, <2>4, FinCheck, FinCheckRelease
  <2>5. ASSUME NEW k \in Pack, AdoStep(k) \/ Arrive(k) PROVE FinInv'
    BY <2>1, <2>5, FinFrame DEF AdoStep, NoReply, AdoFind, AdoPush, AdoSignal, Arrive, Outside,
       flagVars, stateVars, netVars
  <2>6. ASSUME NEW s \in Sock, IoStep(s) \/ PeerGone(s) PROVE FinInv'
    BY <2>1, <2>6, FinNet
  <2>7. ASSUME NEW s \in Sock, TimeOut(s) PROVE FinInv'
    BY <2>7 DEF TimeOut, OnlyFin
  <2> QED
    BY <1>2, <2>2, <2>3, <2>4, <2>5, <2>6, <2>7 DEF Next
<1> QED
  BY <1>1, <1>2 DEF Next

\* When the server rests, the connections that their clients have closed have no
\* entry: a release that was put off is made up for by the thread it was put
\* off for.  For any number of clients and threads, while only clients close.
THEOREM EntryReleasedHolds == ASSUME OnlyFin PROVE Spec => []EntryReleased
<1>1. Init => dangling \/ FinInv
  BY DEF Init, FinInv, Unfailing, Met, ReadOver, Marked, Followed, AnyAt, IdleWork, IdleCheck,
     HoldPc, ReadEndPc
<1>2. ReplyInv /\ RecvInv /\ (dangling \/ FinInv) /\ [Next]_vars => (dangling \/ FinInv)'
  BY FinStep
<1>3. (dangling \/ FinInv) => EntryReleased
  <2> SUFFICES ASSUME FinInv, Quiet, NEW s \in Sock, s \in m_sockmap, conn[s] \in {"fin", "reset"}
               PROVE  FALSE
    BY DEF EntryReleased
  <2>1. 1 \in Worker
    BY SockAssumption DEF SockAssumption, Worker
  <2>2. \A w \in Worker : work[w].pc = "free"
    BY DEF Quiet, FinInv, Unfailing
  <2>3. check.pc = "wait" /\ recvIO[s] \notin {"posted", "done"}
    BY <2>1, <2>2 DEF Quiet
  <2> QED
    BY <2>2, <2>3 DEF FinInv, Followed, AnyAt, HoldPc, ReadEndPc, SentPc, MarkPc
<1>4. SockAssumption
  BY SockAssumption
<1>5. Init => RecvInv
  BY <1>4, RecvStart
<1>6. RecvInv /\ [Next]_vars => RecvInv'
  BY <1>4, RecvStep
<1> QED
  BY <1>1, <1>2, <1>3, <1>5, <1>6, ReplyStart, ReplyStep, PTL DEF Spec
==============================================================================
