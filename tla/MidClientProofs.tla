--------------------------- MODULE MidClientProofs ---------------------------
(***************************************************************************)
(* Machine-checked theorems about the client side, for any number of       *)
(* clients, requests and connections.                                      *)
(*                                                                         *)
(* The argument follows a request that a client has under way.  It is in   *)
(* exactly one place: in the queue, in the hands of the send thread, or in *)
(* the socket (Places), so that neither a thread nor a client finds two of *)
(* them (OnePack).  The event, the APC and the I/O thread hand it on: one  *)
(* of them is always set or running while a request waits (Woken).  All of *)
(* it holds until the program does what it has no defined behaviour for    *)
(* (fault), after which the model stops.                                   *)
(***************************************************************************)
EXTENDS MidClient, FiniteSetTheorems, TLAPS

Defined == fault = "none"

\* The places of a request: the queue, the send thread's hands, the socket.
InQueue(k) == \E n \in 1 .. Len(m_sendQueue) : m_sendQueue[n] = k
Holding == sendPc \in {"senddata", "connect", "await", "fill", "post", "failed"}
Sending == sendIO # "none" \/ \E i \in Conn : ioPc[i] = "more"

\* A request between the check of adonetstate and the end of its send.
Busy(k) ==
  callPc[k] \in {"claimed", "pushed", "accepted"} /\ k \notin sent \cup failed

\* ... that has been put in the queue.
Handed(k) == callPc[k] \in {"pushed", "accepted"} /\ k \notin sent \cup failed

\* The types of the variables; the flags apart.
FlagsOK ==
  /\ m_hEvent \in BOOLEAN /\ apc \in BOOLEAN /\ bComplete \in BOOLEAN
  /\ m_bConnected \in BOOLEAN /\ m_hConnected \in BOOLEAN

CallsOK ==
  /\ netBusy \subseteq Client
  /\ callPc \in [Pack -> {"new", "called", "refused", "claimed", "pushed", "accepted"}]
  /\ m_sendQueue \in Seq(Pack) /\ bufinfo \in Pack \cup {None}
  /\ sendPc \in {"wait", "pop", "senddata", "connect", "await", "fill", "post", "failed",
                 "reset"}
  /\ sent \subseteq Pack /\ failed \subseteq Pack
  /\ fault \in {"none", "empty", "overwrite", "freed"}

SocketOK ==
  /\ m_sendOvl \in [pdata : Pack \cup {None}, id : Pack \cup {None}, lremain : Nat]
  /\ ioPc \in [Conn -> {"none", "wait", "more", "complete", "notify", "recv",
                        "disconnect", "unset", "free", "ended"}]
  /\ nConn \in 0 .. MaxConn
  /\ line \in {"none", "up", "lost", "closed"}
  /\ sendIO \in {"none", "posted", "done", "failed"}
  /\ recvIO \in {"none", "posted", "done"}

RepliesOK ==
  /\ reply \in [Pack -> {"none", "wire", "item", "loaded", "shown", "lost"}]
  /\ dataset \in [Client -> Pack \cup {None}] /\ seen \in [Pack -> Pack \cup {None}]
  /\ empty \subseteq Pack /\ overlapped \subseteq Pack

\* One connection at a time has an I/O thread at work on it, and it is the last.
Connections ==
  /\ \A i \in Conn : /\ ioPc[i] = "none" <=> i > nConn
                     /\ ioPc[i] \notin {"none", "free", "ended"} => i = nConn /\ m_bConnected
  /\ line \in {"up", "lost"} <=>
       nConn > 0 /\ ioPc[nConn] \in {"wait", "more", "complete", "notify", "recv", "disconnect"}
  /\ line = "none" <=> nConn = 0
  /\ sendIO # "none" => line \in {"up", "lost"}
  /\ sendPc = "connect" => ~m_bConnected

\* Where the requests are: a request is in one place.
Places ==
  Defined =>
    /\ \A m, n \in 1 .. Len(m_sendQueue) : m_sendQueue[m] = m_sendQueue[n] => m = n
    /\ \A n \in 1 .. Len(m_sendQueue) : Handed(m_sendQueue[n])
    /\ Holding => bufinfo \in Pack /\ Handed(bufinfo) /\ ~InQueue(bufinfo)
    /\ Sending =>
         /\ m_sendOvl.id \in Pack /\ Handed(m_sendOvl.id) /\ ~InQueue(m_sendOvl.id)
         /\ ~(Holding /\ bufinfo = m_sendOvl.id)
    /\ sendPc = "post" => m_sendOvl.id = bufinfo

\* adonetstate: a client has one request under way, and is NETBUSY while it has.
OnePack ==
  /\ \A j, k \in Pack : Busy(j) /\ Busy(k) /\ Owner[j] = Owner[k] => j = k
  /\ \A k \in Pack : Busy(k) => Owner[k] \in netBusy

\* CompleteSend reports the end of a client's only request, and a client that is NETBUSY has
\* a request under way or one whose end is about to be reported.
Completing ==
  Defined =>
    /\ \A i \in Conn : ioPc[i] = "complete" =>
         /\ m_sendOvl.id \in Pack /\ Owner[m_sendOvl.id] \in netBusy
         /\ \A k \in Pack : Busy(k) => Owner[k] # Owner[m_sendOvl.id]
    /\ \A c \in netBusy :
         \/ \E k \in Pack : Owner[k] = c /\ Busy(k)
         \/ \E i \in Conn : ioPc[i] = "complete" /\ Owner[m_sendOvl.id] = c

\* The first connection holds.
Up == nConn <= 1 /\ line \in {"none", "up"}

Held ==
  Up => /\ sendIO # "failed"
        /\ \A i \in Conn : ioPc[i] \notin {"disconnect", "unset", "free", "ended"}
        /\ recvIO = "done" => Wire # {}
        /\ \A k \in Pack : reply[k] # "lost"

\* No read is outstanding while the I/O thread deals with what has arrived.
Reading == \A i \in Conn : ioPc[i] = "recv" => recvIO = "none"

\* While it does, no request is lost on its way.
Somewhere ==
  Defined /\ Up =>
    \A k \in Pack : Handed(k) =>
      InQueue(k) \/ (Holding /\ bufinfo = k) \/ (Sending /\ m_sendOvl.id = k)

\* The I/O thread has yet to tell the send thread, or has told it.
Active == apc \/ Sending \/ \E i \in Conn : ioPc[i] \in {"complete", "notify"}

\* A request that waits is not forgotten: the send thread is on its way to it, or somebody
\* is on the way to wake it.
Woken ==
  Defined /\ Up /\ failed = {} =>
    /\ sendPc = "reset" => Active
    /\ \A k \in Pack : InQueue(k) /\ callPc[k] = "accepted" =>
         (m_hEvent /\ sendPc \in {"wait", "pop"}) \/ Holding \/ Active

\* After a fault somebody is still in the middle of something.
Faulted ==
  /\ fault = "empty" => sendPc = "pop"
  /\ fault = "overwrite" => sendPc = "post"
  /\ fault = "freed" => sendIO = "posted" \/ \E i \in Conn : ioPc[i] = "disconnect"

\* Replies answer requests that were sent.
Answered ==
  /\ \A k \in Pack : k \in sent \cup failed => callPc[k] \in {"pushed", "accepted"}
  /\ \A k \in Pack : reply[k] # "none" => k \in sent
  /\ sent \cap failed = {}
  /\ \A k \in empty : reply[k] \in {"loaded", "shown"}

\* The executes of a client that are open together have met, and the record set of one that
\* has met none is empty until its own reply is loaded.
Loaded ==
  /\ \A j, k \in Pack \ Updates :
       j # k /\ Owner[j] = Owner[k] /\ Open(j) /\ Open(k) => j \in overlapped
  /\ \A k \in Pack \ (Updates \cup overlapped) : Open(k) =>
       dataset[Owner[k]] = IF reply[k] = "loaded" /\ k \notin empty THEN k ELSE None

ClientInv ==
  /\ FlagsOK /\ CallsOK /\ SocketOK /\ RepliesOK
  /\ Connections /\ Places /\ OnePack /\ Completing /\ Held /\ Reading
  /\ Somewhere /\ Woken /\ Faulted /\ Answered /\ Loaded /\ OwnReply

-------------------------------------------------------------------------------
\* What is used of the constants.
LEMMA Constants ==
  /\ \A k \in Pack : Owner[k] \in Client /\ Chunks[k] \in Nat /\ k # None
  /\ None \notin Pack /\ MaxConn \in Nat
  BY ClientAssumption DEF ClientAssumption

LEMMA ConnIs ==
  ASSUME SocketOK
  PROVE  /\ nConn \in Int /\ 0 <= nConn /\ MaxConn \in Int
         /\ nConn > 0 => nConn \in Conn
         /\ nConn < MaxConn => nConn + 1 \in Conn
         /\ \A i \in Conn : i \in Int /\ i > 0
  BY Constants DEF SocketOK, Conn

LEMMA Pushed ==
  ASSUME m_sendQueue \in Seq(Pack), NEW k \in Pack, m_sendQueue' = Append(m_sendQueue, k)
  PROVE  /\ Len(m_sendQueue) \in Nat /\ Len(m_sendQueue') = Len(m_sendQueue) + 1
         /\ m_sendQueue'[Len(m_sendQueue')] = k
         /\ \A n \in 1 .. Len(m_sendQueue) : m_sendQueue'[n] = m_sendQueue[n]
         /\ \A x : InQueue(x)' <=> InQueue(x) \/ x = k
  BY DEF InQueue

LEMMA Popped ==
  ASSUME m_sendQueue \in Seq(Pack), m_sendQueue # <<>>, m_sendQueue' = Tail(m_sendQueue),
         \A m, n \in 1 .. Len(m_sendQueue) : m_sendQueue[m] = m_sendQueue[n] => m = n
  PROVE  /\ Head(m_sendQueue) \in Pack
         /\ \A m, n \in 1 .. Len(m_sendQueue') : m_sendQueue'[m] = m_sendQueue'[n] => m = n
         /\ \A x : InQueue(x)' <=> InQueue(x) /\ x # Head(m_sendQueue)
         /\ InQueue(Head(m_sendQueue))
<1> DEFINE L == Len(m_sendQueue)
<1>1. /\ L \in Nat /\ L >= 1 /\ Len(m_sendQueue') = L - 1
      /\ Head(m_sendQueue) = m_sendQueue[1]
      /\ \A n \in 1 .. L - 1 : m_sendQueue'[n] = m_sendQueue[n + 1]
      /\ \A n \in 1 .. L : m_sendQueue[n] \in Pack
  OBVIOUS
<1> HIDE DEF L
<1>2. \A n \in 1 .. L - 1 : n + 1 \in 1 .. L /\ n + 1 # 1
  BY <1>1
<1>3. \A n \in 1 .. L : n = 1 \/ (n - 1 \in 1 .. L - 1 /\ (n - 1) + 1 = n)
  BY <1>1
<1>4. 1 \in 1 .. L
  BY <1>1
<1>5. \A m, n \in 1 .. L - 1 : m_sendQueue'[m] = m_sendQueue'[n] => m = n
  <2> TAKE m, n \in 1 .. L - 1
  <2>1. HAVE m_sendQueue'[m] = m_sendQueue'[n]
  <2>2. m + 1 = n + 1
    BY <1>1, <1>2, <2>1 DEF L
  <2> QED
    BY <1>1, <2>2
<1>6. \A x : InQueue(x)' <=> \E n \in 1 .. L - 1 : m_sendQueue'[n] = x
  BY <1>1 DEF InQueue
<1>7. \A x : InQueue(x) <=> \E n \in 1 .. L : m_sendQueue[n] = x
  BY DEF InQueue, L
<1>8. \A x : InQueue(x)' => InQueue(x) /\ x # Head(m_sendQueue)
  <2> SUFFICES ASSUME NEW x, NEW n \in 1 .. L - 1, m_sendQueue'[n] = x
               PROVE  InQueue(x) /\ x # m_sendQueue[1]
    BY <1>1, <1>6
  <2>1. m_sendQueue[n + 1] = x /\ n + 1 \in 1 .. L /\ n + 1 # 1
    BY <1>1, <1>2
  <2> QED
    BY <2>1, <1>4, <1>7 DEF L
<1>9. \A x : InQueue(x) => InQueue(x)' \/ x = Head(m_sendQueue)
  <2> SUFFICES ASSUME NEW x, NEW n \in 1 .. L, m_sendQueue[n] = x, n # 1
               PROVE  InQueue(x)'
    BY <1>1, <1>7
  <2>1. n - 1 \in 1 .. L - 1 /\ m_sendQueue'[n - 1] = x
    BY <1>1, <1>3
  <2> QED
    BY <2>1, <1>6
<1>10. InQueue(Head(m_sendQueue)) /\ Head(m_sendQueue) \in Pack
  BY <1>1, <1>4, <1>7
<1>11. \A m, n \in 1 .. Len(m_sendQueue') : m_sendQueue'[m] = m_sendQueue'[n] => m = n
  BY <1>1, <1>5
<1> QED
  BY <1>8, <1>9, <1>10, <1>11

\* Without a connection nothing is under way, and a thread at work has one that is not closed.
LEMMA Unconnected ==
  ASSUME SocketOK, Connections, ~m_bConnected
  PROVE  /\ ~Sending /\ sendIO = "none" /\ line \notin {"up", "lost"}
         /\ \A i \in Conn : ioPc[i] \in {"none", "free", "ended"}
<1>1. \A i \in Conn : ioPc[i] \in {"none", "free", "ended"}
  BY DEF Connections
<1>2. line \notin {"up", "lost"}
  BY <1>1, ConnIs DEF Connections
<1>3. sendIO = "none"
  BY <1>2 DEF Connections
<1> QED
  BY <1>1, <1>2, <1>3 DEF Sending

LEMMA Working ==
  ASSUME SocketOK, Connections, NEW i \in Conn,
         ioPc[i] \in {"wait", "more", "complete", "notify", "recv", "disconnect"}
  PROVE  /\ i = nConn /\ line \in {"up", "lost"}
         /\ Up => line = "up" /\ CanPost /\ ~PostFails
         /\ \A j \in Conn \ {i} : ioPc[j] \in {"none", "free", "ended"}
  BY ConnIs DEF Connections, Up, CanPost, PostFails

\* A step that opens no request and loads no reply leaves the record sets in order.
LEMMA NoneOpened ==
  ASSUME Loaded, UNCHANGED <<dataset, empty, overlapped>>,
         \A j \in Pack : Open(j)' => Open(j) /\ (reply'[j] = "loaded" <=> reply[j] = "loaded")
  PROVE  Loaded'
  BY DEF Loaded

LEMMA ExecuteKeeps ==
  ASSUME ClientInv, Defined, NEW k \in Pack, Execute(k)
  PROVE  ClientInv'
<1> USE DEF ClientInv, appVars, queueVars, sendVars, connVars, netVars, replyVars, pastVars
<1>1. FlagsOK' /\ SocketOK' /\ Connections' /\ Held' /\ Reading' /\ Faulted'
  BY DEF Execute, CallGoto, FlagsOK, SocketOK, Connections, Held, Reading, Faulted, Wire, Up
<1>2. CallsOK'
  BY Constants DEF Execute, CallGoto, CallsOK
<1>3. RepliesOK'
  BY Constants DEF Execute, CallGoto, RepliesOK, Meets, OpenBeside
<1>4. Places'
  BY Constants DEF Execute, CallGoto, Places, Defined, InQueue, Holding, Sending, Handed
<1>5. OnePack'
  BY Constants DEF Execute, CallGoto, OnePack, Busy
<1>6. Completing'
  BY Constants DEF Execute, CallGoto, Completing, Defined, Busy
<1>7. Somewhere'
  BY Constants DEF Execute, CallGoto, Somewhere, Defined, InQueue, Holding, Sending, Handed,
         Up
<1>8. Woken'
  BY Constants DEF Execute, CallGoto, Woken, Defined, InQueue, Holding, Sending, Up, Active
<1>9. Answered'
  BY DEF Execute, CallGoto, Answered, CallsOK
<1>10. Loaded'
  <2>1. /\ callPc[k] = "new" /\ callPc' = [callPc EXCEPT ![k] = "called"]
        /\ reply' = reply /\ failed' = failed /\ empty' = empty /\ overlapped' = Meets(k)
        /\ k \in Updates => dataset' = dataset
        /\ k \notin Updates => dataset' = [dataset EXCEPT ![Owner[k]] = None]
    BY DEF Execute, CallGoto
  <2>2. /\ \A j \in Pack \ {k} : Open(j)' <=> Open(j)
        /\ reply[k] = "none" /\ overlapped \subseteq overlapped'
    BY <2>1 DEF CallsOK, RepliesOK, Open, Answered, Meets
  <2>3. CASE k \in Updates
    BY <2>1, <2>2, <2>3 DEF Loaded
  <2>4. CASE k \notin Updates
    <3>1. \A j \in Pack \ (Updates \cup {k}) :
            Owner[j] = Owner[k] /\ Open(j) => j \in overlapped' /\ k \in overlapped'
      BY <2>1, <2>4 DEF Meets, OpenBeside
    <3>2. /\ dataset'[Owner[k]] = None
          /\ \A c \in Client : c # Owner[k] => dataset'[c] = dataset[c]
      BY <2>1, <2>4, Constants DEF RepliesOK
    <3>3. \A i, j \in Pack \ Updates :
            i # j /\ Owner[i] = Owner[j] /\ Open(i)' /\ Open(j)' => i \in overlapped'
      BY <2>2, <3>1 DEF Loaded
    <3>4. \A j \in Pack \ (Updates \cup overlapped') : Open(j)' =>
            dataset'[Owner[j]] = IF reply'[j] = "loaded" /\ j \notin empty' THEN j ELSE None
      BY <2>1, <2>2, <3>1, <3>2, Constants DEF Loaded
    <3> QED
      BY <3>3, <3>4 DEF Loaded
  <2> QED
    BY <2>3, <2>4
<1>11. OwnReply'
  <2>1. overlapped \subseteq overlapped'
    BY DEF Execute, Meets
  <2> QED
    BY <2>1 DEF Execute, OwnReply
<1> QED
  BY <1>1, <1>2, <1>3, <1>4, <1>5, <1>6, <1>7, <1>8, <1>9, <1>10, <1>11

\* The only step that puts a second request of a client under way, if adonetstate lets it.
LEMMA ClaimKeeps ==
  ASSUME ClientInv, Defined, NEW k \in Pack, Claim(k)
  PROVE  ClientInv'
<1> USE DEF ClientInv, appVars, queueVars, sendVars, connVars, netVars, replyVars, pastVars
<1>1. FlagsOK' /\ SocketOK' /\ RepliesOK' /\ Connections' /\ Held' /\ Reading' /\ Faulted'
  BY DEF Claim, CallGoto, FlagsOK, SocketOK, RepliesOK, Connections, Held, Reading, Faulted,
         Wire, Up
<1>2. CallsOK'
  BY Constants DEF Claim, CallGoto, CallsOK
<1>3. Places'
  BY Constants DEF Claim, CallGoto, Places, CallsOK, Defined, InQueue, Holding, Sending,
         Handed
<1>4. OnePack'
  BY Constants DEF Claim, CallGoto, OnePack, CallsOK, Places, Busy, Defined, InQueue,
         Holding, Sending, Handed
<1>5. Completing'
  <2>a. CASE Owner[k] \in netBusy
    <3>1. /\ callPc' = [callPc EXCEPT ![k] = "refused"] /\ callPc[k] = "called"
          /\ UNCHANGED <<netBusy, ioPc, m_sendOvl, fault, sent, failed>>
      BY <2>a DEF Claim, CallGoto
    <3>2. \A j \in Pack : Busy(j)' <=> Busy(j)
      BY <3>1 DEF CallsOK, Busy
    <3> QED
      BY <3>1, <3>2 DEF Completing, Defined
  <2> SUFFICES ASSUME Owner[k] \notin netBusy PROVE Completing'
    BY <2>a
  <2>1. /\ callPc' = [callPc EXCEPT ![k] = "claimed"] /\ netBusy' = netBusy \cup {Owner[k]}
        /\ ioPc' = ioPc /\ m_sendOvl' = m_sendOvl /\ fault' = fault /\ sent' = sent
        /\ failed' = failed
    BY DEF Claim, CallGoto
  <2>2. callPc'[k] = "claimed" /\ \A j \in Pack \ {k} : Busy(j)' <=> Busy(j)
    BY <2>1 DEF CallsOK, Busy
  <2>3. ASSUME NEW i \in Conn, ioPc'[i] = "complete"
        PROVE  /\ m_sendOvl'.id \in Pack /\ Owner[m_sendOvl'.id] \in netBusy'
               /\ \A j \in Pack : Busy(j)' => Owner[j] # Owner[m_sendOvl'.id]
    BY <2>1, <2>2, <2>3 DEF Completing
  <2>4. \A j \in Pack : Busy(j) => Busy(j)'
    BY <2>1 DEF CallsOK, Busy
  <2>5. Busy(k)' \/ k \in sent \cup failed
    BY <2>2, <2>1 DEF Busy
  <2>6. k \notin sent \cup failed
    BY DEF Claim, Answered, Loaded, Open
  <2>7. ASSUME NEW c \in netBusy'
        PROVE  \/ \E j \in Pack : Owner[j] = c /\ Busy(j)'
               \/ \E i \in Conn : ioPc'[i] = "complete" /\ Owner[m_sendOvl'.id] = c
    BY <2>1, <2>4, <2>5, <2>6 DEF Completing
  <2> QED
    BY <2>3, <2>7 DEF Completing
<1>6. Somewhere'
  BY Constants DEF Claim, CallGoto, Somewhere, CallsOK, SocketOK, RepliesOK, Defined,
         InQueue, Holding, Sending, Handed, Up
<1>7. Woken'
  BY Constants DEF Claim, CallGoto, Woken, CallsOK, SocketOK, RepliesOK, Defined, InQueue,
         Holding, Sending, Up, Active
<1>8. Answered' /\ Loaded'
  <2>1. \A j \in Pack : Open(j)' => Open(j)
    BY DEF Claim, CallGoto, Open, CallsOK
  <2>2. Loaded'
    BY <2>1, NoneOpened DEF Claim
  <2> QED
    BY <2>2 DEF Claim, CallGoto, Answered, CallsOK
<1>9. OwnReply'
  BY Constants DEF Claim, CallGoto, OwnReply, CallsOK, SocketOK, RepliesOK
<1> QED
  BY <1>1, <1>2, <1>3, <1>4, <1>5, <1>6, <1>7, <1>8, <1>9

\* The request enters the queue, where it was not before.
LEMMA PushKeeps ==
  ASSUME ClientInv, Defined, NEW k \in Pack, Push(k)
  PROVE  ClientInv'
<1> USE DEF ClientInv, appVars, queueVars, sendVars, connVars, netVars, replyVars, pastVars
<1>1. FlagsOK' /\ SocketOK' /\ RepliesOK' /\ Connections' /\ Held' /\ Reading' /\ Faulted'
  BY DEF Push, CallGoto, FlagsOK, SocketOK, RepliesOK, Connections, Held, Reading, Faulted,
         Wire, Up
<1>2. CallsOK'
  BY Constants DEF Push, CallGoto, CallsOK
<1>3. Places'
  <2>1. m_sendQueue' = Append(m_sendQueue, k) /\ m_sendQueue \in Seq(Pack)
    BY DEF Push, CallsOK
  <2> USE <2>1, Pushed
  <2>2. /\ callPc' = [callPc EXCEPT ![k] = "pushed"] /\ sent' = sent /\ failed' = failed
        /\ UNCHANGED <<fault, sendPc, bufinfo, m_sendOvl, ioPc, sendIO>>
    BY DEF Push, CallGoto
  <2>3. k \notin sent \cup failed /\ ~Handed(k)
    BY DEF Push, Answered, Loaded, Open, Handed
  <2>4. Handed(k)' /\ \A j \in Pack : Handed(j) => Handed(j)'
    BY <2>2, <2>3 DEF CallsOK, Handed
  <2>5. \A n \in 1 .. Len(m_sendQueue) : m_sendQueue[n] \in Pack /\ m_sendQueue[n] # k
    BY <2>3 DEF Places
  <2>6. \A m, n \in 1 .. Len(m_sendQueue') : m_sendQueue'[m] = m_sendQueue'[n] => m = n
    <3> TAKE m, n \in 1 .. Len(m_sendQueue')
    <3>1. m \in 1 .. Len(m_sendQueue) \/ m = Len(m_sendQueue')
      OBVIOUS
    <3>2. n \in 1 .. Len(m_sendQueue) \/ n = Len(m_sendQueue')
      OBVIOUS
    <3> QED
      BY <3>1, <3>2, <2>5 DEF Places
  <2>7. \A n \in 1 .. Len(m_sendQueue') : Handed(m_sendQueue[n])'
    <3> TAKE n \in 1 .. Len(m_sendQueue')
    <3>1. n \in 1 .. Len(m_sendQueue) \/ n = Len(m_sendQueue')
      OBVIOUS
    <3> QED
      BY <3>1, <2>4, <2>5 DEF Places
  <2>8. Holding' => bufinfo' \in Pack /\ Handed(bufinfo)' /\ ~InQueue(bufinfo)'
    BY <2>2, <2>3, <2>4 DEF Places, Holding
  <2>9. Sending' =>
          /\ m_sendOvl'.id \in Pack /\ Handed(m_sendOvl.id)' /\ ~InQueue(m_sendOvl.id)'
          /\ ~(Holding' /\ bufinfo' = m_sendOvl'.id)
    BY <2>2, <2>3, <2>4 DEF Places, Holding, Sending
  <2> QED
    BY <2>2, <2>6, <2>7, <2>8, <2>9 DEF Places
<1>4. OnePack'
  BY Constants DEF Push, CallGoto, OnePack, Busy
<1>5. Completing'
  BY Constants DEF Push, CallGoto, Completing, Defined, Busy
<1>6. Somewhere'
  BY Constants DEF Push, CallGoto, Somewhere, Defined, InQueue, Holding, Sending, Handed, Up
<1>7. Woken'
  BY Constants DEF Push, CallGoto, Woken, Defined, InQueue, Holding, Sending, Up, Active
<1>8. Answered' /\ Loaded'
  BY Constants DEF Push, CallGoto, Answered, Loaded, Open
<1>9. OwnReply'
  BY Constants DEF Push, CallGoto, OwnReply
<1> QED
  BY <1>1, <1>2, <1>3, <1>4, <1>5, <1>6, <1>7, <1>8, <1>9

LEMMA SignalKeeps ==
  ASSUME ClientInv, Defined, NEW k \in Pack, Signal(k)
  PROVE  ClientInv'
<1> USE DEF ClientInv, appVars, queueVars, sendVars, connVars, netVars, replyVars, pastVars
<1>1. SocketOK' /\ RepliesOK' /\ Connections' /\ Held' /\ Reading' /\ Faulted'
  BY DEF Signal, CallGoto, SocketOK, RepliesOK, Connections, Held, Reading, Faulted, Wire,
         Up
<1>2. FlagsOK'
  BY DEF Signal, CallGoto, FlagsOK
<1>3. CallsOK'
  BY Constants DEF Signal, CallGoto, CallsOK
<1>4. Places'
  BY Constants DEF Signal, CallGoto, Places, Defined, InQueue, Holding, Sending, Handed
<1>5. OnePack'
  BY Constants DEF Signal, CallGoto, OnePack, Busy
<1>6. Completing'
  BY Constants DEF Signal, CallGoto, Completing, Defined, Busy
<1>7. Somewhere'
  BY Constants DEF Signal, CallGoto, Somewhere, Defined, InQueue, Holding, Sending, Handed,
         Up
<1>8. Woken'
  BY Constants DEF Signal, CallGoto, Woken, CallsOK, SocketOK, RepliesOK, Defined, InQueue,
         Holding, Sending, Up, Active
<1>9. Answered' /\ Loaded'
  BY Constants DEF Signal, CallGoto, Answered, Loaded, Open
<1>10. OwnReply'
  BY Constants DEF Signal, CallGoto, OwnReply
<1> QED
  BY <1>1, <1>2, <1>3, <1>4, <1>5, <1>6, <1>7, <1>8, <1>9, <1>10

LEMMA LoadKeeps ==
  ASSUME ClientInv, Defined, NEW k \in Pack, Load(k)
  PROVE  ClientInv'
<1> USE DEF ClientInv, appVars, queueVars, sendVars, connVars, netVars, replyVars, pastVars
<1>1. FlagsOK' /\ CallsOK' /\ SocketOK' /\ Connections' /\ Places' /\ OnePack' /\ Completing'
      /\ Reading' /\ Somewhere' /\ Woken' /\ Faulted'
  <2>1. UNCHANGED <<appVars, queueVars, sendVars, connVars, m_sendOvl, ioPc, netVars, pastVars>>
    BY DEF Load
  <2> QED
    BY <2>1 DEF FlagsOK, CallsOK, SocketOK, Connections, Places, OnePack, Completing,
         Reading, Somewhere, Woken, Faulted, Defined, InQueue, Holding, Sending, Handed,
         Busy, Up, Active
<1>2. RepliesOK'
  <2>1. reply' = [reply EXCEPT ![k] = "loaded"] /\ seen' = seen /\ overlapped' = overlapped
    BY DEF Load
  <2>2. \/ dataset' = dataset
        \/ dataset' = [dataset EXCEPT ![Owner[k]] = k]
        \/ dataset' = [dataset EXCEPT ![Owner[k]] = None]
    BY DEF Load
  <2>3. dataset' \in [Client -> Pack \cup {None}]
    BY <2>2, Constants DEF RepliesOK
  <2>4. empty' \subseteq Pack
    BY DEF Load, RepliesOK
  <2> QED
    BY <2>1, <2>3, <2>4 DEF RepliesOK
<1>3. Held'
  BY Constants DEF Load, Held, Wire, Up
<1>4. /\ reply[k] = "item" /\ reply'[k] = "loaded"
      /\ \A j \in Pack \ {k} : reply'[j] = reply[j] /\ (j \in empty' <=> j \in empty)
      /\ k \notin empty /\ k \in sent /\ empty' \subseteq empty \cup {k}
  BY DEF Load, Answered, RepliesOK
<1>5. Answered'
  BY <1>4 DEF Load, Answered, RepliesOK
<1>6. /\ overlapped' = overlapped /\ Open(k)
      /\ \A j \in Pack : Open(j)' <=> Open(j)
  BY <1>4 DEF Load, Open, Answered
<1>7. /\ \A c \in Client : c # Owner[k] \/ k \in Updates => dataset'[c] = dataset[c]
      /\ k \notin Updates /\ k \notin empty' => dataset'[Owner[k]] = k
      /\ k \notin Updates /\ k \in empty' => dataset'[Owner[k]] \in {dataset[Owner[k]], None}
  BY <1>4, Constants DEF Load, RepliesOK
<1>8. ASSUME NEW j \in Pack \ (Updates \cup overlapped'), Open(j)'
      PROVE  dataset'[Owner[j]] = IF reply'[j] = "loaded" /\ j \notin empty' THEN j ELSE None
  <2>1. Open(j) /\ j \notin overlapped /\ Owner[j] \in Client
    BY <1>6, <1>8, Constants
  <2>2. dataset[Owner[j]] = IF reply[j] = "loaded" /\ j \notin empty THEN j ELSE None
    BY <2>1 DEF Loaded
  <2>3. CASE j = k
    BY <1>4, <1>7, <2>2, <2>3
  <2>4. CASE j # k
    <3>1. k \notin Updates => Owner[k] # Owner[j]
      BY <1>6, <2>1, <2>4 DEF Loaded
    <3> QED
      BY <1>4, <1>7, <2>1, <2>2, <2>4, <3>1
  <2> QED
    BY <2>3, <2>4
<1>9. Loaded'
  BY <1>6, <1>8 DEF Loaded
<1>10. OwnReply'
  BY <1>4, <1>6 DEF Load, OwnReply
<1> QED
  BY <1>1, <1>2, <1>3, <1>5, <1>9, <1>10

LEMMA CallbackKeeps ==
  ASSUME ClientInv, Defined, NEW k \in Pack, Callback(k)
  PROVE  ClientInv'
<1> USE DEF ClientInv, appVars, queueVars, sendVars, connVars, netVars, replyVars, pastVars
<1>1. FlagsOK' /\ CallsOK' /\ SocketOK' /\ Connections' /\ Places' /\ OnePack' /\ Completing'
      /\ Reading' /\ Somewhere' /\ Woken' /\ Faulted'
  BY DEF Callback, FlagsOK, CallsOK, SocketOK, Connections, Places, OnePack, Completing,
         Reading, Somewhere, Woken, Faulted, Defined, InQueue, Holding, Sending, Handed,
         Busy, Up, Active
<1>2. RepliesOK'
  BY Constants DEF Callback, RepliesOK
<1>3. Held'
  BY Constants DEF Callback, Held, Wire, Up
<1>4. Answered' /\ Loaded'
  BY Constants DEF Callback, Answered, Loaded, Open
<1>5. OwnReply'
  BY Constants DEF Callback, OwnReply, RepliesOK, Answered, Loaded, Open
<1> QED
  BY <1>1, <1>2, <1>3, <1>4, <1>5

LEMMA AnswerKeeps ==
  ASSUME ClientInv, Defined, NEW k \in Pack, Answer(k)
  PROVE  ClientInv'
<1> USE DEF ClientInv, appVars, queueVars, sendVars, connVars, netVars, replyVars, pastVars
<1>1. FlagsOK' /\ CallsOK' /\ SocketOK' /\ Connections' /\ Places' /\ OnePack' /\ Completing'
      /\ Reading' /\ Somewhere' /\ Woken' /\ Faulted'
  BY DEF Answer, Outside, FlagsOK, CallsOK, SocketOK, Connections, Places, OnePack,
         Completing, Reading, Somewhere, Woken, Faulted, Defined, InQueue, Holding, Sending,
         Handed, Busy, Up, Active
<1>2. RepliesOK'
  BY Constants DEF Answer, Outside, RepliesOK
<1>3. Held'
  BY Constants DEF Answer, Outside, Held, Wire, Up
<1>4. Answered' /\ Loaded'
  BY Constants DEF Answer, Outside, Answered, Loaded, Open
<1>5. OwnReply'
  BY Constants DEF Answer, Outside, OwnReply
<1> QED
  BY <1>1, <1>2, <1>3, <1>4, <1>5

LEMMA WakeKeeps ==
  ASSUME ClientInv, Defined, Wake
  PROVE  ClientInv'
<1> USE DEF ClientInv, appVars, queueVars, sendVars, connVars, netVars, replyVars, pastVars
<1>1. SocketOK' /\ RepliesOK' /\ OnePack' /\ Completing' /\ Held' /\ Reading' /\ Answered' /\ Loaded'
      /\ OwnReply'
  BY DEF Wake, SocketOK, RepliesOK, OnePack, Completing, Held, Reading, Answered, Loaded, Open, OwnReply,
         Busy, Defined, Wire, Up
<1>2. FlagsOK'
  BY DEF Wake, FlagsOK
<1>3. CallsOK'
  BY Constants DEF Wake, CallsOK
<1>4. Connections'
  BY ConnIs DEF Wake, Connections
<1>5. Places'
  BY Constants DEF Wake, Places, Defined, InQueue, Holding, Sending, Handed
<1>6. Somewhere'
  BY Constants DEF Wake, Somewhere, Defined, InQueue, Holding, Sending, Handed, Up
<1>7. Woken'
  BY Constants DEF Wake, Woken, Defined, InQueue, Holding, Sending, Up, Active
<1>8. Faulted'
  BY Constants DEF Wake, Faulted
<1> QED
  BY <1>1, <1>2, <1>3, <1>4, <1>5, <1>6, <1>7, <1>8

\* The event is set again whenever something waits, so that no wake-up is lost.
LEMMA RearmKeeps ==
  ASSUME ClientInv, Defined, Rearm
  PROVE  ClientInv'
<1> USE DEF ClientInv, appVars, queueVars, sendVars, connVars, netVars, replyVars, pastVars
<1>1. CallsOK' /\ SocketOK' /\ RepliesOK' /\ Connections' /\ Places' /\ OnePack' /\ Completing'
      /\ Held' /\ Reading' /\ Somewhere' /\ Faulted' /\ Answered' /\ Loaded' /\ OwnReply'
  BY DEF Rearm, CallsOK, SocketOK, RepliesOK, Connections, Places, OnePack, Completing,
         Held, Reading, Somewhere, Faulted, Answered, Loaded, Open, OwnReply, Defined, InQueue, Holding,
         Sending, Handed, Busy, Wire, Up
<1>2. FlagsOK'
  BY DEF Rearm, FlagsOK
<1>3. Woken'
  <2>1. /\ UNCHANGED <<fault, sendPc, m_sendQueue, callPc, nConn, line, failed>>
        /\ sendPc = "wait"
    BY DEF Rearm
  <2>2. \A k \in Pack : InQueue(k) => m_sendQueue # <<>>
    BY DEF CallsOK, InQueue
  <2>3. m_sendQueue # <<>> => m_hEvent'
    BY DEF Rearm
  <2>4. \A k \in Pack : InQueue(k)' => InQueue(k)
    BY <2>1 DEF InQueue
  <2> QED
    BY <2>1, <2>2, <2>3, <2>4 DEF Woken
<1> QED
  BY <1>1, <1>2, <1>3

\* The request leaves the queue for the send thread's hands, which are empty.
LEMMA PopKeeps ==
  ASSUME ClientInv, Defined, Pop
  PROVE  ClientInv'
<1> USE DEF ClientInv, appVars, queueVars, sendVars, connVars, netVars, replyVars, pastVars
<1> SUFFICES ASSUME m_sendQueue # <<>> PROVE ClientInv'
  BY DEF Pop, FlagsOK, CallsOK, SocketOK, RepliesOK, Connections, Places, Defined, OnePack,
         Busy, Completing, Held, Up, Wire, Reading, Somewhere, Woken, Faulted, Answered, Loaded, Open, OwnReply
<1>a. /\ m_sendQueue' = Tail(m_sendQueue) /\ bufinfo' = Head(m_sendQueue)
      /\ sendPc = "pop" /\ sendPc' = "senddata"
      /\ UNCHANGED <<fault, callPc, sent, failed, m_sendOvl, ioPc, sendIO, nConn, line>>
  BY DEF Pop
<1>b. /\ m_sendQueue \in Seq(Pack)
      /\ \A m, n \in 1 .. Len(m_sendQueue) : m_sendQueue[m] = m_sendQueue[n] => m = n
  BY DEF CallsOK, Places
<1>c. /\ \A k : Handed(k)' <=> Handed(k)
      /\ Holding' /\ ~Holding /\ (Sending' <=> Sending)
  BY <1>a DEF Handed, Holding, Sending
<1>d. \A k : InQueue(k) => Handed(k)
  BY DEF Places, InQueue
<1>e. InQueue(bufinfo') /\ bufinfo' \in Pack
  BY <1>a, <1>b, Popped
<1>f. \A x : InQueue(x)' <=> InQueue(x) /\ x # bufinfo'
  BY <1>a, <1>b, Popped
<1>1. FlagsOK' /\ SocketOK' /\ RepliesOK' /\ OnePack' /\ Held' /\ Reading' /\ Answered' /\ Loaded'
      /\ OwnReply'
  BY DEF Pop, FlagsOK, SocketOK, RepliesOK, OnePack, Held, Reading, Answered, Loaded, Open, OwnReply, Busy,
         Wire, Up
<1>2. CallsOK'
  <2>1. Tail(m_sendQueue) \in Seq(Pack)
    BY <1>b
  <2> QED
    BY <1>a, <1>e, <2>1 DEF Pop, CallsOK
<1>3. Connections'
  BY ConnIs DEF Pop, Connections
<1>4. Places'
  <2>1. \A n \in 1 .. Len(m_sendQueue') : InQueue(m_sendQueue[n])'
    BY DEF InQueue
  <2>2. \A n \in 1 .. Len(m_sendQueue') : Handed(m_sendQueue[n])'
    BY <1>a, <1>b, <1>c, <1>d, <2>1, Popped
  <2>3. bufinfo' \in Pack /\ Handed(bufinfo)' /\ ~InQueue(bufinfo)'
    BY <1>a, <1>b, <1>c, <1>d, <1>e, Popped
  <2>4. Sending' =>
          /\ m_sendOvl'.id \in Pack /\ Handed(m_sendOvl.id)' /\ ~InQueue(m_sendOvl.id)'
          /\ bufinfo' # m_sendOvl'.id
    BY <1>a, <1>c, <1>d, <1>e, <1>f DEF Places, Handed, InQueue
  <2> QED
    BY <1>a, <1>b, <1>c, <2>2, <2>3, <2>4, Popped DEF Places
<1>5. Completing'
  BY Constants DEF Pop, Completing, Defined, Busy
<1>6. Somewhere'
  <2>1. Up' <=> Up
    BY <1>a DEF Up
  <2> QED
    BY <1>a, <1>c, <1>f, <2>1 DEF Somewhere
<1>7. Woken'
  BY Constants DEF Pop, Woken, Defined, InQueue, Holding, Sending, Up, Active
<1>8. Faulted'
  BY Constants DEF Pop, Faulted, CallsOK, Places, Defined, InQueue, Holding, Sending, Handed
<1> QED
  BY <1>1, <1>2, <1>3, <1>4, <1>5, <1>6, <1>7, <1>8

LEMMA SendDataKeeps ==
  ASSUME ClientInv, Defined, SendData
  PROVE  ClientInv'
<1> USE DEF ClientInv, appVars, queueVars, sendVars, connVars, netVars, replyVars, pastVars
<1>1. FlagsOK' /\ SocketOK' /\ RepliesOK' /\ OnePack' /\ Completing' /\ Held' /\ Reading'
      /\ Answered' /\ Loaded' /\ OwnReply'
  BY DEF SendData, SendGoto, FlagsOK, SocketOK, RepliesOK, OnePack, Completing, Held,
         Reading, Answered, Loaded, Open, OwnReply, Busy, Defined, Wire, Up
<1>2. CallsOK'
  BY Constants DEF SendData, SendGoto, CallsOK
<1>3. Connections'
  BY ConnIs DEF SendData, SendGoto, Connections
<1>4. Places'
  BY Constants DEF SendData, SendGoto, Places, Defined, InQueue, Holding, Sending, Handed
<1>5. Somewhere'
  BY Constants DEF SendData, SendGoto, Somewhere, Defined, InQueue, Holding, Sending,
         Handed, Up
<1>6. Woken'
  BY Constants DEF SendData, SendGoto, Woken, Defined, InQueue, Holding, Sending, Up, Active
<1>7. Faulted'
  BY Constants DEF SendData, SendGoto, Faulted
<1> QED
  BY <1>1, <1>2, <1>3, <1>4, <1>5, <1>6, <1>7

\* Clears m_sendOvl; nothing is in the socket then, since there was no connection.
LEMMA ConnectKeeps ==
  ASSUME ClientInv, Defined, Connect
  PROVE  ClientInv'
<1> USE DEF ClientInv, appVars, queueVars, sendVars, connVars, netVars, replyVars, pastVars
<1>a. ~Sending /\ ~Sending' /\ \A i \in Conn : ioPc[i] \in {"none", "free", "ended"}
  <2>1. /\ ~Sending /\ sendIO = "none"
        /\ \A i \in Conn : ioPc[i] \in {"none", "free", "ended"}
    BY Unconnected DEF Connect, Connections
  <2>2. sendIO' = "none" /\ \A i \in Conn : ioPc'[i] # "more"
    BY <2>1 DEF Connect, SocketOK
  <2> QED
    BY <2>1, <2>2 DEF Sending
<1>b. /\ Holding /\ Holding' /\ sendPc' # "post"
      /\ UNCHANGED <<fault, callPc, m_sendQueue, bufinfo, sent, failed>>
  BY DEF Connect, SendGoto, Holding
<1>c. \A k : (InQueue(k)' <=> InQueue(k)) /\ (Handed(k)' <=> Handed(k))
  BY <1>b DEF InQueue, Handed
<1>1. RepliesOK' /\ OnePack' /\ Answered' /\ Loaded' /\ OwnReply'
  BY DEF Connect, SendGoto, NoSend, RepliesOK, OnePack, Answered, Loaded, Open, OwnReply, Busy
<1>2. FlagsOK'
  BY DEF Connect, SendGoto, NoSend, FlagsOK
<1>3. CallsOK'
  BY Constants DEF Connect, SendGoto, NoSend, CallsOK
<1>4. SocketOK'
  BY Constants DEF Connect, SendGoto, NoSend, SocketOK
<1>5. Connections'
  BY ConnIs DEF Connect, SendGoto, NoSend, Connections, CallsOK, SocketOK, RepliesOK
<1>6. Places'
  BY <1>a, <1>b, <1>c DEF Places, Defined
<1>7. Completing'
  BY Constants DEF Connect, SendGoto, NoSend, Completing, SocketOK, Connections, Defined,
         Busy
<1>8. Held'
  BY Constants DEF Connect, SendGoto, NoSend, Held, SocketOK, Connections, Wire, Up
<1>9. Reading'
  BY Constants DEF Connect, SendGoto, NoSend, Reading, SocketOK, Connections
<1>10. Somewhere'
  <2>1. Up' => Up
    BY ConnIs DEF Connect, Up, Connections, SocketOK
  <2> QED
    BY <1>a, <1>b, <1>c, <2>1 DEF Somewhere, Defined
<1>11. Woken'
  BY Constants DEF Connect, SendGoto, NoSend, Woken, Defined, InQueue, Holding, Sending, Up,
         Active
<1>12. Faulted'
  BY Constants DEF Connect, SendGoto, NoSend, Faulted, CallsOK, Places, Defined, InQueue,
         Holding, Sending, Handed
<1> QED
  BY <1>1, <1>2, <1>3, <1>4, <1>5, <1>6, <1>7, <1>8, <1>9, <1>10, <1>11, <1>12

LEMMA AwaitKeeps ==
  ASSUME ClientInv, Defined, Await
  PROVE  ClientInv'
<1> USE DEF ClientInv, appVars, queueVars, sendVars, connVars, netVars, replyVars, pastVars
<1>1. FlagsOK' /\ SocketOK' /\ RepliesOK' /\ OnePack' /\ Completing' /\ Held' /\ Reading'
      /\ Answered' /\ Loaded' /\ OwnReply'
  BY DEF Await, SendGoto, FlagsOK, SocketOK, RepliesOK, OnePack, Completing, Held, Reading,
         Answered, Loaded, Open, OwnReply, Busy, Defined, Wire, Up
<1>2. CallsOK'
  BY Constants DEF Await, SendGoto, CallsOK
<1>3. Connections'
  BY ConnIs DEF Await, SendGoto, Connections
<1>4. Places'
  BY Constants DEF Await, SendGoto, Places, Defined, InQueue, Holding, Sending, Handed
<1>5. Somewhere'
  BY Constants DEF Await, SendGoto, Somewhere, Defined, InQueue, Holding, Sending, Handed,
         Up
<1>6. Woken'
  BY Constants DEF Await, SendGoto, Woken, Defined, InQueue, Holding, Sending, Up, Active
<1>7. Faulted'
  BY Constants DEF Await, SendGoto, Faulted
<1> QED
  BY <1>1, <1>2, <1>3, <1>4, <1>5, <1>6, <1>7

\* Puts the pack in the socket, which is a fault if another one is there.
LEMMA FillKeeps ==
  ASSUME ClientInv, Defined, Fill
  PROVE  ClientInv'
<1> USE DEF ClientInv, appVars, queueVars, sendVars, connVars, netVars, replyVars, pastVars
<1>1. FlagsOK' /\ RepliesOK' /\ OnePack' /\ Held' /\ Reading' /\ Answered' /\ Loaded' /\ OwnReply'
  BY DEF Fill, SendGoto, InUse, FlagsOK, RepliesOK, OnePack, Held, Reading, Answered, Loaded, Open,
         OwnReply, Busy, Wire, Up
<1>2. CallsOK'
  BY Constants DEF Fill, SendGoto, InUse, CallsOK
<1>3. SocketOK'
  BY Constants DEF Fill, SendGoto, InUse, SocketOK, CallsOK, Places, Defined, InQueue,
         Holding, Sending, Handed
<1>4. Connections'
  BY ConnIs DEF Fill, SendGoto, InUse, Connections
<1>5. Places'
  BY Constants DEF Fill, SendGoto, InUse, Places, Defined, InQueue, Holding, Sending, Handed
<1>6. Completing'
  BY Constants DEF Fill, SendGoto, InUse, Completing, Defined, Busy
<1>7. Somewhere'
  BY Constants DEF Fill, SendGoto, InUse, Somewhere, Defined, InQueue, Holding, Sending,
         Handed, Up
<1>8. Woken'
  BY Constants DEF Fill, SendGoto, InUse, Woken, Defined, InQueue, Holding, Sending, Up,
         Active
<1>9. Faulted'
  BY Constants DEF Fill, SendGoto, InUse, Faulted
<1> QED
  BY <1>1, <1>2, <1>3, <1>4, <1>5, <1>6, <1>7, <1>8, <1>9

LEMMA PostKeeps ==
  ASSUME ClientInv, Defined, Post
  PROVE  ClientInv'
<1> USE DEF ClientInv, appVars, queueVars, sendVars, connVars, netVars, replyVars, pastVars
<1>1. FlagsOK' /\ RepliesOK' /\ OnePack' /\ Completing' /\ Reading' /\ Answered' /\ Loaded' /\ OwnReply'
  BY DEF Post, SendGoto, CanPost, PostFails, FlagsOK, RepliesOK, OnePack, Completing,
         Reading, Answered, Loaded, Open, OwnReply, Busy, Defined
<1>2. CallsOK'
  BY Constants DEF Post, SendGoto, CanPost, PostFails, CallsOK
<1>3. SocketOK'
  BY Constants DEF Post, SendGoto, CanPost, PostFails, SocketOK
<1>4. Connections'
  BY ConnIs DEF Post, SendGoto, CanPost, PostFails, Connections
<1>5. Places'
  BY Constants DEF Post, SendGoto, CanPost, PostFails, Places, Defined, InQueue, Holding,
         Sending, Handed
<1>6. Held'
  BY Constants DEF Post, SendGoto, CanPost, PostFails, Held, Wire, Up
<1>7. Somewhere'
  BY Constants DEF Post, SendGoto, CanPost, PostFails, Somewhere, CallsOK, Places, Defined,
         InQueue, Holding, Sending, Handed, Up
<1>8. Woken'
  BY Constants DEF Post, SendGoto, CanPost, PostFails, Woken, Defined, InQueue, Holding,
         Sending, Up, Active
<1>9. Faulted'
  BY Constants DEF Post, SendGoto, CanPost, PostFails, Faulted, CallsOK, Places, Defined,
         InQueue, Holding, Sending, Handed
<1> QED
  BY <1>1, <1>2, <1>3, <1>4, <1>5, <1>6, <1>7, <1>8, <1>9

LEMMA FailedKeeps ==
  ASSUME ClientInv, Defined, Failed
  PROVE  ClientInv'
<1> USE DEF ClientInv, appVars, queueVars, sendVars, connVars, netVars, replyVars, pastVars
<1>1. FlagsOK' /\ RepliesOK' /\ Reading' /\ OwnReply'
  BY DEF Failed, SendGoto, FlagsOK, RepliesOK, Reading, OwnReply
<1>2. CallsOK'
  BY Constants DEF Failed, SendGoto, CallsOK, Places, Defined, InQueue, Holding, Sending,
         Handed
<1>3. SocketOK'
  BY Constants DEF Failed, SendGoto, SocketOK
<1>4. Connections'
  BY ConnIs DEF Failed, SendGoto, Connections
<1>5. Places'
  BY Constants DEF Failed, SendGoto, Places, Defined, InQueue, Holding, Sending, Handed
<1>6. OnePack'
  BY Constants DEF Failed, SendGoto, OnePack, CallsOK, Places, Busy, Defined, InQueue,
         Holding, Sending, Handed
<1>7. Completing'
  BY Constants DEF Failed, SendGoto, Completing, CallsOK, Places, Defined, Busy, InQueue,
         Holding, Sending, Handed
<1>8. Held'
  BY Constants DEF Failed, SendGoto, Held, Wire, Up
<1>9. Somewhere'
  BY Constants DEF Failed, SendGoto, Somewhere, Defined, InQueue, Holding, Sending, Handed,
         Up
<1>10. Woken'
  BY Constants DEF Failed, SendGoto, Woken, Defined, InQueue, Holding, Sending, Up, Active
<1>11. Faulted'
  BY Constants DEF Failed, SendGoto, Faulted
<1>12. Answered' /\ Loaded'
  BY Constants DEF Failed, SendGoto, Answered, Loaded, Open, CallsOK, Places, Defined, InQueue, Holding,
         Sending, Handed
<1> QED
  BY <1>1, <1>2, <1>3, <1>4, <1>5, <1>6, <1>7, <1>8, <1>9, <1>10, <1>11, <1>12

\* Forgets a signal; whoever waits has a send before it that will end (Woken).
LEMMA ResetKeeps ==
  ASSUME ClientInv, Defined, Reset
  PROVE  ClientInv'
<1> USE DEF ClientInv, appVars, queueVars, sendVars, connVars, netVars, replyVars, pastVars
<1>1. SocketOK' /\ RepliesOK' /\ OnePack' /\ Completing' /\ Held' /\ Reading' /\ Answered' /\ Loaded'
      /\ OwnReply'
  BY DEF Reset, SendGoto, SocketOK, RepliesOK, OnePack, Completing, Held, Reading, Answered, Loaded, Open,
         OwnReply, Busy, Defined, Wire, Up
<1>2. FlagsOK'
  BY DEF Reset, SendGoto, FlagsOK
<1>3. CallsOK'
  BY Constants DEF Reset, SendGoto, CallsOK
<1>4. Connections'
  BY ConnIs DEF Reset, SendGoto, Connections
<1>5. Places'
  BY Constants DEF Reset, SendGoto, Places, Defined, InQueue, Holding, Sending, Handed
<1>6. Somewhere'
  BY Constants DEF Reset, SendGoto, Somewhere, Defined, InQueue, Holding, Sending, Handed,
         Up
<1>7. Woken'
  BY Constants DEF Reset, SendGoto, Woken, Defined, InQueue, Holding, Sending, Up, Active
<1>8. Faulted'
  BY Constants DEF Reset, SendGoto, Faulted
<1> QED
  BY <1>1, <1>2, <1>3, <1>4, <1>5, <1>6, <1>7, <1>8

\* The last chunk: the request is no longer under way, but its client is still NETBUSY.
LEMMA SentKeeps ==
  ASSUME ClientInv, Defined, NEW i \in Conn, Sent(i)
  PROVE  ClientInv'
<1> USE DEF ClientInv, appVars, queueVars, sendVars, connVars, netVars, replyVars, pastVars
<1>1. FlagsOK' /\ RepliesOK' /\ OwnReply'
  BY DEF Sent, IoGoto, FlagsOK, RepliesOK, OwnReply
<1>2. CallsOK'
  BY Constants DEF Sent, IoGoto, CallsOK, Places, Defined, InQueue, Holding, Sending, Handed
<1>3. SocketOK'
  <2>1. /\ m_sendOvl.lremain \in Nat /\ UNCHANGED <<nConn, line, recvIO>> /\ sendIO' = "none"
    BY DEF Sent, SocketOK
  <2>2. m_sendOvl' \in [pdata : Pack \cup {None}, id : Pack \cup {None}, lremain : Nat]
    <3>1. CASE m_sendOvl.lremain > 1 /\ sendIO # "failed"
      <4>1. m_sendOvl' = [m_sendOvl EXCEPT !.lremain = @ - 1] /\ m_sendOvl.lremain - 1 \in Nat
        BY <2>1, <3>1 DEF Sent
      <4> QED
        BY <4>1 DEF SocketOK
    <3>2. CASE ~(m_sendOvl.lremain > 1) /\ sendIO # "failed"
      <4>1. m_sendOvl' = [m_sendOvl EXCEPT !.pdata = None, !.lremain = 0]
        BY <3>2 DEF Sent
      <4> QED
        BY <4>1 DEF SocketOK
    <3>3. CASE sendIO = "failed"
      BY <3>3 DEF Sent, SocketOK
    <3> QED
      BY <3>1, <3>2, <3>3
  <2>3. ioPc' \in [Conn -> {"none", "wait", "more", "complete", "notify", "recv",
                            "disconnect", "unset", "free", "ended"}]
    BY DEF Sent, IoGoto, SocketOK
  <2> QED
    BY <2>1, <2>2, <2>3 DEF SocketOK
<1>4. Connections'
  BY ConnIs DEF Sent, IoGoto, Connections, CallsOK, SocketOK, RepliesOK
<1>5. Places'
  BY Constants DEF Sent, IoGoto, Places, SocketOK, Connections, Defined, InQueue, Holding,
         Sending, Handed
<1>6. OnePack'
  BY Constants DEF Sent, IoGoto, OnePack, Busy
<1>7. Completing'
  <2>1. /\ \A j \in Conn \ {i} : ioPc[j] # "complete" /\ ioPc'[j] = ioPc[j]
        /\ ioPc[i] = "wait" /\ UNCHANGED <<fault, callPc, netBusy, failed>> /\ Sending
        /\ m_sendOvl'.id = m_sendOvl.id
    BY Working DEF Sent, IoGoto, SocketOK, Sending
  <2>2. /\ m_sendOvl.id \in Pack /\ Handed(m_sendOvl.id) /\ Owner[m_sendOvl.id] \in netBusy
        /\ Busy(m_sendOvl.id)
    BY <2>1 DEF Places, OnePack, Handed, Busy
  <2>3. CASE ioPc'[i] = "complete"
    <3>1. sent' = sent \cup {m_sendOvl.id}
      BY <2>3 DEF Sent, IoGoto, SocketOK
    <3>2. \A k \in Pack : Busy(k)' <=> Busy(k) /\ k # m_sendOvl.id
      BY <2>1, <3>1 DEF Busy
    <3> QED
      BY <2>1, <2>2, <2>3, <3>2 DEF Completing, OnePack
  <2>4. CASE ioPc'[i] # "complete"
    <3>1. sent' = sent
      BY <2>4 DEF Sent, IoGoto, SocketOK
    <3>2. \A k \in Pack : Busy(k)' <=> Busy(k)
      BY <2>1, <3>1 DEF Busy
    <3> QED
      BY <2>1, <2>2, <2>4, <3>2 DEF Completing
  <2> QED
    BY <2>3, <2>4
<1>8. Held'
  BY Constants DEF Sent, IoGoto, Held, CallsOK, SocketOK, RepliesOK, Wire, Up
<1>9. Reading'
  BY Constants DEF Sent, IoGoto, Reading, CallsOK, SocketOK, RepliesOK
<1>10. Somewhere'
  BY Constants DEF Sent, IoGoto, Somewhere, SocketOK, Connections, Held, Reading, Defined,
         InQueue, Holding, Sending, Handed, Up, Wire
<1>11. Woken'
  BY Constants DEF Sent, IoGoto, Woken, SocketOK, Connections, Held, Reading, Defined,
         InQueue, Holding, Sending, Up, Active, Wire
<1>12. Faulted'
  BY Constants DEF Sent, IoGoto, Faulted, CallsOK, SocketOK, RepliesOK
<1>13. Answered' /\ Loaded'
  BY Constants DEF Sent, IoGoto, Answered, Loaded, Open, CallsOK, Places, Defined, InQueue, Holding,
         Sending, Handed
<1> QED
  BY <1>1, <1>2, <1>3, <1>4, <1>5, <1>6, <1>7, <1>8, <1>9, <1>10, <1>11, <1>12, <1>13

LEMMA MoreKeeps ==
  ASSUME ClientInv, Defined, NEW i \in Conn, More(i)
  PROVE  ClientInv'
<1> USE DEF ClientInv, appVars, queueVars, sendVars, connVars, netVars, replyVars, pastVars
<1>a. /\ ioPc[i] = "more" /\ \A j \in Conn \ {i} : ioPc'[j] = ioPc[j]
      /\ UNCHANGED <<line, nConn, recvIO, reply, m_sendOvl, callPc, m_sendQueue, sendPc>>
      /\ UNCHANGED <<bufinfo, sent, failed>>
  BY DEF More, IoGoto, SocketOK
<1>b. Up => sendIO' = "posted" /\ ioPc'[i] = "wait"
  BY <1>a, Working DEF More, IoGoto, SocketOK
<1>c. Up' <=> Up
  BY <1>a DEF Up
<1>1. FlagsOK' /\ RepliesOK' /\ OnePack' /\ Answered' /\ Loaded' /\ OwnReply'
  BY DEF More, IoGoto, CanPost, PostFails, FlagsOK, RepliesOK, OnePack, Answered, Loaded, Open, OwnReply,
         Busy
<1>2. CallsOK'
  BY Constants DEF More, IoGoto, CanPost, PostFails, CallsOK
<1>3. SocketOK'
  BY Constants DEF More, IoGoto, CanPost, PostFails, SocketOK
<1>4. Connections'
  BY ConnIs DEF More, IoGoto, CanPost, PostFails, Connections, CallsOK, SocketOK, RepliesOK
<1>5. Places'
  BY Constants DEF More, IoGoto, CanPost, PostFails, Places, Defined, InQueue, Holding,
         Sending, Handed
<1>6. Completing'
  BY Constants DEF More, IoGoto, CanPost, PostFails, Completing, CallsOK, SocketOK,
         RepliesOK, Defined, Busy
<1>7. Held'
  BY <1>a, <1>b, <1>c DEF Held, Wire
<1>8. Reading'
  BY Constants DEF More, IoGoto, CanPost, PostFails, Reading, CallsOK, SocketOK, RepliesOK
<1>9. Somewhere'
  <2>1. Up => Sending /\ Sending'
    BY <1>a, <1>b DEF Sending
  <2>2. \A k : (InQueue(k)' <=> InQueue(k)) /\ (Handed(k)' <=> Handed(k))
    BY <1>a DEF InQueue, Handed
  <2> QED
    BY <1>a, <1>c, <2>1, <2>2 DEF Somewhere, Holding
<1>10. Woken'
  BY Constants DEF More, IoGoto, CanPost, PostFails, Woken, SocketOK, Connections, Defined,
         InQueue, Holding, Sending, Up, Active
<1>11. Faulted'
  BY Constants DEF More, IoGoto, CanPost, PostFails, Faulted, CallsOK, SocketOK, RepliesOK
<1> QED
  BY <1>1, <1>2, <1>3, <1>4, <1>5, <1>6, <1>7, <1>8, <1>9, <1>10, <1>11

\* The client whose only request has been sent becomes NETIDLE.
LEMMA CompleteKeeps ==
  ASSUME ClientInv, Defined, NEW i \in Conn, Complete(i)
  PROVE  ClientInv'
<1> USE DEF ClientInv, appVars, queueVars, sendVars, connVars, netVars, replyVars, pastVars
<1>1. FlagsOK' /\ RepliesOK' /\ Answered' /\ Loaded' /\ OwnReply'
  BY DEF Complete, IoGoto, FlagsOK, RepliesOK, Answered, Loaded, Open, OwnReply
<1>2. CallsOK'
  BY Constants DEF Complete, IoGoto, CallsOK
<1>3. SocketOK'
  BY Constants DEF Complete, IoGoto, SocketOK
<1>4. Connections'
  BY ConnIs DEF Complete, IoGoto, Connections
<1>5. Places'
  BY Constants DEF Complete, IoGoto, Places, Defined, InQueue, Holding, Sending, Handed
<1>6. OnePack'
  BY Constants DEF Complete, IoGoto, OnePack, CallsOK, Completing, Places, Busy, Defined,
         InQueue, Holding, Sending, Handed
<1>7. Completing'
  BY Constants DEF Complete, IoGoto, Completing, SocketOK, Connections, Defined, Busy
<1>8. Held'
  BY Constants DEF Complete, IoGoto, Held, Wire, Up
<1>9. Reading'
  BY Constants DEF Complete, IoGoto, Reading
<1>10. Somewhere'
  BY Constants DEF Complete, IoGoto, Somewhere, Defined, InQueue, Holding, Sending, Handed,
         Up
<1>11. Woken'
  BY Constants DEF Complete, IoGoto, Woken, Defined, InQueue, Holding, Sending, Up, Active
<1>12. Faulted'
  BY Constants DEF Complete, IoGoto, Faulted
<1> QED
  BY <1>1, <1>2, <1>3, <1>4, <1>5, <1>6, <1>7, <1>8, <1>9, <1>10, <1>11, <1>12

LEMMA NotifyKeeps ==
  ASSUME ClientInv, Defined, NEW i \in Conn, Notify(i)
  PROVE  ClientInv'
<1> USE DEF ClientInv, appVars, queueVars, sendVars, connVars, netVars, replyVars, pastVars
<1>1. CallsOK' /\ RepliesOK' /\ OnePack' /\ Answered' /\ Loaded' /\ OwnReply'
  BY DEF Notify, IoGoto, CallsOK, RepliesOK, OnePack, Answered, Loaded, Open, OwnReply, Busy
<1>2. FlagsOK'
  BY DEF Notify, IoGoto, FlagsOK
<1>3. SocketOK'
  BY Constants DEF Notify, IoGoto, SocketOK
<1>4. Connections'
  BY ConnIs DEF Notify, IoGoto, Connections
<1>5. Places'
  BY Constants DEF Notify, IoGoto, Places, Defined, InQueue, Holding, Sending, Handed
<1>6. Completing'
  BY Constants DEF Notify, IoGoto, Completing, Defined, Busy
<1>7. Held'
  BY Constants DEF Notify, IoGoto, Held, Wire, Up
<1>8. Reading'
  BY Constants DEF Notify, IoGoto, Reading
<1>9. Somewhere'
  BY Constants DEF Notify, IoGoto, Somewhere, Defined, InQueue, Holding, Sending, Handed, Up
<1>10. Woken'
  BY Constants DEF Notify, IoGoto, Woken, Defined, InQueue, Holding, Sending, Up, Active
<1>11. Faulted'
  BY Constants DEF Notify, IoGoto, Faulted
<1> QED
  BY <1>1, <1>2, <1>3, <1>4, <1>5, <1>6, <1>7, <1>8, <1>9, <1>10, <1>11

\* A read that completes on a connection that holds has brought something.
LEMMA ReceiveKeeps ==
  ASSUME ClientInv, Defined, NEW i \in Conn, Receive(i)
  PROVE  ClientInv'
<1> USE DEF ClientInv, appVars, queueVars, sendVars, connVars, netVars, replyVars, pastVars
<1>1. FlagsOK' /\ CallsOK' /\ OnePack'
  BY DEF Receive, IoGoto, Wire, FlagsOK, CallsOK, OnePack, Busy
<1>2. SocketOK'
  BY Constants DEF Receive, IoGoto, Wire, SocketOK
<1>3. RepliesOK'
  BY Constants DEF Receive, IoGoto, Wire, RepliesOK
<1>4. Connections'
  BY ConnIs DEF Receive, IoGoto, Wire, Connections, SocketOK
<1>5. Places'
  BY Constants DEF Receive, IoGoto, Wire, Places, CallsOK, SocketOK, RepliesOK, Defined,
         InQueue, Holding, Sending, Handed
<1>6. Completing'
  BY Constants DEF Receive, IoGoto, Wire, Completing, CallsOK, SocketOK, RepliesOK, Defined,
         Busy
<1>7. Held'
  <2>1. /\ ioPc[i] \in {"wait", "recv"} /\ \A j \in Conn \ {i} : ioPc'[j] = ioPc[j]
        /\ UNCHANGED <<line, nConn, sendIO>> /\ recvIO' # "done"
    BY DEF Receive, IoGoto, SocketOK, Reading
  <2>2. Up' <=> Up
    BY <2>1 DEF Up
  <2>3. Up => ioPc'[i] = "recv" /\ \A k \in Pack : reply'[k] # "lost"
    BY <2>1 DEF Receive, IoGoto, SocketOK, Held, RepliesOK
  <2> QED
    BY <2>1, <2>2, <2>3 DEF Held
<1>8. Reading'
  BY Constants DEF Receive, IoGoto, Wire, Reading
<1>9. Somewhere'
  BY Constants DEF Receive, IoGoto, Wire, Somewhere, CallsOK, SocketOK, RepliesOK, Defined,
         InQueue, Holding, Sending, Handed, Up
<1>10. Woken'
  BY Constants DEF Receive, IoGoto, Wire, Woken, CallsOK, SocketOK, RepliesOK, Defined,
         InQueue, Holding, Sending, Up, Active
<1>11. Faulted'
  BY Constants DEF Receive, IoGoto, Wire, Faulted, CallsOK, SocketOK, RepliesOK
<1>12. Answered' /\ Loaded'
  <2>1. \A j \in Pack : Open(j)' => Open(j) /\ (reply'[j] = "loaded" <=> reply[j] = "loaded")
    BY DEF Receive, Open, Wire, RepliesOK
  <2>2. Loaded'
    BY <2>1, NoneOpened DEF Receive
  <2> QED
    BY <2>2 DEF Receive, Wire, Answered, RepliesOK
<1>13. OwnReply'
  BY Constants DEF Receive, IoGoto, Wire, OwnReply, CallsOK, SocketOK, RepliesOK
<1> QED
  BY <1>1, <1>2, <1>3, <1>4, <1>5, <1>6, <1>7, <1>8, <1>9, <1>10, <1>11, <1>12, <1>13

LEMMA RereadKeeps ==
  ASSUME ClientInv, Defined, NEW i \in Conn, Reread(i)
  PROVE  ClientInv'
<1> USE DEF ClientInv, appVars, queueVars, sendVars, connVars, netVars, replyVars, pastVars
<1>1. FlagsOK' /\ CallsOK' /\ RepliesOK' /\ OnePack' /\ Answered' /\ Loaded' /\ OwnReply'
  BY DEF Reread, IoGoto, CanPost, PostFails, FlagsOK, CallsOK, RepliesOK, OnePack, Answered, Loaded, Open,
         OwnReply, Busy
<1>2. SocketOK'
  <2>1. \E pc \in {"wait", "disconnect"} : ioPc' = [ioPc EXCEPT ![i] = pc]
    BY DEF Reread, IoGoto
  <2>2. ioPc' \in [Conn -> {"none", "wait", "more", "complete", "notify", "recv",
                           "disconnect", "unset", "free", "ended"}]
    BY <2>1 DEF SocketOK
  <2>3. recvIO' \in {"none", "posted", "done"}
    BY DEF Reread, SocketOK
  <2>4. UNCHANGED <<m_sendOvl, nConn, line, sendIO>>
    BY DEF Reread
  <2>5. SocketOK
    OBVIOUS
  <2> HIDE DEF ClientInv
  <2> QED
    BY <2>2, <2>3, <2>4, <2>5 DEF SocketOK
<1>3. Connections'
  <2>1. PICK pc \in {"wait", "disconnect"} : ioPc' = [ioPc EXCEPT ![i] = pc]
    BY DEF Reread, IoGoto
  <2>2. ioPc[i] = "recv" /\ i = nConn /\ m_bConnected
    BY DEF Reread, Connections
  <2>3. UNCHANGED <<nConn, m_bConnected, line, sendIO, sendPc>>
    BY DEF Reread
  <2>4. ioPc'[nConn] = pc /\ \A j \in Conn : j # nConn => ioPc'[j] = ioPc[j]
    BY <2>1, <2>2 DEF SocketOK
  <2> QED
    BY ConnIs, <2>2, <2>3, <2>4 DEF Connections
<1>4. Places'
  <2>1. Sending' => Sending
    BY DEF Reread, IoGoto, Sending, SocketOK
  <2>2. UNCHANGED <<m_sendQueue, sendPc, bufinfo, m_sendOvl, callPc, sent, failed>>
    BY DEF Reread
  <2> QED
    BY <2>1, <2>2 DEF Places, InQueue, Holding, Handed
<1>5. Completing'
  BY Constants DEF Reread, IoGoto, CanPost, PostFails, Completing, CallsOK, SocketOK,
         RepliesOK, Defined, Busy
<1>6. Held'
  <2>1. /\ ioPc[i] = "recv" /\ \A j \in Conn \ {i} : ioPc'[j] = ioPc[j]
        /\ UNCHANGED <<line, nConn, sendIO, reply>>
    BY DEF Reread, IoGoto, SocketOK
  <2>2. Up' <=> Up
    BY <2>1 DEF Up
  <2>3. Up => ioPc'[i] = "wait" /\ recvIO' = "posted"
    BY <2>1, Working DEF Reread, IoGoto, SocketOK
  <2> QED
    BY <2>1, <2>2, <2>3 DEF Held
<1>7. Reading'
  BY Constants DEF Reread, IoGoto, CanPost, PostFails, Reading, SocketOK, Connections
<1>8. Somewhere'
  BY Constants DEF Reread, IoGoto, CanPost, PostFails, Somewhere, CallsOK, SocketOK,
         RepliesOK, Defined, InQueue, Holding, Sending, Handed, Up
<1>9. Woken'
  BY Constants DEF Reread, IoGoto, CanPost, PostFails, Woken, CallsOK, SocketOK, RepliesOK,
         Defined, InQueue, Holding, Sending, Up, Active
<1>10. Faulted'
  BY Constants DEF Reread, IoGoto, CanPost, PostFails, Faulted, CallsOK, SocketOK, RepliesOK
<1> QED
  BY <1>1, <1>2, <1>3, <1>4, <1>5, <1>6, <1>7, <1>8, <1>9, <1>10

LEMMA DisconnectKeeps ==
  ASSUME ClientInv, Defined, NEW i \in Conn, Disconnect(i)
  PROVE  ClientInv'
<1> USE DEF ClientInv, appVars, queueVars, sendVars, connVars, netVars, replyVars, pastVars
<1>1. CallsOK' /\ OnePack'
  BY DEF Disconnect, IoGoto, CallsOK, OnePack, Busy
<1>2. FlagsOK'
  BY DEF Disconnect, IoGoto, FlagsOK
<1>3. SocketOK'
  BY Constants DEF Disconnect, IoGoto, SocketOK
<1>4. RepliesOK'
  BY Constants DEF Disconnect, IoGoto, RepliesOK
<1>5. Connections'
  BY ConnIs DEF Disconnect, IoGoto, Connections, CallsOK, SocketOK, RepliesOK
<1>6. Places'
  BY Constants DEF Disconnect, IoGoto, Places, Defined, InQueue, Holding, Sending, Handed
<1>7. Completing'
  BY Constants DEF Disconnect, IoGoto, Completing, Defined, Busy
<1>8. Held'
  BY Constants DEF Disconnect, IoGoto, Held, Wire, Up
<1>9. Reading'
  BY Constants DEF Disconnect, IoGoto, Reading
<1>10. Somewhere'
  BY Constants DEF Disconnect, IoGoto, Somewhere, Defined, InQueue, Holding, Sending,
         Handed, Up
<1>11. Woken'
  BY Constants DEF Disconnect, IoGoto, Woken, Defined, InQueue, Holding, Sending, Up, Active
<1>12. Faulted'
  BY Constants DEF Disconnect, IoGoto, Faulted, CallsOK, Places, Defined, InQueue, Holding,
         Sending, Handed
<1>13. Answered' /\ Loaded'
  <2>1. \A j \in Pack : Open(j)' => Open(j) /\ (reply'[j] = "loaded" <=> reply[j] = "loaded")
    BY DEF Disconnect, Open
  <2>2. Loaded'
    BY <2>1, NoneOpened DEF Disconnect
  <2> QED
    BY <2>2 DEF Disconnect, Answered, RepliesOK
<1>14. OwnReply'
  BY Constants DEF Disconnect, IoGoto, OwnReply
<1> QED
  BY <1>1, <1>2, <1>3, <1>4, <1>5, <1>6, <1>7, <1>8, <1>9, <1>10, <1>11, <1>12, <1>13, <1>14

\* The last step in which the I/O thread's connection counts as the client's.
LEMMA UnsetKeeps ==
  ASSUME ClientInv, Defined, NEW i \in Conn, Unset(i)
  PROVE  ClientInv'
<1> USE DEF ClientInv, appVars, queueVars, sendVars, connVars, netVars, replyVars, pastVars
<1>1. CallsOK' /\ RepliesOK' /\ OnePack' /\ Answered' /\ Loaded' /\ OwnReply'
  BY DEF Unset, IoGoto, CallsOK, RepliesOK, OnePack, Answered, Loaded, Open, OwnReply, Busy
<1>2. FlagsOK'
  BY DEF Unset, IoGoto, FlagsOK
<1>3. SocketOK'
  BY Constants DEF Unset, IoGoto, SocketOK
<1>4. Connections'
  BY ConnIs DEF Unset, IoGoto, Connections, CallsOK, SocketOK, RepliesOK
<1>5. Places'
  BY Constants DEF Unset, IoGoto, Places, Defined, InQueue, Holding, Sending, Handed
<1>6. Completing'
  BY Constants DEF Unset, IoGoto, Completing, Defined, Busy
<1>7. Held'
  BY Constants DEF Unset, IoGoto, Held, Wire, Up
<1>8. Reading'
  BY Constants DEF Unset, IoGoto, Reading
<1>9. Somewhere'
  BY Constants DEF Unset, IoGoto, Somewhere, Defined, InQueue, Holding, Sending, Handed, Up
<1>10. Woken'
  BY Constants DEF Unset, IoGoto, Woken, Defined, InQueue, Holding, Sending, Up, Active
<1>11. Faulted'
  BY Constants DEF Unset, IoGoto, Faulted
<1> QED
  BY <1>1, <1>2, <1>3, <1>4, <1>5, <1>6, <1>7, <1>8, <1>9, <1>10, <1>11

LEMMA FreeKeeps ==
  ASSUME ClientInv, Defined, NEW i \in Conn, Free(i)
  PROVE  ClientInv'
<1> USE DEF ClientInv, appVars, queueVars, sendVars, connVars, netVars, replyVars, pastVars
<1>1. FlagsOK' /\ CallsOK' /\ RepliesOK' /\ OnePack' /\ Answered' /\ Loaded' /\ OwnReply'
  BY DEF Free, IoGoto, FlagsOK, CallsOK, RepliesOK, OnePack, Answered, Loaded, Open, OwnReply, Busy
<1>2. SocketOK'
  BY Constants DEF Free, IoGoto, SocketOK
<1>3. Connections'
  BY ConnIs DEF Free, IoGoto, Connections
<1>4. Places'
  BY Constants DEF Free, IoGoto, Places, Defined, InQueue, Holding, Sending, Handed
<1>5. Completing'
  BY Constants DEF Free, IoGoto, Completing, Defined, Busy
<1>6. Held'
  BY Constants DEF Free, IoGoto, Held, Wire, Up
<1>7. Reading'
  BY Constants DEF Free, IoGoto, Reading
<1>8. Somewhere'
  BY Constants DEF Free, IoGoto, Somewhere, Defined, InQueue, Holding, Sending, Handed, Up
<1>9. Woken'
  BY Constants DEF Free, IoGoto, Woken, Defined, InQueue, Holding, Sending, Up, Active
<1>10. Faulted'
  BY Constants DEF Free, IoGoto, Faulted
<1> QED
  BY <1>1, <1>2, <1>3, <1>4, <1>5, <1>6, <1>7, <1>8, <1>9, <1>10

LEMMA SendCompletesKeeps ==
  ASSUME ClientInv, Defined, SendCompletes
  PROVE  ClientInv'
<1> USE DEF ClientInv, appVars, queueVars, sendVars, connVars, netVars, replyVars, pastVars
<1>1. FlagsOK' /\ CallsOK' /\ RepliesOK' /\ OnePack' /\ Completing' /\ Reading' /\ Answered' /\ Loaded'
      /\ OwnReply'
  BY DEF SendCompletes, Outside, FlagsOK, CallsOK, RepliesOK, OnePack, Completing, Reading,
         Answered, Loaded, Open, OwnReply, Busy, Defined
<1>2. SocketOK'
  BY Constants DEF SendCompletes, Outside, SocketOK
<1>3. Connections'
  BY ConnIs DEF SendCompletes, Outside, Connections
<1>4. Places'
  BY Constants DEF SendCompletes, Outside, Places, Defined, InQueue, Holding, Sending,
         Handed
<1>5. Held'
  BY Constants DEF SendCompletes, Outside, Held, Wire, Up
<1>6. Somewhere'
  BY Constants DEF SendCompletes, Outside, Somewhere, Defined, InQueue, Holding, Sending,
         Handed, Up
<1>7. Woken'
  BY Constants DEF SendCompletes, Outside, Woken, Defined, InQueue, Holding, Sending, Up,
         Active
<1>8. Faulted'
  BY Constants DEF SendCompletes, Outside, Faulted, CallsOK, Places, Defined, InQueue,
         Holding, Sending, Handed
<1> QED
  BY <1>1, <1>2, <1>3, <1>4, <1>5, <1>6, <1>7, <1>8

LEMMA RecvCompletesKeeps ==
  ASSUME ClientInv, Defined, RecvCompletes
  PROVE  ClientInv'
<1> USE DEF ClientInv, appVars, queueVars, sendVars, connVars, netVars, replyVars, pastVars
<1>1. FlagsOK' /\ CallsOK' /\ RepliesOK' /\ Connections' /\ Places' /\ OnePack' /\ Completing'
      /\ Somewhere' /\ Woken' /\ Faulted' /\ Answered' /\ Loaded' /\ OwnReply'
  BY DEF RecvCompletes, Wire, Outside, FlagsOK, CallsOK, RepliesOK, Connections, Places,
         OnePack, Completing, Somewhere, Woken, Faulted, Answered, Loaded, Open, OwnReply, Defined, InQueue,
         Holding, Sending, Handed, Busy, Up, Active
<1>2. SocketOK'
  BY Constants DEF RecvCompletes, Wire, Outside, SocketOK
<1>3. Held'
  BY Constants DEF RecvCompletes, Wire, Outside, Held, Up
<1>4. Reading'
  BY Constants DEF RecvCompletes, Wire, Outside, Reading
<1> QED
  BY <1>1, <1>2, <1>3, <1>4

LEMMA LoseKeeps ==
  ASSUME ClientInv, Defined, Lose
  PROVE  ClientInv'
<1> USE DEF ClientInv, appVars, queueVars, sendVars, connVars, netVars, replyVars, pastVars
<1>1. FlagsOK' /\ CallsOK' /\ RepliesOK' /\ Places' /\ OnePack' /\ Completing' /\ Reading'
      /\ Faulted' /\ Answered' /\ Loaded' /\ OwnReply'
  BY DEF Lose, Outside, FlagsOK, CallsOK, RepliesOK, Places, OnePack, Completing, Reading,
         Faulted, Answered, Loaded, Open, OwnReply, Defined, InQueue, Holding, Sending, Handed, Busy
<1>2. SocketOK'
  BY Constants DEF Lose, Outside, SocketOK
<1>3. Connections'
  BY ConnIs DEF Lose, Outside, Connections
<1>4. Held'
  BY Constants DEF Lose, Outside, Held, Wire, Up
<1>5. Somewhere'
  BY Constants DEF Lose, Outside, Somewhere, Defined, InQueue, Holding, Sending, Handed, Up
<1>6. Woken'
  BY Constants DEF Lose, Outside, Woken, Defined, InQueue, Holding, Sending, Up, Active
<1> QED
  BY <1>1, <1>2, <1>3, <1>4, <1>5, <1>6

-------------------------------------------------------------------------------
(* The invariant, and what it says *)

LEMMA InitClient == Init => ClientInv
<1> SUFFICES ASSUME Init PROVE ClientInv
  OBVIOUS
<1>1. FlagsOK
  BY DEF Init, FlagsOK
<1>2. CallsOK
  BY DEF Init, CallsOK
<1>3. SocketOK
  BY Constants DEF Init, SocketOK, NoSend, Conn
<1>4. RepliesOK
  BY DEF Init, RepliesOK
<1>5. \A i \in Conn : i > 0
  BY Constants DEF Conn
<1>6. /\ Connections /\ OnePack /\ Held /\ Reading /\ Faulted /\ Answered /\ Loaded /\ OwnReply
  BY <1>5 DEF Init, Connections, OnePack, Busy, Held, Reading, Faulted, Answered, Loaded, Open, OwnReply
<1>7. /\ ~Holding /\ ~Sending /\ \A k : ~InQueue(k)
      /\ \A k \in Pack : ~Busy(k) /\ ~Handed(k)
  BY DEF Init, Holding, Sending, InQueue, Busy, Handed
<1>8. Places /\ Completing
  BY <1>7 DEF Init, Places, Completing
<1>9. Somewhere /\ Woken
  BY <1>7 DEF Init, Somewhere, Woken
<1> QED
  BY <1>1, <1>2, <1>3, <1>4, <1>6, <1>8, <1>9 DEF ClientInv

LEMMA StutterKeeps ==
  ASSUME ClientInv, UNCHANGED vars
  PROVE  ClientInv'
<1> USE DEF ClientInv, vars, appVars, queueVars, sendVars, connVars, netVars, replyVars, pastVars
<1>1. FlagsOK' /\ CallsOK' /\ SocketOK' /\ RepliesOK'
  BY DEF FlagsOK, CallsOK, SocketOK, RepliesOK
<1>2. Connections' /\ Places' /\ OnePack' /\ Completing'
  BY DEF Connections, Places, OnePack, Completing, Defined, InQueue, Holding, Sending, Busy,
         Handed
<1>3. Held' /\ Reading' /\ Somewhere' /\ Woken' /\ Faulted' /\ Answered' /\ Loaded' /\ OwnReply'
  BY DEF Held, Wire, Up, Reading, Somewhere, Woken, Active, Faulted, Answered, Loaded, Open, OwnReply,
         Defined, InQueue, Holding, Sending, Busy, Handed
<1> QED
  BY <1>1, <1>2, <1>3

LEMMA NextKeeps == ClientInv /\ [Next]_vars => ClientInv'
<1> SUFFICES ASSUME ClientInv, [Next]_vars PROVE ClientInv'
  OBVIOUS
<1>1. CASE UNCHANGED vars
  BY <1>1, StutterKeeps
<1>2. CASE Next /\ ~Quiescent
  <2>1. Defined
    BY <1>2 DEF Next, Defined
  <2>2. ASSUME NEW k \in Pack, Execute(k) PROVE ClientInv'
    BY <2>1, <2>2, ExecuteKeeps
  <2>3. ASSUME NEW k \in Pack, CallStep(k) PROVE ClientInv'
    BY <2>1, <2>3, ClaimKeeps, PushKeeps, SignalKeeps DEF CallStep
  <2>4. ASSUME NEW k \in Pack, ReplyStep(k) \/ Answer(k) PROVE ClientInv'
    BY <2>1, <2>4, LoadKeeps, CallbackKeeps, AnswerKeeps DEF ReplyStep
  <2>5. CASE SendStep
    BY <2>1, <2>5, WakeKeeps, RearmKeeps, PopKeeps, SendDataKeeps, ConnectKeeps, AwaitKeeps,
       FillKeeps, PostKeeps, FailedKeeps, ResetKeeps DEF SendStep
  <2>6. ASSUME NEW i \in Conn, IoStep(i) PROVE ClientInv'
    BY <2>1, <2>6, SentKeeps, MoreKeeps, CompleteKeeps, NotifyKeeps, ReceiveKeeps,
       RereadKeeps, DisconnectKeeps, UnsetKeeps, FreeKeeps DEF IoStep
  <2>7. CASE SendCompletes \/ RecvCompletes \/ Lose
    BY <2>1, <2>7, SendCompletesKeeps, RecvCompletesKeeps, LoseKeeps
  <2> QED
    BY <1>2, <2>2, <2>3, <2>4, <2>5, <2>6, <2>7 DEF Next, SystemStep
<1> QED
  BY <1>1, <1>2 DEF Quiescent

\* ClientInv holds in every state: each request under way is in one place, and on its way.
THEOREM ClientInvariant == Spec => []ClientInv
  BY InitClient, NextKeeps, PTL DEF Spec

\* The variables have their types.
THEOREM TypeCorrect == Spec => []TypeOK
<1>1. ClientInv => TypeOK
  BY DEF ClientInv, TypeOK, FlagsOK, CallsOK, SocketOK, RepliesOK
<1> QED
  BY <1>1, ClientInvariant, PTL

\* adonetstate keeps the requests of a client apart, however many clients there are and
\* whatever connections and sends fail.
THEOREM RequestsApart == Spec => []OnePerClient
<1>1. ClientInv => OnePerClient
  <2> SUFFICES ASSUME ClientInv, NEW c \in Client
               PROVE  /\ Cardinality(UnderWay(c)) <= 1
                      /\ UnderWay(c) # {} => c \in netBusy
    BY DEF OnePerClient
  <2>1. \A k \in UnderWay(c) : k \in Pack /\ Owner[k] = c /\ Busy(k)
    BY DEF UnderWay, Busy
  <2>2. UnderWay(c) # {} => c \in netBusy
    BY <2>1 DEF ClientInv, OnePack
  <2>3. CASE UnderWay(c) = {}
    BY <2>2, <2>3, FS_EmptySet
  <2>4. CASE UnderWay(c) # {}
    <3>1. PICK k \in UnderWay(c) : TRUE
      BY <2>4
    <3>2. UnderWay(c) = {k}
      BY <2>1, <3>1 DEF ClientInv, OnePack
    <3>3. Cardinality(UnderWay(c)) = 1
      BY <3>2, FS_Singleton
    <3> QED
      BY <2>2, <3>3
  <2> QED
    BY <2>3, <2>4
<1> QED
  BY <1>1, ClientInvariant, PTL

\* AdoClientManager.cpp:140: what is queued is sent and answered, before the client comes to
\* rest, as long as its first connection holds and every SendData succeeds: no wake-up of the
\* send thread is lost, though ResetEvent comes after the pop.
THEOREM NothingForgotten == Spec => []NoneStuck
<1>1. ClientInv => NoneStuck
  <2> SUFFICES ASSUME ClientInv, Quiet, line = "up", nConn = 1, failed = {}
               PROVE  netBusy = {} /\ \A k \in Pack : callPc[k] = "accepted" => reply[k] = "shown"
    BY DEF NoneStuck
  <2> USE DEF ClientInv
  <2>1. ~Holding /\ ~Sending /\ ~Active
    BY DEF Quiet, Holding, Sending, Active
  <2>2. Defined
    BY DEF Quiet, Faulted, CallsOK, Defined
  <2>3. Up
    BY DEF Up
  <2>4. \A k \in Pack : ~Busy(k)
    <3> SUFFICES ASSUME NEW k \in Pack, Busy(k) PROVE FALSE
      OBVIOUS
    <3>1. callPc[k] = "accepted" /\ Handed(k)
      BY DEF Quiet, Busy, Handed
    <3>2. InQueue(k)
      BY <2>1, <2>2, <2>3, <3>1 DEF Somewhere
    <3> QED
      BY <2>1, <2>2, <2>3, <3>1, <3>2 DEF Woken, Quiet
  <2>5. netBusy = {}
    BY <2>2, <2>4 DEF Completing, Quiet
  <2>6. ASSUME NEW k \in Pack, callPc[k] = "accepted" PROVE reply[k] = "shown"
    <3>1. k \in sent
      BY <2>4, <2>6 DEF Busy
    <3> QED
      BY <2>3, <3>1 DEF Quiet, Held
  <2> QED
    BY <2>5, <2>6
<1> QED
  BY <1>1, ClientInvariant, PTL

\* A callback sees what its own reply brought, or no record set, unless another execute of
\* its client was open at the same time; a failed reply or a refused call included.
THEOREM RepliesOwn == Spec => []OwnReply
<1>1. ClientInv => OwnReply
  BY DEF ClientInv
<1> QED
  BY <1>1, ClientInvariant, PTL

==============================================================================
