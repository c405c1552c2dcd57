----------------------------- MODULE MidClient ------------------------------
(***************************************************************************)
(* The client side (MidClient/): threads of the application execute        *)
(* requests on CAdoClient objects; CAdoClientManager queues them for its   *)
(* send thread, which hands them to the one CAsynSock; the socket's I/O    *)
(* thread carries sends on and passes replies to threads of the system's   *)
(* pool, which run the callbacks.                                          *)
(*                                                                         *)
(* m_mutex guards the map of clients and the appends to the queue only, so *)
(* every other access is a step.  The socket connects without a proxy, on  *)
(* demand, as after SetDBProvider.  A pack is a request, and its reply.    *)
(***************************************************************************)
EXTENDS Integers, Sequences, FiniteSets

CONSTANTS
  Client,    \* CAdoClient objects
  Pack,      \* requests
  Owner,     \* the client of a request
  Updates,   \* the requests made by update; the others are made by execute
  Chunks,    \* how many WSASends (MAX_BUFFER_SIZE each) a request takes
  MaxConn,   \* bound: how often a connection can be made
  Faults,    \* "lost": connections break; "refused": connecting fails
  None

ASSUME ClientAssumption ==
  /\ Owner \in [Pack -> Client] /\ Chunks \in [Pack -> Nat \ {0}]
  /\ Updates \subseteq Pack /\ MaxConn \in Nat
  /\ Faults \subseteq {"lost", "refused"}
  /\ None \notin Client \cup Pack

Conn == 1..MaxConn

VARIABLES
  netBusy,       \* the clients whose adonetstate is NETBUSY
  m_sendQueue,
  m_hEvent,      \* the event of the send thread is signalled
  apc,           \* an APC is queued to the send thread
  callPc,        \* per pack: how far its execute or update has got
  sendPc, bComplete, bufinfo,  \* the send thread
  m_bConnected, m_hConnected,
  m_sendOvl,     \* what CAsynSock sends: its data, id, and chunks left
  nConn, line,   \* the connections made; the last one, as the network has it
  ioPc,          \* per connection: where its I/O thread is
  sendIO, recvIO,  \* the overlapped operations of the last connection
  reply,         \* per pack: how far its reply has got
  dataset,       \* per client: whose reply its record set holds, None if m_bDataSet is not set
  seen,          \* per pack: what the record set held when its callback ran (history)
  empty,         \* executes whose reply brought no record set (history)
  overlapped,    \* executes that met another one of their client (history)
  sent, failed,  \* packs that were sent to the end; on which SendData failed (history)
  fault          \* the first thing done that the program has no defined behaviour for

appVars == <<netBusy, callPc>>
queueVars == <<m_sendQueue, m_hEvent, apc>>
sendVars == <<sendPc, bComplete, bufinfo>>
connVars == <<m_bConnected, m_hConnected, nConn>>
netVars == <<line, sendIO, recvIO>>
replyVars == <<reply, dataset, seen, empty>>
pastVars == <<sent, failed, fault, overlapped>>
vars == <<appVars, queueVars, sendVars, connVars, m_sendOvl, ioPc, netVars,
          replyVars, pastVars>>

NoSend == [pdata |-> None, id |-> None, lremain |-> 0]

Init ==
  /\ netBusy = {} /\ callPc = [k \in Pack |-> "new"]
  /\ m_sendQueue = <<>> /\ m_hEvent = FALSE /\ apc = FALSE
  /\ sendPc = "wait" /\ bComplete = TRUE /\ bufinfo = None
  /\ m_bConnected = FALSE /\ m_hConnected = FALSE /\ nConn = 0
  /\ m_sendOvl = NoSend /\ ioPc = [i \in Conn |-> "none"]
  /\ line = "none" /\ sendIO = "none" /\ recvIO = "none"
  /\ reply = [k \in Pack |-> "none"]
  /\ dataset = [c \in Client |-> None] /\ seen = [k \in Pack |-> None]
  /\ sent = {} /\ failed = {} /\ fault = "none"
  /\ empty = {} /\ overlapped = {}

-----------------------------------------------------------------------------
(* execute and update, in a thread of the application.                     *)

CallGoto(k, pc) == callPc' = [callPc EXCEPT ![k] = pc]

\* A request has been made and is neither refused, nor given up, nor answered.
Open(k) ==
  /\ callPc[k] \notin {"new", "refused"} /\ k \notin failed
  /\ reply[k] \notin {"shown", "lost"}

\* The other executes of k's client that are open.
OpenBeside(k) == {j \in Pack \ (Updates \cup {k}) : Owner[j] = Owner[k] /\ Open(j)}

Meets(k) == IF k \in Updates \/ OpenBeside(k) = {} THEN overlapped
            ELSE overlapped \cup OpenBeside(k) \cup {k}

\* Mutant: execute leaves m_bDataSet as it was.
Execute_Keep(k) ==
  /\ callPc[k] = "new" /\ CallGoto(k, "called")
  /\ overlapped' = Meets(k)
  /\ UNCHANGED <<netBusy, queueVars, sendVars, connVars, m_sendOvl, ioPc, netVars,
                 replyVars, sent, failed, fault>>

\* execute forgets the last reply before it knows whether it may send.
Execute(k) ==
  /\ callPc[k] = "new" /\ CallGoto(k, "called")
  /\ dataset' = IF k \in Updates THEN dataset ELSE [dataset EXCEPT ![Owner[k]] = None]
  /\ overlapped' = Meets(k)
  /\ UNCHANGED <<netBusy, queueVars, sendVars, connVars, m_sendOvl, ioPc, netVars,
                 reply, seen, empty, sent, failed, fault>>

\* sendAdoData: one pack of a client at a time.  Its callers ignore a NETBUSY.
Claim(k) ==
  /\ callPc[k] = "called"
  /\ IF Owner[k] \in netBusy
     THEN CallGoto(k, "refused") /\ UNCHANGED netBusy
     ELSE CallGoto(k, "claimed") /\ netBusy' = netBusy \cup {Owner[k]}
  /\ UNCHANGED <<queueVars, sendVars, connVars, m_sendOvl, ioPc, netVars, replyVars,
                 pastVars>>

Push(k) ==
  /\ callPc[k] = "claimed" /\ CallGoto(k, "pushed")
  /\ m_sendQueue' = Append(m_sendQueue, k)
  /\ UNCHANGED <<netBusy, m_hEvent, apc, sendVars, connVars, m_sendOvl, ioPc, netVars,
                 replyVars, pastVars>>

Signal(k) ==
  /\ callPc[k] = "pushed" /\ CallGoto(k, "accepted")
  /\ m_hEvent' = TRUE
  /\ UNCHANGED <<netBusy, m_sendQueue, apc, sendVars, connVars, m_sendOvl, ioPc, netVars,
                 replyVars, pastVars>>

-----------------------------------------------------------------------------
(* SendThread.                                                             *)

SendGoto(pc) == sendPc' = pc /\ UNCHANGED <<bComplete, bufinfo>>

\* The event is signalled, and no send is under way as far as the thread knows.
Wake ==
  /\ sendPc = "wait" /\ m_hEvent /\ bComplete
  /\ bComplete' = FALSE /\ sendPc' = "pop"
  /\ UNCHANGED <<bufinfo, appVars, queueVars, connVars, m_sendOvl, ioPc, netVars,
                 replyVars, pastVars>>

\* Mutant: what was queued during the send is left to the next signal.
Rearm_Silent ==
  /\ sendPc = "wait"
  /\ \/ m_hEvent /\ ~bComplete /\ UNCHANGED apc
     \/ apc /\ apc' = FALSE
  /\ bComplete' = TRUE /\ UNCHANGED m_hEvent
  /\ UNCHANGED <<sendPc, bufinfo, appVars, m_sendQueue, connVars, m_sendOvl, ioPc,
                 netVars, replyVars, pastVars>>

\* Any other return of the wait: the condition of the else-if is an assignment
\* that is always true, so that a signalled event counts as a completed send.
Rearm ==
  /\ sendPc = "wait"
  /\ \/ m_hEvent /\ ~bComplete /\ UNCHANGED apc
     \/ apc /\ apc' = FALSE
  /\ bComplete' = TRUE
  /\ m_hEvent' = (m_hEvent \/ m_sendQueue # <<>>)
  /\ UNCHANGED <<sendPc, bufinfo, appVars, m_sendQueue, connVars, m_sendOvl, ioPc,
                 netVars, replyVars, pastVars>>

\* front and pop_front, of a list that may be empty.
Pop ==
  /\ sendPc = "pop"
  /\ IF m_sendQueue = <<>>
     THEN fault' = "empty" /\ UNCHANGED <<sendVars, m_sendQueue>>
     ELSE /\ bufinfo' = Head(m_sendQueue) /\ m_sendQueue' = Tail(m_sendQueue)
          /\ sendPc' = "senddata" /\ UNCHANGED <<bComplete, fault>>
  /\ UNCHANGED <<appVars, m_hEvent, apc, connVars, m_sendOvl, ioPc, netVars, replyVars,
                 sent, failed, overlapped>>

\* SendData connects first if there is no connection.
SendData ==
  /\ sendPc = "senddata"
  /\ SendGoto(IF m_bConnected THEN "fill" ELSE "connect")
  /\ UNCHANGED <<appVars, queueVars, connVars, m_sendOvl, ioPc, netVars, replyVars,
                 pastVars>>

\* Connect, whose Init clears m_sendOvl, and which starts an I/O thread.
Connect ==
  /\ sendPc = "connect"
  /\ \/ /\ nConn < MaxConn /\ nConn' = nConn + 1
        /\ line' = "up" /\ recvIO' = "posted" /\ sendIO' = "none"
        /\ m_bConnected' = TRUE /\ m_hConnected' = TRUE
        /\ ioPc' = [ioPc EXCEPT ![nConn + 1] = "wait"]
        /\ SendGoto("await")
     \/ /\ "refused" \in Faults \/ nConn = MaxConn
        /\ SendGoto("failed") /\ UNCHANGED <<connVars, netVars, ioPc>>
  /\ m_sendOvl' = NoSend
  /\ UNCHANGED <<appVars, queueVars, replyVars, pastVars>>

\* Waits for m_hConnected, which a connection lost at once resets, for a minute.
Await ==
  /\ sendPc = "await"
  /\ SendGoto(IF m_hConnected THEN "fill" ELSE "failed")
  /\ UNCHANGED <<appVars, queueVars, connVars, m_sendOvl, ioPc, netVars, replyVars,
                 pastVars>>

\* A send is under way, or its end is being dealt with.
InUse == sendIO # "none" \/ \E i \in Conn : ioPc[i] \in {"more", "complete"}

Fill ==
  /\ sendPc = "fill"
  /\ m_sendOvl' = [pdata |-> bufinfo, id |-> bufinfo, lremain |-> Chunks[bufinfo]]
  /\ fault' = IF InUse THEN "overwrite" ELSE fault
  /\ SendGoto("post")
  /\ UNCHANGED <<appVars, queueVars, connVars, ioPc, netVars, replyVars, sent, failed,
                 overlapped>>

\* WSASend and WSARecv fail on a closed socket, and may on one whose peer is gone.
CanPost == line \in {"up", "lost"}
PostFails == line # "up"

Post ==
  /\ sendPc = "post"
  /\ \/ CanPost /\ sendIO' = "posted" /\ SendGoto("reset")
     \/ PostFails /\ SendGoto("failed") /\ UNCHANGED sendIO
  /\ UNCHANGED <<appVars, queueVars, connVars, m_sendOvl, ioPc, line, recvIO, replyVars,
                 pastVars>>

\* SendData returned false.
Failed ==
  /\ sendPc = "failed" /\ failed' = failed \cup {bufinfo}
  /\ netBusy' = netBusy \ {Owner[bufinfo]}
  /\ SendGoto("reset")
  /\ UNCHANGED <<callPc, queueVars, connVars, m_sendOvl, ioPc, netVars, replyVars,
                 sent, fault, overlapped>>

\* ResetEvent, whatever has been queued since the pop.
Reset ==
  /\ sendPc = "reset" /\ m_hEvent' = FALSE
  /\ SendGoto("wait")
  /\ UNCHANGED <<appVars, m_sendQueue, apc, connVars, m_sendOvl, ioPc, netVars, replyVars,
                 pastVars>>

-----------------------------------------------------------------------------
(* IOWorkThread, sending.                                                  *)

IoGoto(i, pc) == ioPc' = [ioPc EXCEPT ![i] = pc]

\* Mutant: the last chunk is not seen to be the last.
Sent_NoEnd(i) ==
  /\ ioPc[i] = "wait" /\ sendIO \in {"done", "failed"} /\ recvIO # "done"
  /\ sendIO' = "none"
  /\ IF sendIO = "failed" THEN IoGoto(i, "disconnect") /\ UNCHANGED <<m_sendOvl, sent>>
     ELSE IF m_sendOvl.lremain >= 0
     THEN /\ m_sendOvl' = [m_sendOvl EXCEPT !.lremain = @ - 1]
          /\ IoGoto(i, "more") /\ UNCHANGED sent
     ELSE /\ m_sendOvl' = [m_sendOvl EXCEPT !.pdata = None, !.lremain = 0]
          /\ sent' = sent \cup {m_sendOvl.id}
          /\ IoGoto(i, "complete")
  /\ UNCHANGED <<appVars, queueVars, sendVars, connVars, line, recvIO, replyVars,
                 failed, fault, overlapped>>

\* The wait returns the lowest event signalled, that of the read.  Nothing was
\* transferred on a connection that is gone.
Sent(i) ==
  /\ ioPc[i] = "wait" /\ sendIO \in {"done", "failed"} /\ recvIO # "done"
  /\ sendIO' = "none"
  /\ IF sendIO = "failed" THEN IoGoto(i, "disconnect") /\ UNCHANGED <<m_sendOvl, sent>>
     ELSE IF m_sendOvl.lremain > 1
     THEN /\ m_sendOvl' = [m_sendOvl EXCEPT !.lremain = @ - 1]
          /\ IoGoto(i, "more") /\ UNCHANGED sent
     ELSE /\ m_sendOvl' = [m_sendOvl EXCEPT !.pdata = None, !.lremain = 0]
          /\ sent' = sent \cup {m_sendOvl.id}
          /\ IoGoto(i, "complete")
  /\ UNCHANGED <<appVars, queueVars, sendVars, connVars, line, recvIO, replyVars,
                 failed, fault, overlapped>>

\* Copies the next chunk, from data that may have been freed.
More(i) ==
  /\ ioPc[i] = "more"
  /\ fault' = IF m_sendOvl.pdata = None THEN "freed" ELSE fault
  /\ \/ CanPost /\ sendIO' = "posted" /\ IoGoto(i, "wait")
     \/ PostFails /\ IoGoto(i, "disconnect") /\ UNCHANGED sendIO
  /\ UNCHANGED <<appVars, queueVars, sendVars, connVars, m_sendOvl, line, recvIO,
                 replyVars, sent, failed, overlapped>>

\* Mutant: reports the pack the send thread took last, not the one that was sent.
Complete_Last(i) ==
  /\ ioPc[i] = "complete" /\ IoGoto(i, "notify")
  /\ netBusy' = netBusy \ {Owner[bufinfo]}
  /\ UNCHANGED <<callPc, queueVars, sendVars, connVars, m_sendOvl, netVars, replyVars,
                 pastVars>>

\* CompleteSend.
Complete(i) ==
  /\ ioPc[i] = "complete" /\ IoGoto(i, "notify")
  /\ netBusy' = netBusy \ {Owner[m_sendOvl.id]}
  /\ UNCHANGED <<callPc, queueVars, sendVars, connVars, m_sendOvl, netVars, replyVars,
                 pastVars>>

Notify(i) ==
  /\ ioPc[i] = "notify" /\ IoGoto(i, "wait")
  /\ apc' = TRUE
  /\ UNCHANGED <<appVars, m_sendQueue, m_hEvent, sendVars, connVars, m_sendOvl,
                 netVars, replyVars, pastVars>>

-----------------------------------------------------------------------------
(* IOWorkThread, receiving, and DisConnect.                                *)

Wire == {k \in Pack : reply[k] = "wire"}

\* Each reply that is complete becomes a work item of the system's pool.
Receive(i) ==
  /\ \/ ioPc[i] = "wait" /\ recvIO = "done" /\ recvIO' = "none"
     \/ ioPc[i] = "recv" /\ UNCHANGED recvIO
  /\ \/ \E k \in Wire : reply' = [reply EXCEPT ![k] = "item"] /\ IoGoto(i, "recv")
     \/ /\ ioPc[i] = "wait" /\ Wire = {} /\ UNCHANGED reply
        /\ IoGoto(i, "disconnect")
  /\ UNCHANGED <<appVars, queueVars, sendVars, connVars, m_sendOvl, line, sendIO,
                 dataset, seen, empty, pastVars>>

\* What has arrived is dealt with: the next read.
Reread(i) ==
  /\ ioPc[i] = "recv"
  /\ \/ CanPost /\ recvIO' = "posted" /\ IoGoto(i, "wait")
     \/ PostFails /\ IoGoto(i, "disconnect") /\ UNCHANGED recvIO
  /\ UNCHANGED <<appVars, queueVars, sendVars, connVars, m_sendOvl, line, sendIO,
                 replyVars, pastVars>>

\* DisConnect closes the socket; only then the send thread can see it.
Disconnect(i) ==
  /\ ioPc[i] = "disconnect" /\ IoGoto(i, "unset")
  /\ m_hConnected' = FALSE /\ line' = "closed"
  /\ sendIO' = "none" /\ recvIO' = "none"
  /\ reply' = [k \in Pack |-> IF reply[k] = "wire" \/ (reply[k] = "none" /\ k \in sent)
                              THEN "lost" ELSE reply[k]]
  /\ UNCHANGED <<appVars, queueVars, sendVars, m_bConnected, nConn, m_sendOvl,
                 dataset, seen, empty, pastVars>>

Unset(i) ==
  /\ ioPc[i] = "unset" /\ IoGoto(i, "free")
  /\ m_bConnected' = FALSE
  /\ UNCHANGED <<appVars, queueVars, sendVars, m_hConnected, nConn, m_sendOvl, netVars,
                 replyVars, pastVars>>

\* The send thread may have connected again and put its next pack here.
Free(i) ==
  /\ ioPc[i] = "free" /\ IoGoto(i, "ended")
  /\ m_sendOvl' = [m_sendOvl EXCEPT !.pdata = None]
  /\ UNCHANGED <<appVars, queueVars, sendVars, connVars, netVars, replyVars, pastVars>>

-----------------------------------------------------------------------------
(* ThreadRecvProc, in a thread of the system's pool.                       *)

\* An execute that failed in the database, or whose LoadBuffer fails, brings no
\* record set; the first of them leaves the client's as it is.
Load(k) ==
  /\ reply[k] = "item" /\ reply' = [reply EXCEPT ![k] = "loaded"]
  /\ \/ k \in Updates /\ UNCHANGED <<dataset, empty>>
     \/ /\ k \notin Updates /\ UNCHANGED empty
        /\ dataset' = [dataset EXCEPT ![Owner[k]] = k]
     \/ /\ k \notin Updates /\ empty' = empty \cup {k}
        /\ \/ UNCHANGED dataset
           \/ dataset' = [dataset EXCEPT ![Owner[k]] = None]
  /\ UNCHANGED <<appVars, queueVars, sendVars, connVars, m_sendOvl, ioPc, netVars,
                 seen, pastVars>>

Callback(k) ==
  /\ reply[k] = "loaded" /\ reply' = [reply EXCEPT ![k] = "shown"]
  /\ seen' = [seen EXCEPT ![k] = dataset[Owner[k]]]
  /\ UNCHANGED <<appVars, queueVars, sendVars, connVars, m_sendOvl, ioPc, netVars,
                 dataset, empty, pastVars>>

-----------------------------------------------------------------------------
(* The network, the kernel and the server.                                 *)

Outside == UNCHANGED <<appVars, queueVars, sendVars, connVars, m_sendOvl, ioPc,
                       dataset, seen, empty, pastVars>>

SendCompletes ==
  /\ sendIO = "posted"
  /\ sendIO' = "done" \/ (line = "lost" /\ sendIO' = "failed")
  /\ UNCHANGED <<line, recvIO, reply>> /\ Outside

RecvCompletes ==
  /\ recvIO = "posted" /\ (Wire # {} \/ line = "lost")
  /\ recvIO' = "done" /\ UNCHANGED <<line, sendIO, reply>> /\ Outside

Answer(k) ==
  /\ line = "up" /\ k \in sent /\ reply[k] = "none"
  /\ reply' = [reply EXCEPT ![k] = "wire"] /\ UNCHANGED netVars /\ Outside

Lose ==
  /\ "lost" \in Faults /\ line = "up" /\ line' = "lost"
  /\ UNCHANGED <<sendIO, recvIO, reply>> /\ Outside

-----------------------------------------------------------------------------
CallStep(k) == Claim(k) \/ Push(k) \/ Signal(k)

SendStep ==
  \/ Wake \/ Rearm \/ Pop \/ SendData \/ Connect \/ Await \/ Fill \/ Post \/ Failed
  \/ Reset

IoStep(i) ==
  \/ Sent(i) \/ More(i) \/ Complete(i) \/ Notify(i) \/ Receive(i) \/ Reread(i)
  \/ Disconnect(i) \/ Unset(i) \/ Free(i)

ReplyStep(k) == Load(k) \/ Callback(k)

SystemStep ==
  \/ \E k \in Pack : CallStep(k) \/ ReplyStep(k) \/ Answer(k)
  \/ SendStep
  \/ \E i \in Conn : IoStep(i)
  \/ SendCompletes \/ RecvCompletes

\* No thread has anything to do, and no operation or reply is outstanding.
Quiet ==
  /\ \A k \in Pack : /\ callPc[k] \in {"new", "refused", "accepted"}
                     /\ reply[k] \in {"none", "lost", "shown"}
                     /\ line = "up" /\ k \in sent => reply[k] # "none"
  /\ sendPc = "wait" /\ ~m_hEvent /\ ~apc
  /\ \A i \in Conn : ioPc[i] \in {"none", "wait", "ended"}
  /\ sendIO = "none" /\ line # "lost"

Quiescent == (Quiet \/ fault # "none") /\ UNCHANGED vars

Next ==
  \/ /\ fault = "none"
     /\ \/ \E k \in Pack : Execute(k)
        \/ SystemStep \/ Lose
  \/ Quiescent

Spec == Init /\ [][Next]_vars

-----------------------------------------------------------------------------
(* Properties.                                                             *)

TypeOK ==
  /\ netBusy \subseteq Client
  /\ callPc \in [Pack -> {"new", "called", "refused", "claimed", "pushed", "accepted"}]
  /\ m_sendQueue \in Seq(Pack) /\ m_hEvent \in BOOLEAN /\ apc \in BOOLEAN
  /\ sendPc \in {"wait", "pop", "senddata", "connect", "await", "fill", "post", "failed",
                 "reset"}
  /\ bComplete \in BOOLEAN /\ bufinfo \in Pack \cup {None}
  /\ m_bConnected \in BOOLEAN /\ m_hConnected \in BOOLEAN /\ nConn \in 0..MaxConn
  /\ m_sendOvl \in [pdata : Pack \cup {None}, id : Pack \cup {None}, lremain : Nat]
  /\ ioPc \in [Conn -> {"none", "wait", "more", "complete", "notify", "recv",
                        "disconnect", "unset", "free", "ended"}]
  /\ line \in {"none", "up", "lost", "closed"}
  /\ sendIO \in {"none", "posted", "done", "failed"}
  /\ recvIO \in {"none", "posted", "done"}
  /\ reply \in [Pack -> {"none", "wire", "item", "loaded", "shown", "lost"}]
  /\ dataset \in [Client -> Pack \cup {None}] /\ seen \in [Pack -> Pack \cup {None}]
  /\ sent \subseteq Pack /\ failed \subseteq Pack
  /\ empty \subseteq Pack /\ overlapped \subseteq Pack
  /\ fault \in {"none", "empty", "overwrite", "freed"}

\* The packs of a client between sendAdoData's check and the end of their send.
UnderWay(c) ==
  {k \in Pack : /\ Owner[k] = c /\ callPc[k] \in {"claimed", "pushed", "accepted"}
                /\ k \notin sent \cup failed}

\* adonetstate keeps the packs of a client apart: it has one under way at most,
\* and is NETBUSY while it has.
OnePerClient ==
  \A c \in Client : /\ Cardinality(UnderWay(c)) <= 1
                    /\ UnderWay(c) # {} => c \in netBusy

\* AdoClientManager.cpp:140: what is queued is sent.  The client does not rest
\* with a request unsent or unanswered, or a CAdoClient busy, when the first
\* connection has held and every SendData has succeeded.
NoneStuck ==
  Quiet /\ line = "up" /\ nConn = 1 /\ failed = {} =>
    /\ netBusy = {}
    /\ \A k \in Pack : callPc[k] = "accepted" => reply[k] = "shown"

\* A callback finds in its client's record set what its own reply brought, or none
\* at all, unless another execute of the client was open at the same time: neither
\* what an earlier execute left there nor what a refused or failed one did.
OwnReply ==
  \A k \in Pack \ (Updates \cup overlapped) :
    reply[k] = "shown" => seen[k] = IF k \in empty THEN None ELSE k

=============================================================================
