# Verification of dbmiddle

dbmiddle lets Windows clients use a database through a middle tier.  The
application links `MidClient.dll`; the service `DBProvider.exe` receives its
requests over TCP (or UDT), runs them on a pool of database threads, and sends the
replies back.  UDT, of which the repository holds its own copy, carries the packs of
clients behind address translation.  This directory holds TLA+ models of the parts in
which several threads or both ends of a connection meet, the TLC configurations that check
them on small instances, and theorems, proved with TLAPS for every size of the instance.

`PROJECT.json` lists components, runs, mutants, findings, hazards and theorems, and
maps every definition to the lines of code it stands for.

## 1. The system

```
 application threads          MidClient.dll                     DBProvider.exe
 CAdoClient::execute ─> CAdoClientManager ─> CAsynSock ══TCP══> CIOCPSockSrv ─> CTaskPool ─> database
 CAdoClient callback <─ system thread pool <─ CAsynSock <══════ CIOCPSockSrv <─ SendAdo  <─ RequestProc
                                               UDT peer ═UDT═> CUDTExpand ─> CTaskPool ─> CUDTUnit ─> CTaskPool
```

| Component | State | Operations | What is hard | What makes it correct | Status |
|---|---|---|---|---|---|
| **CTaskPool** (`common/TaskPool.*`) | idle and busy thread lists, pending list, run/exit events, `m_bStop`, the global `pTaskPool` | `Init`, `SubmitTaskItem`, `WorkThread`, `StopAll` | the decision to queue is taken before the lock; hand-over by events; stop racing with submit; two pools and one global pointer | an item runs at most once, none is lost, in order; threads are on one list; `StopAll` returns | modelled, proved |
| **CIOCPSockSrv** (`DBProvider/IOCPSockSrv.*`) | map of sockets with nine flags and states each, pending list, `m_lSend`, send events | completion threads (accept, read, carry sends on), check thread, `SendAdo`, `ReleaseSock`, `TimeOutCallback` | entries used outside the mutex, flags in place of locks, deferred release, send events, a limit on sends | one send and one reader per connection; replies conserved and none forgotten, whatever becomes of other connections; entries released, and never used afterwards | modelled (see 6), proved but for liveness |
| **MidClient** (`CAdoClient`, `CAdoClientManager`, `CAsynSock`) | map of clients with NETIDLE/NETBUSY, send queue, its event and APCs, one send and one receive OVERLAPPED | `execute`, `update`, send thread, I/O thread, connect and disconnect, callbacks | one socket shared by all clients; lost events; reconnecting while the old I/O thread cleans up; replies out of order | one pack per client, none stuck, callbacks see what their own reply brought | modelled (see 6), proved |
| **Framing** (the read loops of both ends) | how much of a pack is there, its length, its buffer | one read of up to `MAX_BUFFER_SIZE` bytes | TCP cuts the stream anywhere: packs that end with the buffer, headers across two reads | packs are handed on as sent | modelled, proved |
| **UDT, a connection** (`udt/core.cpp`, `buffer.cpp`, `queue.cpp`) | two buffers, two loss lists, seven positions, a send list, five timers | `send`, `recv`, `close`, the two queue threads, ACK, light ACK, ACK2, loss report, shutdown | lost, late, repeated datagrams; numbers that wrap; a block freed and filled again while it goes out | the reader gets what was written, once and in order; all of it, unless a side gives up | modelled (one direction; see 6), proved but for liveness |
| **UDT, loss lists** (`udt/list.cpp`) | ranges of numbers in an array, chained | `insert`, `remove`, `getLostSeq`, `getFirstLostSeq` | the place of a range depends on the head, which moves; ranges merge and split; wrap | the array is the set it stands for | modelled (stream mode), proved |
| **UDT, sockets** (`udt/api.cpp`) | maps of open and closed sockets, listener's queue, multiplexer, the receiving thread's tables | `socket`, `bind`, `listen`, `accept`, `close`, `newConnection`, `checkBrokenSockets`, `removeSocket` | no count protects a socket in use, only a second of grace; connections break while they wait to be accepted | no deleted socket is used, `accept` wakes, everything dead is removed | modelled (see 6), proved but for liveness |
| **CAdoProvider** (`DBProvider/AdoProvider.*`), **DBProvider service** | one task pool with a database connection per thread, the TCP and UDT servers | `StartSrv`, `Stop`, `NotifyRecvPack`, `NotifyRequest`, `RequestProc`, `DoRequest` | start and stop from different threads; requests that fail or wait five minutes | every request is answered once or its connection is gone; `Stop` stops | not modelled (see 6) |
| **CUDTExpand / CSrvUDPManager**, **CUDTUnit / CSrvUDPPeer** | map of peers; reassembly buffer, map of packs | accept-and-receive loop, tasks that look a peer up; `AnalyzePack`, `SubmitPack`, `SendPack` | a peer is deleted while a task uses it; every chunk is a task of its own, on one buffer | chunks are put together in order; a pack is handed on whole, once | not modelled (see 6) |
| CFeTimer, CsuUtil, base64 | | | | | not modelled: unused; pure functions |
| CMutex, CADO wrapper, demo, stale copies | | | | | not modelled: wrappers, an example, files no project builds |
| zlib/, log4cpp, xmlParser, tcmalloc | | | | | vendored |

Components interact by calls (`SendAdo`, `SubmitTaskItem`), by events and APCs
(the send events, the pool's events, the client's send event), by completions of
overlapped operations, and by the global pointers `pTaskPool`, `pAdoClientManager`
and `pAsynSock`.

## 2. Modules

| Module | What it is |
|---|---|
| `TaskPool` | CTaskPool: any number of pools, threads, submitters and items |
| `WorkQueue` | what a pool promises: an accepted item is waiting, then running, then done |
| `TaskPoolProofs` | theorems about `TaskPool` |
| `MCTaskPool` | its instances for TLC |
| `SockSrv` | CIOCPSockSrv |
| `SockSrvProofs` | theorems about `SockSrv` under every fault |
| `SockSrvHealthy` | theorems about `SockSrv` while no connection fails, or only closes |
| `MCSockSrv` | its instances |
| `MidClient`, `MCMidClient` | the client side, and its instances |
| `MidClientProofs` | theorems about `MidClient` |
| `Framing` | packs out of a stream of bytes, at the server and at the client |
| `FramingProofs` | theorems about `Framing` |
| `SeqNo` | the arithmetic of UDT's sequence numbers, with the largest number as a parameter |
| `Stream` | what a UDT stream promises to the writer and the reader |
| `UdtStream` | one direction of a UDT connection, with its network; implements `Stream` |
| `UdtLossList` | UDT's loss lists as they are kept in arrays, against the sets that `UdtStream` has in their place |
| `UdtSockets` | the life of the sockets behind a listening UDT socket |
| `UdtStreamProofs` | theorems about `SeqNo` and `UdtStream`, and the refinement of `Stream` |
| `UdtLossListProofs` | theorems about `UdtLossList` |
| `UdtSocketsProofs` | theorems about `UdtSockets` |

`UdtStream` EXTENDS `SeqNo` and instantiates `Stream`; `TaskPool` is composed with `WorkQueue` in the same way.
`UdtLossList` takes over the calls that `UdtStream` makes of its loss lists, so that the two together
speak of the arrays.

### Conventions

* A region under a mutex is one action, named after the function or the part of it.
  Each access outside a mutex that other threads can tell apart is an action of its
  own.  `workPc`, `submitPc`, `check.pc`, `ioPc` ... say where a thread stands.
* Variables, flags and fields keep the source's names.  A set of sockets stands
  for a flag of the entries: `s \in bNeedClose` is `it->second.adodata.bNeedClose`.
* A request and its reply share a name (`Pack`).  A pack's length is the number of
  `WSASend`s it takes (`Chunks`); its bytes are not modelled.
* **Undefined behaviour ends a run.**  `SockSrv` sets `dangling` when an entry is used
  after its erase, `MidClient` sets `fault` when `front()` is called on an empty list,
  a pending OVERLAPPED is reused or a freed pack is read, `Framing` goes to the state "wild"
  when the client copies from outside what it has read.  After that the model takes no
  step, since anything may happen, and the properties of the passing runs hold up to that point.  What
  they do not say is that the fault never happens, because it does: section 4
  describes how each comes about, and "wild" comes of nothing but a cut
  header (`OnlyCutHeadersStop`).  In `UdtSockets` a thread that meets a deleted socket stays in "fault".
* History variables (`sent`, `dropped`, `failed`, `seen`, `awaits` ...) record what
  happened and guard nothing the code does.
* Definitions that begin with "Mutant:" are faulty versions of an action; each shows
  that some property notices the fault.  No specification uses them.
* Windows and the network are external: what the completion of an overlapped operation,
  an event, an APC or a lost connection may do is stated from how the code uses
  them.

### TaskPool

`PoolInit` is `Init` of a pool, including the assignment to `pTaskPool`.  `Submit` ..
`Return` are the steps of `SubmitTaskItem`: the test of `m_bStop`; the decision on
`m_IdleThreadList`, without a lock (`SeeNoIdle`); the hand-over under `m_mutexSwap`
(`TakeIdle`, `MoveToBusy`); the work event (`SetWork`); or the append to the pending list
(`Enqueue`).  `Wake`, `Finish`, `TakePending`, `SeeNoPending`, `Park`, `SeeExit`, `Quit` are
`WorkThread`, and `StopFlag` .. `Join` are `StopAll`.  `Home[w]` is the pool whose `Init` made
the thread, and `pTaskPool` the pool whose lists it uses.

### SockSrv

Completion threads: `Accept`, `AcceptPost`; `DequeueRecv`, `Receive`, `Repost`, `RecvIdle`;
`DequeueSend`, `Sent`, `MarkPending`, `Unmark`, `Decide`, `Credit`; and `DequeueFailed`, `Ignore`,
`Drop`, `CloseAfterFailure`, `WorkRelease` when something is wrong.  The check thread:
`WakeCheck`, `BeginCheck`, `Scan`, `MarkBusy`, `SendPack`, `EraseSent`, `ClearMark`, `LookNeedClose`,
`CheckRelease`.  A database thread in `SendAdo`: `AdoFind`, `AdoPush`, `AdoSignal`; or `NoReply`, where
`RequestProc` (`AdoProvider.cpp`) returns without a reply, because it has no database or the client is gone.  `TimeOut` is
the timer.  `ReleaseSock` is one operator used by all.  `Faults` says what the
environment may do: close (`fin`), reset, stay silent (`timeout`), split a header over
two reads (`short`), fail a `WSARecv` (`post`), or report an unlisted error (`fatal`).  A SOCKET
value that Windows hands out a second time counts as a new connection.  `sendPosted` and `sendDone` count a
connection's outstanding sends.  In the code two of them share one OVERLAPPED and one buffer: what their completions then say is
open, so what the model says after `OneSend` has failed (under `fin`, in `sock_reads` and `sock_faults`) takes each completion for its own
send.  `SentOnce` counts the replies that the server hands to its first `WSASend`s.

### MidClient

A thread of the application: `Execute`, then `sendAdoData` as `Claim`, `Push`, `Signal`.  The send
thread: `Wake` or `Rearm` for the two branches that its loop really has, `Pop`, `SendData`, `Connect`,
`Await`, `Fill`, `Post`, `Failed`, `Reset`.  The I/O thread of each connection: `Sent`, `More`, `Complete`,
`Notify`, `Receive`, `Reread`, and `DisConnect` as `Disconnect`, `Unset`, `Free`.  `Load` and `Callback` are
`ThreadRecvProc`; a reply that says that the database failed, or whose buffer cannot be loaded, brings no record set.  The insertion into `m_adomap` is not modelled apart from the client's state,
since entries are never removed and their addresses never change; `push_back` and
`pop_front` of `m_sendQueue`, of which only the first is under the mutex, are taken
as steps that do not overlap.

### Framing

A byte is its position in the stream.  The peer sends whole packs (`Send`), and `Read` is the completion of a read, of
any length up to `BufSize`.  Each turn of the loop over the buffer is an action: `NewPack` starts a pack, `MorePack` goes on with
one, and both end with `HandOn`, which gives away a pack of which nothing is lacking.  The server tests for a
header that is cut and stops reading (`HeadCut`); the client does not, and copies from beyond its buffer.

### UdtStream

The sending application is `Send`, `SendUpdate`, `Close`; the thread of `CSndQueue` is `PopLost`, `PackLost`, `PopNew`,
`PopNothing`, `SendTo`, with the datagram it has in `hand`; the thread of `CRcvQueue` at the sender is `RecvAck`,
`RecvLite`, `RecvNak`, `AckUpdate`, `ExpTimer`, `SndGiveUp`, and at the receiver `RecvData`, `RecvAck2`, `RecvShutdown`,
`AckTimer`, `RcvGiveUp`; the reader is `AppRead`, `AppEof`.  The locks that the code takes are the bounds of the actions:
`m_AckLock` covers `PackLost` but not `SendTo`, so that the block which goes out is whatever its memory holds by then
(`Memory`).  Datagrams are sets: they arrive in any order, the network may lose any of them as
it is sent (`Put`), and "repeat" leaves one to arrive again.  The window that the
peer's handshake names is `PeerWindow`: its receive buffer or its `m_iFlightFlagSize`, according to which answer arrives.  Numbers are the code's, with `m_iMaxSeqNo` a small number instead of 2^31-1, and start
at `ISN`.

### UdtLossList

The two lists share the arrays and the way in which a range finds its place.  A call runs to its end before the next one begins,
and a turn of a loop in it is a step: `pc` says which loop, `i` at which node, `seqno1` and `seqno2` are the arguments.
`CSndLossList::insert` is `InsertFirst`, `InsertBefore`, `InsertAt` and `InsertSearch`, the loop that looks for the node before
(`SearchNext`, `SearchNew`, `SearchExtend`) and the one that joins ranges (`Coalesce`, `CoalesceDone`); `remove` is `RemoveNothing`, `RemoveAt`,
`RemoveFind` (`FindNext`, `FindDone`), which move the head (`Cut`), and the loop that clears what is before it (`Clear`, `ClearDone`);
`getLostSeq` is `TakeFirst`.  `CRcvLossList::insert` is `RcvInsert`; `remove` is `RcvRemoveNothing`, `RcvRemoveAt` (`RcvUnlink`,
`RcvAdvance`) and `RcvRemoveBack` with the loop back over empty places (`BackNext`, `BackNothing`, `BackShorten`, `BackSplit`).
`Sent`, `Lost`, `Acked`, `Resent` and `Arrives`, `ArrivesAfterGap`, `Found`, `Acknowledges` call them as `UdtStream` does.  `losses` is the set that
`UdtStream` keeps, as it will be when the call is over.

### UdtSockets

Threads of the application are `NewSocket`, `Bind`, `Listen`, `Accept` ... `AcceptAddress`, `Use`, `Close` ... `CloseMove`; the thread of
`CRcvQueue` takes new entries (`RcvNewEntry`), serves connections (`RcvServe`), unlists those that are not
healthy (`RcvDrop`, `RcvUnlist`), and makes connections of requests (`RcvRequest` ... `RcvSignal`, which is
`newConnection`; `RcvRollback` is its `ERR_ROLLBACK`, `RcvRefuse` its returns before that); the collection is `GcRound`, `GcRemove`, `GcJoin`.  The code deletes a closed
socket a second after the stamp `m_TimeStamp`, whoever may still work on it.  The model's stamp is
the set of threads that worked on the socket when it was set, and the second is over when they have
left: the assumption is that no call lasts for a second after its socket is closed, and nothing else
is assumed about time.  A thread that takes the socket up *after* the stamp is not waited for.
The receiving thread does so with the listener, at any time until it is deleted (`RcvRequest`), and what it does with one that is deleted
is open: it comes to `locate(listen)`, which finds nothing, or to an access violation (`RcvFault`).  Memory may fail in
`open()` and `connect()` of a new connection, and what is rolled back stays CLOSED, in no map, and counted by the
multiplexer; that a map or a set has no memory for one more identifier (`error` 2 and 3 of `newConnection`) is left out.

## 3. Runs

All runs check for deadlock except two.  In `two_pools_stop` `StopAll` of the first pool really never returns.
In `udt_sockets` the identifiers are used up and every thread may be left waiting for work.
`SockSrv` and `MidClient` have an explicit `Quiescent`
step for the state in which every thread waits and nothing is outstanding (`Quiet`), `UdtStream` and `Framing` one
for the end of the transfer, so that any other state without a successor is an error.

| Run | Question | Instance |
|---|---|---|
| `pool_safety` | Are lists, hand-overs and pending items consistent, and does the pool implement `WorkQueue`? | one pool, 2 threads, 2 submitters, 4 items, `StopAll` |
| `pool_live` | Does `StopAll` return, do items run, do threads come back? | 2 threads, 1 submitter, 3 items, `StopAll`, weak fairness |
| `two_pools_stop` (violated) | Does `StopAll` of the first pool return? | 2 + 1 threads, 1 submitter, 2 items, `StopAll` of the first pool, weak fairness |
| `sock_answers` | Do all replies go out, one send at a time per connection, with the limit on sends reached? | 2 completion threads, 2 connections, 3 replies, one of two chunks; from the state in which all requests are read |
| `sock_reads` | Is a connection read by one thread at a time, every request answered for which there is a reply, every entry released, when clients may leave? | 1 connection, 2 requests, `fin` |
| `sock_faults` | What survives every fault? | 1 connection, 2 requests, all faults |
| `client_calls` | Are two clients kept apart on one socket, and each served properly whatever the connection does? | 2 clients, 3 requests (two executes of one client, an update of two chunks of the other), 2 connections, lost and refused; up to a fault |
| `framing` | Are packs handed on as they were sent? | up to 4 packs of 1 to 6 bytes, headers of 2, reads of 1 to 5 bytes; both ends |
| `udt_stream` | Do writer and reader see a `Stream`, and do both sides' positions stay in order? | 3 blocks, send buffer of 2, ring of 3, window of 3, 2 datagrams under way in each direction, numbers 14, 15, 0; light ACKs; a close that does not wait; a side that gives up |
| `udt_live` | Is all that was written read? | 2 blocks, 2 datagrams under way in each direction, any of them may be lost; fairness |
| `udt_losslist` | Are the arrays the sets? | arrays of 6, 6 numbers outstanding, any number of turns of the 16 numbers |
| `udt_sockets` | Is no deleted socket used, does `accept` wake, is everything dead removed? | listener and 2 connections, 2 threads, backlog 1, one peer that may ask again and again, also a listener that is CLOSED; rolled-back connections; fairness |

**Why these bounds are enough to be interesting.**  Two threads and two submitters are the
least for the races of the pool, and with four items both threads are busy while two
more wait.  In the server, two completion threads let one thread carry on with a
completion while another takes the next one of the same connection; two connections and
three replies let a reply wait for a busy connection and one for the limit
(`m_maxWsaSend` = 2); a reply of two chunks goes through the continuation.  In the
client, three requests let a late APC of the first meet the second's send and the third's
queueing, packs of different clients queue up behind one another, and a pack may be popped while the send of
another client's is under way; two connections let the cleaning-up of the first meet the second.  In `framing`, reads
of up to five bytes hold the end of one pack, a whole one and the beginning of a third, and a pack may
take three reads.  In `udt_stream` three blocks are one more than the send buffer holds, so that the
memory of the first is filled again while a repetition of it may be in `hand`, and the window is as large as the
receiver's ring, so that slots are written for the second time; the numbers wrap.  The network holds two
datagrams per direction, of which any may be lost.
In `udt_losslist` six numbers are enough for three ranges apart from one another, which merge in every way, and the window goes
round the numbers more than once.  In `udt_sockets` the same peer may come back while its first connection is open, broken,
waiting to be accepted or being removed, and the backlog is reached.  Every
disjunct of every next-state relation is taken by some passing run, and every property
of a passing run is broken by a mutant.

**Bounds in the models.**  `MaxConn` bounds how often the client connects; afterwards
connecting is refused.  `NBlocks` and `MaxInNet` bound a transfer, `NSockets` how many sockets are
made; no request comes when all identifiers are used.  Everything else is bounded by the sets of packs, items and threads.
`m_iMaxSeqNo` = 15 stands for 2^31-1; `UdtLossList` assumes only that it is larger than twice
what is outstanding, `UdtStream` that a transfer has fewer blocks than half of the numbers (2^30, some 1.5 TB), so that a
number stands for one block.

**Fairness.**  `TaskPool`: weak fairness of the steps of each worker, of each submitter and of
each pool's `StopAll`, which is what a preemptive scheduler gives; the pool's mutexes are held for one step.  `SockSrv!FairSpec`: one weak
fairness condition for the server and the kernel together, "while some thread can run or
some operation can complete, something does".  No thread, operation or client is
favoured, and no client is assumed ever to send or leave.  It is enough because
the server does a bounded amount of work per request.  `MidClient` needs none: its
runs end in `Quiet`, and `NoneStuck` says what holds there.  `UdtStream!FairSpec`: each thread goes on, each timer fires again
and again, the reader reads, a datagram that stays in the network arrives, and one that is sent again and again
gets through in the end (`GetsThrough`, `AckGetsThrough`).  The arrival at the sender is
strongly fair because its thread reads one datagram in each round but in between waits for the send list's lock, so
that an arrival is not enabled all the time.  No one must write, lose or give up.  `UdtSockets!FairSpec`: each call of the
application that has begun ends, which is strong fairness because it waits for `m_ControlLock`, a
`CRITICAL_SECTION` that the collection takes again and again; the thread of `CRcvQueue` comes to each entry
of its list (ordered by time, hence strong) and finishes what it has begun; and the collection's rounds go on, including that seconds pass.
No one must call, ask or break.

## 4. What the checks show

**The pool.**  No item runs twice (`AtMostOnce`), none is lost before some `StopAll` begins
(`NoTaskLost`), they start in queue order (`QueueOrder`), each thread is on one list
(`OnOneList`), and the head of the idle list that was read without the lock is still
there when it is popped (`IdleThreadsRest`).  `two_pools_stop`: the threads of the first pool set
their exit event in `pTaskPool`, the pool built last, so that the `StopAll` which
`CAdoProvider::Stop` calls waits for ever.  A submitter that saw no idle thread may queue its item after the
last thread has looked at the pending list (`TaskPool.cpp:253`, against the comment at 162); the item then waits until the next
item is submitted *and* all threads have been busy.  TLC finds the state as a violation of `NoStrandedItem` with one pool of 2 threads, 2 submitters,
3 items and nobody who stops it (`Stoppable = {}`).  `NoTaskLost` counts such an item as held by the list, and
`QueueDrains` supposes that a thread is busy, so neither speaks of it.  That the lists and items stay consistent with two pools as well is proved (section 5).

**The server.**  While all connections stay up, there is one send per connection
(`OneSend`), `m_lSend` is exact (`SendCountExact`), each reply is in one place
(`ReplyConserved`), and the server does not rest before every reply that `SendAdo` has queued is sent, even at the limit
(`NoneForgotten`).  A connection
is read by one thread at a time though the reading thread changes
(`ExclusiveReassembly`); a request on a connection that stays up is answered, unless `RequestProc` makes no reply
(`RequestAnswered`); the entry of a client that left is released (`EntryReleased`).  Under every fault, the
check thread's entry is held (`CheckEntryHeld`) and no reply goes out twice or after it was
given up (`SentOnce`).

When clients leave, three of the things the comments promise are not kept.  TLC finds each with `Faults = {"fin"}`:

* A connection that stays up is not served whatever becomes of the others.  The end of a send on a
  connection that is closing leaves `CompletionThread` by the `continue` of line 920; `ReleaseSock`, having marked the send
  state idle earlier, wakes nobody either, and another connection's reply stays in the list until the next one comes (`OthersServed`, with the
  instance of `sock_answers`).
* When a client leaves at the wrong moment, `ReleaseSock` (`IOCPSockSrv.cpp:390`) marks the
  send state idle before it defers, so that a second `WSASend` uses the OVERLAPPED of the first (`OneSend`, with 1 connection and 2 replies, the first of
  two chunks, from `AskedSpec`).
* The reader that has just posted the next read marks the receive state idle (`IOCPSockSrv.cpp:833`) in an entry that
  another thread, which took that read's completion, may have released (`NeverDangling`, with 1 connection and 1 request, from `Init`).

**The client.**  Whatever happens to the connection, NETBUSY keeps a client's packs apart
(`OnePerClient`), nothing is left unsent or unanswered on a connection that holds
(`NoneStuck`), and a callback sees what its own reply brought, or no record set if it brought none, unless another execute of the same
client was open at the same time (`OwnReply`): neither an earlier record set nor one of a request that was refused.  With two clients on the socket
this holds up to the faults below.

**Framing.**  However the stream is cut, what has been handed on is a prefix of the packs as sent, nothing but a cut header
stops the server (`PacksAsSent`, `OnlyCutHeadersStop`), and nothing else makes the client copy from outside its buffer.

**UDT, a connection.**  What the reader reads is what was written, in order and without repetition, though a repeated
packet may go out with a newer block's data under an older number: its number has then been acknowledged, and the receiver
drops it (`StreamSpec`).  The positions of the two sides stay in order along the stream, the checks that
call a peer's packet an attack never fire (`AckOrder`), and the loss lists fit their arrays (`LossListsFit`).  With fair
threads everything written is read unless a side gives up (`AllDelivered`); the EXP timer is what it needs, for a loss
is reported once only.  The arrays of the loss lists are chains in order (`ListWellFormed`) of the numbers that were
lost and not yet found (`ListIsSet`).

**UDT, sockets.**  With the one exception below, no thread has a deleted socket
(`NoUseOfDeleted`), the connections that wait in the queue are open, so that `removeSocket` may take them from the map without a
test (`QueuedAreOpen`), one thread in `accept` is never left asleep (`AcceptWoken`), and all that was closed or broke is removed
(`AllRemoved`).  The exception is the listener: `m_pListener` is read without `m_LSLock` (`queue.cpp:1022`), so that a request may be
in `CUDT::listen` while the collection deletes the listener, against the comment at `api.cpp:848`: `ListenerKept` is violated in the instance of `udt_sockets`.  Then
the thread may end in an access violation, or wait in `locate()` for `m_ControlLock`, which the collection holds while it
joins that thread; `AllRemoved` names the two (`LateForever`) and says that nothing else keeps a dead socket.  Connections that
`newConnection` rolls back are not counted among the dead: no map has them, and neither they nor the multiplexer that counts them are ever
freed.

**Seen while modelling, with no run of their own.**

* With two clients the assignment in the else-if of `SendThread` (`AdoClientManager.cpp:86`) makes
  every signal count as the end of a send, and the second client's pack is written over
  the first's while it is sent: the fault "overwrite", which two clients with a request each are enough for.
* The limit on sends is tested for event 0 only; on the events of the completion
  threads the check thread sends without it.
* A connection that fails makes `m_lSend` inexact, in both directions (`MarkPending` sets
  `bSendPending` after the completion was dealt with; `Decide` goes to `ReleaseSock` when the state is already idle).
* `EntryReleased` is checked with the faults under which it holds: with `timeout`, a release that was deferred for a
  reader may never be made up for.
* A failed `WSARecv`, or a header split over two reads, leaves an entry that nothing
  releases.
* In the client, `front()` may be called on an empty queue: a request that is pushed but
  not yet signalled is sent because of an APC, and its own signal comes afterwards (the fault "empty").  One client
  is enough.
* In the client, `DisConnect` frees `m_sendOvl.pdata` after it has let the send thread connect again and put the next pack
  there (`AsynSock.cpp:214`; the fault "freed" when a later chunk of that pack is copied).
* Two executes of a client that are open at once share its record set, and a callback may see the other's.
* A client whose connection is lost during a send stays NETBUSY for good.
* `hUserEvent` of a pool thread survives from its previous item when a pending one is taken; no caller passes one.
* The client does not test whether a header is whole (`AsynSock.cpp:330`): a reply whose header is cut by the end of a
  read makes it take a length from beyond what it has read.
* `CUDTUnited::accept` takes the connection made last, not the one that waits longest; and it uses `locate(u)` without a test
  (`api.cpp:715`), although the connection may have broken and been collected since (`AcceptAddress` ends in "fault").
* Two threads in `accept` of one listener: `m_AcceptCond` lets one through per `SetEvent`, and two connections
  that come together set it once; `AcceptWoken` is violated.  The program has one such thread.
* `CRcvLossList::remove` of a range that wraps leaves out the largest number (`list.cpp:640`); only message mode calls it.
* `recv` and `accept` take the socket off epoll's sets after they have released the lock under which they found nothing
  (`core.cpp:1199`, `api.cpp:698`): data that come in between are not announced.
* `ListenUDTData` accepts one connection before it waits for data, then reads one peer until that peer is gone, and spins in
  its `continue` once the listener is closed (`UDTExpand.cpp:105`).
* `AnalyzePack` looks at the first fragment of a chunk only; the tasks of one peer run it at once on one buffer, and the
  peer may be deleted meanwhile (`UDTExpand.cpp:249`).  `~CUDTUnit` deletes a buffer that `AnalyzePack` has deleted, and
  `SendData` never sends what `UDT::send` left over.

Checked by hand and not kept as runs: `udt_stream` with "repeat" instead of its conditions, and with four blocks and
"linger"; `udt_sockets` with two peers.  All properties hold there.

## 5. What is proved

The theorems hold for every value of the constants that satisfies the modules' assumptions
(`SockAssumption`; `ClientAssumption`; `FramingAssumption`, with which the buffer is longer than a header; the assumptions of `TaskPool`, which say how
threads are numbered; `SeqNoAssumption`, on the size of the circle; `UdtAssumption`, with which
a transfer has fewer blocks than half of it; `LossListAssumption`, with which what is outstanding fits into the arrays and
is less than half of the circle; `SocketsAssumption`).

* `TaskPoolProofs!TypeCorrect`: `TypeOK` is invariant.
* `TaskPoolProofs!PoolCorrect`: the inductive invariant `PoolInv`.  None of the pool's properties is
  inductive, since each depends on where every thread and submitter stands: an idle worker
  that a submitter has taken is on no list and has no other taker; an item is held by
  one submitter, one pending list or one worker.  `PoolInv` says who holds which thread and
  item at each program point.  Each action preserves it, mostly by a frame lemma for the parts
  that it leaves alone.  `AtMostOnceHolds`, `OnOneListHolds` and `IdleThreadsRestHolds` follow.
* `TaskPoolProofs!NoTaskLostHolds` and `QueueRefined`: the pool implements `WorkQueue`: initial
  states map to initial states, and each step to a step or a stutter.
* `TaskPoolProofs!QueueOrderHolds`: nothing gets ahead of a pending item (`PushedBehind`, `PoppedFirst`).
  `StoppedIsQuietHolds`, if at most one pool is ever stopped (`OneStops`): `LeaveInv` says that only threads of that
  pool leave, so that each signalled exit event is that of the thread whose slot it is.  With two pools that are stopped TLC
  breaks it: a thread of the one signals the slot of a thread of the other (`TaskPool.cpp` keeps one `pTaskPool` for all).
* `SockSrvProofs!ExclusiveReassemblyHolds`.  `ExclusiveReassembly` is not inductive: that nobody else
  reads depends on no read being outstanding, on the thread that has just accepted, and on
  connections not yet accepted having no operations.  `RecvInv` adds these.  Every action either leaves
  threads and reads alone, lets a thread leave, or is one of three transfers of the right to read
  (posting, taking, accepting), each a lemma.
* `SockSrvProofs!CheckEntryHeldHolds`.  The entry stays because its mark is set: `CheckInv` adds the mark,
  and `ReleaseKeeps` says that `ReleaseSock` spares marked entries.
* `SockSrvProofs!SentOnceHolds` and `TypeCorrect`, under every fault and even when an erased entry has been used.
  `ReplyInv`: a reply is in at most one of the pending list, a send buffer, what was sent and what was given up (`Apart`),
  and the item the check thread has at hand is the one it has put in the buffer, until it erases it from the list (`CheckOK`).
* `SockSrvHealthy`, while no connection fails: `NoFailure` takes `fin`, `reset`, `timeout` and `post` from `Faults`, and leaves headers
  that are split and unlisted errors.  `HealthyInv`: nobody is on a way that ends in a release (`Calm`), a connection with a
  pack in its buffer has exactly one send outstanding or one thread that carries it on (`Sends`), `m_lSend` counts the
  buffers that are in use and the threads that are about to give their count back (`Counted`), and a reply once queued is somewhere
  (`Somewhere`).  `OneSendHolds`, `SendCountHolds` and `ReplyConservedHolds` follow.  `NoneForgottenHolds` also needs the token:
  while replies wait, an event is set, a send is out or has ended, a `SendAdo` has pushed and not yet signalled, or the check thread is on its way to a reply (`Token`);
  and `WholeReads` (no `short`), since the server gives up what it has for a connection whose header the network cut.
  `NoneForgotten` speaks of the states in which no connection has gone down, and the theorem also excludes a shutdown
  for silence and a read that is refused; that the claim for the connections that stay up while others go down is false, as section 4 says (`OthersServed`).
  The run checks these properties with no faults at all.  Each of the faults taken away breaks one of them in TLC: `fin` and `reset` break
  `SendCountExact` and `ReplyConserved`, `fin` also `OneSend`, `timeout` `SendCountExact` and `NoneForgotten`, `post` and
  `short` `NoneForgotten`.  `OneSend` holds with the others on the small instance; that is not proved.
* `SockSrvHealthy!EntryReleasedHolds`, when clients may close and nothing else goes wrong (`OnlyFin`).  `FinInv`: an entry has a read
  outstanding, or a thread that reads or is about to release, or, once a release was put off, a thread that has marked the entry
  and will look at `bNeedClose` after it clears the mark (`Followed`, `Marked`); and when a release is asked for the reading is
  over (`ReadOver`), for a reader does not look at `bNeedClose`.  With any of `reset`, `timeout`, `short` or `post` besides `fin` it is
  false, for that reason or because a read is not posted again.
* `FramingProofs!FramingCorrect`, for any number of packs of any length, any header and any buffer longer than one.  `PacksAsSent`
  speaks of what has been handed on and says nothing of the pack that is being put together.  `FramingInv` says where the loop
  stands: in front of the header that follows the packs handed on, or inside the pack after
  them, with as many of its bytes copied as lie between its header and `Pos`, and as many lacking as follow.  That a header is read only where one begins
  (`LengthAt`) is a consequence.  `PacksAsSentHolds` and `OnlyCutHeadersStopHolds` follow.
* `MidClientProofs`, for any number of clients, requests and connections, up to a fault: `RequestsApart` (`OnePerClient`),
  `NothingForgotten` (`NoneStuck`) and `RepliesOwn` (`OwnReply`).  A request under way is in exactly one place,
  the queue, the send thread's hands or the socket (`Places`, `OnePack`), and something hands it on: while a request waits, the
  event is set, an APC is queued, or the I/O thread is about to queue one (`Woken`).  Here the reset of the event after the pop has to
  be shown harmless, which is what makes `NoneStuck` hard: it is not inductive.  For `OwnReply` the record set of a client is followed from `execute`, which
  empties it, through the reply to the callback (`Answered`, `Loaded`); the requests that meet another open one are
  in `overlapped`, and for the others no execute of their client falls in between (`NoneOpened`).
* `UdtSocketsProofs!NoUseOfDeletedHolds` and `QueuedAreOpenHolds`, for any number of sockets, threads and peers, with
  requests at any time and connections that are rolled back.  What keeps a pointer valid is different from place to
  place, and `SocketsInv` says what it is: a thread that works on a closed socket is in its stamp (`Grace`), a
  connection that the receiving thread has in hand is on its list or in the stamp, what is to be removed has an
  empty stamp and is not on the list (`Removing`), what is being made or waits to be accepted is known to nobody
  else (`Making`, `Waiting`, which need that identifiers are not given out twice: `Fresh`), and the multiplexer's count is
  that of the sockets bound to it, rolled back or not (`Multiplexer`).  The pointer to the listener needs no such support before
  `locate(listen)`, where it may be bad, and is good afterwards because the thread is then in the stamp or the listener not closed.  One lemma per action.  `AcceptWokenHolds` follows with one thread in `accept`.
* `UdtStreamProofs!StreamRefined`: a connection implements `Stream`, for transfers, buffers and windows of any size, any initial
  number and any of the `Conditions`.  First the arithmetic: `incseq` and `decseq` undo one another (`IncDec`), `seqoff` and `seqlen` measure
  what `incseq` adds (`OffsetOfSum`), in a window of less than half of the circle `seqcmp` is the order of the positions
  (`WindowOrdered`), and a range is what lies between its ends (`RangeIsInterval`), also where they wrap.  Then `UdtInv`
  states where both sides stand as positions in the stream (`Order`), what may be on the loss lists (`SndLosses`, `RcvLosses`) and in
  the hand of the sending thread (`Hand`), what each datagram under way says of both sides however late it arrives (`ToRcvOK`,
  `ToSndOK`), and which slot of the receiver's ring stands for which block (`Ring`).  The heart is the datagram with a newer block's data
  under an older number: its position is below `m_iRcvLastAck`, because `firstBlock` is, so that the receiver drops it.  From
  `UdtInv` follow `AckOrderHolds`, `LossListsFitHolds`, `TypeCorrect`, and step by step that what the reader reads is the next block.
* `UdtLossListProofs!ListWellFormedHolds` and `ListIsSetHolds`, for arrays of any size, any window that fits into them and any ISN,
  wherever the numbers wrap.  Both properties speak of the time between two calls, so what holds at every turn of
  every loop has to be found first (`LossListInv`, `LossListCorrect`).  Counted from a number `z` at the beginning of the window
  every outstanding number is an offset; offsets are ordered as integers (`Compared`), and the range whose first number has the
  offset `o` is at the place `o` behind that of the offset 0, whichever range is the head (`PlaceOff`, `PlaceRebased`).  The arrays are a `Chain`:
  each range at its place, the links in the order of the offsets, no overlaps except that one range, `Growing`, may have
  grown over those behind it; and `m_iLength` counts the numbers of the chain, with the whole of the growing range
  counted (`Count`), which is what the corrections in the loop that joins ranges amount to.  A node that is about to be written is
  empty because no range begins with its number (`FreePlace`).  What a call still has to do says `CallOK`: which numbers it
  will add, up to where it will clear, how far the loop back has come.  Lemmas about chains (`ChainNew`, `ChainMerged`, `ChainSplit`, `ChainAdvanced` ...) and about
  their numbers (`CountChain`, `CountMerged`, `CountSplit` ...) come first, then one lemma per branch of each call.  That the loop back ends at a
  place inside the window is a part of it (`GoingBack`); that loops end is not.

Only model-checked: everything that speaks of progress (`StopReturns`, `DirectRuns`, `BusyReturns`,
`QueueDrains`, `RequestAnswered`, `AllDelivered`, `AllRemoved`; liveness under fairness is beyond TLAPS).  No safety
property of a passing run is left without a theorem.

## 6. What is not modelled, and the plan

Left out of the modelled components: in `CTaskPool` the per-thread callbacks and the grouping of exit
events by 64; in `CIOCPSockSrv` `Run`, `Stop` and `Clean` (threads, heaps, handles) and `GuardAcceptEx`'s pool of
accepts; in `MidClient` the proxy handshakes and `ConnectDBProvider` called
by the application.  In UDT: the handshake, its cookies and the rendezvous mode; message mode, files and
`TTL`; congestion control, pacing and packet-pair probing (the window of a connection is the flow window); statistics, RTT and the
lengths of timers; epoll and select; connections that the application opens itself, the linger time inside
`close`, `startup` and `cleanup`; the heap of `CSndUList`, the hash table and the unit queue as data structures (they are a
set, a set, and unbounded); MD5 and the datagram channel.  The flow of a stream back from the receiver to the sender is
a second instance of `UdtStream`: apart from the timers, which count packets of both directions, the two share no state.

Not modelled for a reason other than size:

* `CAdoProvider` and the service.  What the models need of them is in `SockSrv` and `TaskPool`.  What they add are single steps
  with a plain result: `Stop` before `m_bRun` is set is lost (`AdoProvider.cpp:125`); a request that finds no database is dropped
  without a reply (`NoReply` in `SockSrv`) and without freeing its buffer (`AdoProvider.cpp:233`); a request that waited five minutes asks `ExistSock`, which reads the map without its mutex.
* `CUDTExpand` and `CUDTUnit`.  One needs no model to see that tasks on one unlocked buffer do not put chunks together, and
  the reply path (`CSrvUDPPeer::SubmitPack`) is empty.  What would have to hold of them, in-order and whole packs and peers that
  live as long as their tasks, is false in the first interleaving with two chunks.
* `CFeTimer` is used by no file.  `CsuUtil`, base64: functions of one buffer, within reach of tests.  The ADO wrapper forwards to
  COM.  zlib, log4cpp, xmlParser and tcmalloc are third-party code that the program uses through a few calls.

Planned: an abstract `Replies` (asked, queued, sending, sent or dropped, per connection) which `SockSrv`
implements on connections that stay up: `SockSrvHealthy` has the invariant for it.
