--------------------------- MODULE SockSrvProofs ---------------------------
(***************************************************************************)
(* Machine-checked proofs about SockSrv, for every set of connections and  *)
(* packs, every number of completion threads and every kind of fault.      *)
(*                                                                         *)
(* The first part is about the entries of connections: who reads one, and  *)
(* that the check thread's is not erased.  The second is about what        *)
(* becomes of a reply, and holds even once an erased entry has been used:  *)
(* it is in at most one of four places, the pending list, a send buffer,   *)
(* the sent ones and the ones given up.                                    *)
(***************************************************************************)
EXTENDS SockSrv, FiniteSetTheorems, SequenceTheorems, TLAPS

-----------------------------------------------------------------------------
(* Who reads a connection.                                                 *)

\* A thread between the accept or the completion of a read and the posting of
\* the next read: the connection is its to read.
Holds(w, s) == work[w].pc \in {"accepted", "recv", "repost"} /\ work[w].sock = s

WorkType == work \in [Worker -> [pc : WorkPc, sock : Sock \cup {None},
                                 out : {"more", "done", "error"}]]

RecvInv ==
  /\ WorkType
  /\ recvIO \in [Sock -> {"none", "posted", "done", "failed"}]
  /\ conn \in [Sock -> {"none", "open", "fin", "reset"}]
  /\ \A w \in Worker : work[w].pc \in {"accepted", "recv", "repost"} => work[w].sock \in Sock
  /\ \A s \in Sock : conn[s] = "none" => recvIO[s] = "none"
  /\ \A s \in Sock : \A w \in Worker : Holds(w, s) => recvIO[s] = "none" /\ conn[s] # "none"
  /\ \A s \in Sock : \A v, w \in Worker : Holds(v, s) /\ Holds(w, s) => v = w

LEMMA RecvStart == SockAssumption /\ Init => RecvInv
  BY DEF Init, RecvInv, WorkType, Holds, IdleWork, WorkPc

\* A step that moves no thread into, out of or between connections, and does not
\* touch the network, keeps the invariant.
LEMMA RecvFrame ==
  ASSUME RecvInv, UNCHANGED <<work, conn, recvIO>>
  PROVE  RecvInv'
  BY DEF RecvInv, WorkType, Holds

\* Only thread w moves.
Moves(w) == WorkType' /\ \A v \in Worker \ {w} : work'[v] = work[v]

\* What the three ways to move a thread do.
LEMMA GotoMoves ==
  ASSUME WorkType, NEW w \in Worker, NEW pc \in WorkPc, Goto(w, pc)
  PROVE  Moves(w) /\ work'[w].pc = pc /\ work'[w].sock = work[w].sock /\ work'[w].out = work[w].out
  BY DEF WorkType, Goto, Moves

LEMMA EnterMoves ==
  ASSUME WorkType, NEW w \in Worker, NEW s \in Sock, NEW pc \in WorkPc, Enter(w, pc, s)
  PROVE  Moves(w) /\ work'[w].pc = pc /\ work'[w].sock = s /\ work'[w].out = work[w].out
  BY DEF WorkType, Enter, Moves

LEMMA LoopMoves ==
  ASSUME WorkType, NEW w \in Worker, Loop(w)
  PROVE  Moves(w) /\ work'[w].pc = "free" /\ work'[w].out = "more"
  BY DEF WorkType, Loop, Moves, IdleWork, WorkPc

LEMMA OutMoves ==
  ASSUME WorkType, NEW w \in Worker, NEW pc \in WorkPc,
         NEW out \in {"more", "done", "error"},
         work' = [work EXCEPT ![w].pc = pc, ![w].out = out]
  PROVE  Moves(w) /\ work'[w].pc = pc /\ work'[w].sock = work[w].sock /\ work'[w].out = out
<1> DEFINE Row == [pc : WorkPc, sock : Sock \cup {None}, out : {"more", "done", "error"}]
           r == [work[w] EXCEPT !.pc = pc, !.out = out]
<1>1. work[w] \in Row /\ work \in [Worker -> Row]
  BY DEF WorkType
<1>2. r \in Row /\ r.pc = pc /\ r.sock = work[w].sock /\ r.out = out
  BY <1>1
<1>3. work' = [work EXCEPT ![w] = r]
  OBVIOUS
<1> HIDE DEF r, Row
<1>4. work' \in [Worker -> Row] /\ work'[w] = r /\ \A v \in Worker \ {w} : work'[v] = work[v]
  BY <1>1, <1>2, <1>3
<1> QED
  BY <1>2, <1>4 DEF Moves, WorkType, Row

\* The values of work[w].pc at which a thread holds a connection.
HoldPc == {"accepted", "recv", "repost"}

\* A thread that leaves a connection, or goes on where it does not read, keeps
\* the invariant.
LEMMA RecvLeave ==
  ASSUME RecvInv, NEW w \in Worker, UNCHANGED <<conn, recvIO>>, Moves(w),
         work'[w].pc \notin HoldPc
  PROVE  RecvInv'
  BY DEF RecvInv, Holds, Moves, HoldPc

\* So does one that goes on reading the same connection.
LEMMA RecvGoOn ==
  ASSUME RecvInv, NEW w \in Worker, UNCHANGED <<conn, recvIO>>, Moves(w),
         work[w].pc \in HoldPc, work'[w].sock = work[w].sock
  PROVE  RecvInv'
  BY DEF RecvInv, Holds, Moves, HoldPc

\* A thread that posts a read on the connection it holds must let go of it.
LEMMA RecvPost ==
  ASSUME RecvInv, NEW w \in Worker, work[w].pc \in HoldPc, UNCHANGED conn,
         recvIO' = [recvIO EXCEPT ![work[w].sock] = "posted"], Moves(w),
         work'[w].pc \notin HoldPc
  PROVE  RecvInv'
  BY DEF RecvInv, Holds, Moves, HoldPc

\* A completion that is taken was outstanding, so that no thread holds the
\* connection: the thread that takes it may.
LEMMA RecvTake ==
  ASSUME RecvInv, NEW w \in Worker, NEW s \in Sock, recvIO[s] # "none", UNCHANGED conn,
         recvIO' = [recvIO EXCEPT ![s] = "none"], Moves(w),
         work'[w].pc \in HoldPc => work'[w].sock = s
  PROVE  RecvInv'
  BY DEF RecvInv, Holds, Moves, HoldPc

\* A connection that has just been accepted was nobody's.
LEMMA RecvAccept ==
  ASSUME RecvInv, NEW w \in Worker, NEW s \in Sock, conn[s] = "none", UNCHANGED recvIO,
         conn' = [conn EXCEPT ![s] = "open"], Moves(w),
         work'[w].pc \in HoldPc => work'[w].sock = s
  PROVE  RecvInv'
  BY DEF RecvInv, Holds, Moves, HoldPc

-----------------------------------------------------------------------------
\* Every step of the server, the network or the kernel keeps the invariant.
LEMMA RecvStep == SockAssumption /\ RecvInv /\ [Next]_vars => RecvInv'
<1> SUFFICES ASSUME SockAssumption, RecvInv, [Next]_vars PROVE RecvInv'
  OBVIOUS
<1>0. WorkType /\ \A w \in Worker : work[w].pc \in WorkPc
  BY DEF RecvInv, WorkType
<1>1. ASSUME NEW w \in Worker, NEW s \in Sock, Accept(w, s)
      PROVE  RecvInv'
  <2>1. Moves(w) /\ work'[w].sock = s
    BY <1>1, <1>0, EnterMoves DEF Accept, WorkPc
  <2> QED BY <1>1, <2>1, RecvAccept DEF Accept
<1>2. ASSUME NEW w \in Worker, WorkRelease(w)
      PROVE  RecvInv'
  <2>1. Moves(w) /\ work'[w].pc \notin HoldPc
    BY <1>2, <1>0, GotoMoves, LoopMoves DEF WorkRelease, WorkPc, HoldPc
  <2>2. UNCHANGED <<conn, recvIO>>
    BY <1>2 DEF WorkRelease, Unreleased, netVars
  <2> QED BY <2>1, <2>2, RecvLeave
<1>3. ASSUME NEW w \in Worker, AcceptPost(w)
      PROVE  RecvInv'
  <2>1. Moves(w) /\ work'[w].pc \notin HoldPc /\ work[w].pc \in HoldPc /\ UNCHANGED conn
    BY <1>3, <1>0, GotoMoves, LoopMoves DEF AcceptPost, WorkPc, HoldPc
  <2>2. UNCHANGED recvIO \/ recvIO' = [recvIO EXCEPT ![work[w].sock] = "posted"]
    BY <1>3 DEF AcceptPost
  <2> QED BY <2>1, <2>2, RecvLeave, RecvPost
<1>4. ASSUME NEW w \in Worker, Receive(w)
      PROVE  RecvInv'
  <2>1. UNCHANGED <<conn, recvIO>> /\ work[w].pc \in HoldPc
    BY <1>4 DEF Receive, netVars, HoldPc
  <2>2. CASE UNCHANGED work
    BY <2>1, <2>2, RecvFrame
  <2>3. CASE Loop(w)
    BY <2>1, <2>3, <1>0, LoopMoves, RecvLeave DEF HoldPc
  <2>4. CASE Goto(w, "repost") \/ Goto(w, "drop")
    BY <2>1, <2>4, <1>0, GotoMoves, RecvGoOn DEF WorkPc
  <2> QED BY <1>4, <2>2, <2>3, <2>4 DEF Receive
<1>5. ASSUME NEW w \in Worker, Drop(w)
      PROVE  RecvInv'
  <2>1. Moves(w) /\ work'[w].pc \notin HoldPc
    BY <1>5, <1>0, GotoMoves, LoopMoves DEF Drop, WorkPc, HoldPc
  <2>2. UNCHANGED <<conn, recvIO>>
    BY <1>5 DEF Drop, netVars
  <2> QED BY <2>1, <2>2, RecvLeave
<1>6. ASSUME NEW w \in Worker, Repost(w)
      PROVE  RecvInv'
  <2>1. Moves(w) /\ work'[w].pc \notin HoldPc /\ work[w].pc \in HoldPc /\ UNCHANGED conn
    BY <1>6, <1>0, GotoMoves DEF Repost, WorkPc, HoldPc
  <2>2. UNCHANGED recvIO \/ recvIO' = [recvIO EXCEPT ![work[w].sock] = "posted"]
    BY <1>6 DEF Repost
  <2> QED BY <2>1, <2>2, RecvLeave, RecvPost
<1>7. ASSUME NEW w \in Worker, RecvIdle(w)
      PROVE  RecvInv'
  <2>1. Moves(w) /\ work'[w].pc \notin HoldPc
    BY <1>7, <1>0, GotoMoves, LoopMoves DEF RecvIdle, WorkPc, HoldPc
  <2>2. UNCHANGED <<conn, recvIO>>
    BY <1>7 DEF RecvIdle, netVars
  <2> QED BY <2>1, <2>2, RecvLeave
<1>8. ASSUME NEW w \in Worker, CloseAfterFailure(w)
      PROVE  RecvInv'
  <2>1. Moves(w) /\ work'[w].pc \notin HoldPc
    BY <1>8, <1>0, GotoMoves, LoopMoves DEF CloseAfterFailure, WorkPc, HoldPc
  <2>2. UNCHANGED <<conn, recvIO>>
    BY <1>8 DEF CloseAfterFailure, netVars
  <2> QED BY <2>1, <2>2, RecvLeave
<1>9. ASSUME NEW w \in Worker, Sent(w)
      PROVE  RecvInv'
  <2>1. UNCHANGED <<conn, recvIO>>
    BY <1>9 DEF Sent, PostSend, netVars
  <2>2. CASE \E pc \in {"pended", "unmark"} : Goto(w, pc)
    BY <2>1, <2>2, <1>0, GotoMoves, RecvLeave DEF WorkPc, HoldPc
  <2>3. ASSUME NEW out \in {"done", "error"},
               work' = [work EXCEPT ![w].pc = "unmark", ![w].out = out]
        PROVE  RecvInv'
    <3>1. Moves(w) /\ work'[w].pc = "unmark"
      BY <2>3, <1>0, OutMoves DEF WorkPc
    <3> QED BY <2>1, <3>1, RecvLeave DEF HoldPc
  <2> QED BY <1>9, <2>2, <2>3 DEF Sent
<1>10. ASSUME NEW w \in Worker, MarkPending(w)
      PROVE  RecvInv'
  <2>1. Moves(w) /\ work'[w].pc \notin HoldPc
    BY <1>10, <1>0, GotoMoves, LoopMoves DEF MarkPending, WorkPc, HoldPc
  <2>2. UNCHANGED <<conn, recvIO>>
    BY <1>10 DEF MarkPending, netVars
  <2> QED BY <2>1, <2>2, RecvLeave
<1>11. ASSUME NEW w \in Worker, Unmark(w)
      PROVE  RecvInv'
  <2>1. Moves(w) /\ work'[w].pc \notin HoldPc
    BY <1>11, <1>0, GotoMoves, LoopMoves DEF Unmark, WorkPc, HoldPc
  <2>2. UNCHANGED <<conn, recvIO>>
    BY <1>11 DEF Unmark, netVars
  <2> QED BY <2>1, <2>2, RecvLeave
<1>12. ASSUME NEW w \in Worker, Decide(w)
      PROVE  RecvInv'
  <2>1. Moves(w) /\ work'[w].pc \notin HoldPc
    BY <1>12, <1>0, GotoMoves, LoopMoves DEF Decide, WorkPc, HoldPc
  <2>2. UNCHANGED <<conn, recvIO>>
    BY <1>12 DEF Decide, netVars
  <2> QED BY <2>1, <2>2, RecvLeave
<1>13. ASSUME NEW w \in Worker, Credit(w)
      PROVE  RecvInv'
  <2>1. Moves(w) /\ work'[w].pc \notin HoldPc
    BY <1>13, <1>0, GotoMoves, LoopMoves DEF Credit, WorkPc, HoldPc
  <2>2. UNCHANGED <<conn, recvIO>>
    BY <1>13 DEF Credit, netVars
  <2> QED BY <2>1, <2>2, RecvLeave
<1>14. ASSUME NEW w \in Worker, NEW s \in Sock, DequeueFailed(w, s)
      PROVE  RecvInv'
  <2>1. /\ Moves(w) /\ work'[w].pc \notin HoldPc /\ UNCHANGED conn
    BY <1>14, <1>0, EnterMoves, GotoMoves DEF DequeueFailed, TakeRecv, TakeFailedSend, WorkPc, HoldPc
  <2>2. CASE TakeRecv(s, "failed")
    BY <2>1, <2>2, RecvTake DEF TakeRecv
  <2>3. CASE TakeFailedSend(s)
    BY <2>1, <2>3, RecvLeave DEF TakeFailedSend
  <2> QED BY <1>14, <2>2, <2>3 DEF DequeueFailed
<1>15. ASSUME NEW w \in Worker, NEW s \in Sock, Ignore(w, s)
      PROVE  RecvInv'
  <2>1. Moves(w) /\ work'[w].pc \notin HoldPc /\ UNCHANGED conn
    BY <1>15, <1>0 DEF Ignore, TakeRecv, TakeSend, Moves, WorkType, HoldPc
  <2>2. CASE TakeRecv(s, "done")
    BY <2>1, <2>2, RecvTake DEF TakeRecv
  <2>3. CASE TakeSend(s)
    BY <2>1, <2>3, RecvLeave DEF TakeSend
  <2> QED BY <1>15, <2>2, <2>3 DEF Ignore
<1>16. ASSUME NEW w \in Worker, NEW s \in Sock, DequeueRecv(w, s)
      PROVE  RecvInv'
  <2>1. Moves(w) /\ work'[w].sock = s
    BY <1>16, <1>0, EnterMoves DEF DequeueRecv, WorkPc
  <2> QED BY <1>16, <2>1, RecvTake DEF DequeueRecv, TakeRecv
<1>17. ASSUME NEW w \in Worker, NEW s \in Sock, DequeueSend(w, s)
      PROVE  RecvInv'
  <2>1. Moves(w) /\ work'[w].pc \notin HoldPc
    BY <1>17, <1>0, EnterMoves DEF DequeueSend, WorkPc, HoldPc
  <2> QED BY <1>17, <2>1, RecvLeave DEF DequeueSend, TakeSend
<1>18. ASSUME NEW s \in Sock, IoStep(s) \/ PeerGone(s)
      PROVE  RecvInv'
  <2>1. UNCHANGED work
    BY <1>18 DEF IoStep, RecvCompletes, SendCompletes, PeerGone, Outside
  <2>2. CASE RecvCompletes(s)
    BY <2>1, <2>2 DEF RecvCompletes, RecvInv, WorkType, Holds
  <2>3. CASE SendCompletes(s)
    BY <2>1, <2>3, RecvFrame DEF SendCompletes
  <2>4. CASE PeerGone(s)
    BY <2>1, <2>4 DEF PeerGone, RecvInv, WorkType, Holds
  <2> QED BY <1>18, <2>2, <2>3, <2>4 DEF IoStep
<1>19. ASSUME CheckStep PROVE RecvInv'
  <2>1. UNCHANGED <<work, conn, recvIO>>
    BY <1>19 DEF CheckStep, WakeCheck, BeginCheck, Scan, ScanEnds, MarkBusy, SendPack, PostSend,
         EraseSent, ClearMark, LookNeedClose, CheckRelease, Unreleased, netVars
  <2> QED BY <2>1, RecvFrame
<1>20. ASSUME NEW k \in Pack, AdoStep(k) \/ Arrive(k) PROVE RecvInv'
  <2>1. UNCHANGED <<work, conn, recvIO>>
    BY <1>20 DEF AdoStep, NoReply, AdoFind, AdoPush, AdoSignal, Arrive, Outside, netVars
  <2> QED BY <2>1, RecvFrame
<1>21. ASSUME NEW s \in Sock, TimeOut(s) PROVE RecvInv'
  <2>1. UNCHANGED <<work, conn, recvIO>>
    BY <1>21 DEF TimeOut, Unreleased, netVars
  <2> QED BY <2>1, RecvFrame
<1>22. ASSUME Quiescent \/ UNCHANGED vars PROVE RecvInv'
  <2>1. UNCHANGED <<work, conn, recvIO>>
    BY <1>22 DEF Quiescent, vars, netVars
  <2> QED BY <2>1, RecvFrame
<1> QED
  BY <1>1, <1>2, <1>3, <1>4, <1>5, <1>6, <1>7, <1>8, <1>9, <1>10, <1>11, <1>12, <1>13, <1>14, <1>15, <1>16, <1>17, <1>18, <1>19, <1>20, <1>21, <1>22
     DEF Next, WorkStep

\* Nobody else reads a connection, and no read is outstanding, while a thread
\* puts its requests together: for any number of threads and any fault.
THEOREM ExclusiveReassemblyHolds == Spec => []ExclusiveReassembly
<1>1. SockAssumption
  BY SockAssumption
<1>2. Init => RecvInv
  BY <1>1, RecvStart
<1>3. RecvInv /\ [Next]_vars => RecvInv'
  BY <1>1, RecvStep
<1>4. RecvInv => ExclusiveReassembly
  BY DEF RecvInv, ExclusiveReassembly, Reading, Holds
<1> QED
  BY <1>2, <1>3, <1>4, PTL DEF Spec

-----------------------------------------------------------------------------
(* The entry the check thread works on.                                    *)

\* Between setting bCheckPending and clearing it.
MarkPc == {"mark", "send", "erase", "clear"}

Outcome == {"ok", "fail", "skip"}

CheckShape ==
  /\ check = [pc |-> check.pc, event |-> check.event, it |-> check.it,
              pack |-> check.pack, out |-> check.out]
  /\ check.out \in Outcome

\* CheckEntryHeld is not inductive: that the entry stays depends on its mark.
CheckInv ==
  /\ CheckShape
  /\ check.pc \in MarkPc => ItemSock \in m_sockmap \cap bCheckPending

LEMMA CheckStart == Init => CheckInv
  BY DEF Init, CheckInv, CheckShape, Outcome, IdleCheck, MarkPc

\* Entries come, and none that is marked goes.
Kept == m_sockmap \cap bCheckPending \subseteq m_sockmap' \cap bCheckPending'

LEMMA CheckFrame ==
  ASSUME CheckInv, UNCHANGED check, Kept
  PROVE  CheckInv'
  BY DEF CheckInv, CheckShape, Outcome, ItemSock, Kept

\* The check thread is outside the region where it relies on the mark.
LEMMA CheckOut ==
  ASSUME CheckShape', check'.pc \notin MarkPc
  PROVE  CheckInv'
  BY DEF CheckInv

\* It goes on with the same entry.
LEMMA CheckOn ==
  ASSUME CheckInv, NEW pc, NEW out \in Outcome, check.pc \in MarkPc, Kept,
         check' = [check EXCEPT !.pc = pc, !.out = out] \/ check' = [check EXCEPT !.pc = pc]
  PROVE  CheckInv'
  BY DEF CheckInv, CheckShape, Outcome, ItemSock, Kept

\* ReleaseSock spares an entry that bears the check thread's mark.
LEMMA ReleaseKeeps ==
  ASSUME NEW s, ReleaseSock(s), UNCHANGED bCheckPending
  PROVE  Kept
  BY DEF ReleaseSock, Kept, InUse, releaseVars

\* The steps that take the check thread out of the region, or leave it there.
LEMMA NextOut ==
  ASSUME CheckShape, NextItem \/ CheckEnds \/ CheckGoto("scan") \/ CheckGoto("release")
  PROVE  CheckShape' /\ check'.pc \notin MarkPc
<1>1. CASE CheckEnds
  BY <1>1 DEF CheckEnds, IdleCheck, CheckShape, Outcome, MarkPc
<1>2. ASSUME NEW pc \in {"scan", "release"}, CheckGoto(pc)
      PROVE  CheckShape' /\ check'.pc \notin MarkPc
  BY <1>2 DEF CheckGoto, CheckShape, Outcome, MarkPc
<1>3. CASE check' = [check EXCEPT !.pc = "scan", !.it = @ + 1]
  BY <1>3 DEF CheckShape, Outcome, MarkPc
<1>4. CASE NextItem
  <2>1. CASE check.out = "ok"
    BY <1>4, <2>1, <1>1 DEF NextItem
  <2>2. CASE check.out = "fail"
    BY <1>4, <2>2, <1>2 DEF NextItem
  <2>3. CASE check.out = "skip"
    BY <1>4, <2>3, <1>3 DEF NextItem
  <2> QED BY <1>4, <2>1, <2>2, <2>3 DEF CheckShape, Outcome
<1> QED BY <1>1, <1>2, <1>4

LEMMA CheckInvStep == CheckInv /\ [Next]_vars => CheckInv'
<1> SUFFICES ASSUME CheckInv, [Next]_vars PROVE CheckInv'
  OBVIOUS
<1>1. ASSUME NEW w \in Worker, WorkStep(w) PROVE CheckInv'
  <2>1. UNCHANGED check
    BY <1>1 DEF WorkStep, WorkRelease, AcceptPost, Receive, Drop, Repost, RecvIdle,
         CloseAfterFailure, Sent, MarkPending, Unmark, Decide, Credit, DequeueFailed,
         Ignore, DequeueRecv, DequeueSend
  <2>2. CASE WorkRelease(w)
    <3>1. Kept
      BY <2>2, ReleaseKeeps DEF WorkRelease, Unreleased
    <3> QED BY <2>1, <3>1, CheckFrame
  <2>3. CASE ~WorkRelease(w)
    <3>1. UNCHANGED <<m_sockmap, bCheckPending>>
      BY <1>1, <2>3 DEF WorkStep, AcceptPost, Receive, Drop, Repost, RecvIdle,
         CloseAfterFailure, Sent, MarkPending, Unmark, Decide, Credit, DequeueFailed,
         Ignore, DequeueRecv, DequeueSend, flagVars
    <3> QED BY <2>1, <3>1, CheckFrame DEF Kept
  <2> QED BY <2>2, <2>3
<1>2. ASSUME NEW w \in Worker, NEW s \in Sock, Accept(w, s) PROVE CheckInv'
  BY <1>2, CheckFrame DEF Accept, Kept, flagVars
<1>3. CASE WakeCheck
  <2>1. PICK e : check' = [check EXCEPT !.pc = "reset", !.event = e]
    BY <1>3 DEF WakeCheck
  <2> QED BY <2>1, CheckOut DEF CheckInv, CheckShape, Outcome, MarkPc
<1>4. CASE BeginCheck \/ ScanEnds \/ LookNeedClose \/ CheckRelease
  <2>1. CheckShape
    BY DEF CheckInv
  <2> QED BY <1>4, <2>1, NextOut, CheckOut DEF BeginCheck, ScanEnds, LookNeedClose, CheckRelease
<1>5. CASE Scan
  <2> DEFINE pk == m_pendingPackList[check.it]
             s == Dest[pk]
  <2>1. CASE s \notin m_sockmap
    BY <1>5, <2>1, CheckFrame DEF Scan, Kept
  <2>2. CASE s \in m_sockmap
    <3>1. PICK pc : check' = [check EXCEPT !.pc = pc, !.pack = pk, !.out = "skip"]
      BY <1>5, <2>2 DEF Scan
    <3>2. s \in m_sockmap' /\ s \in bCheckPending'
      BY <1>5, <2>2 DEF Scan
    <3>3. CheckShape' /\ check'.pack = pk
      BY <3>1 DEF CheckInv, CheckShape, Outcome
    <3> QED BY <3>2, <3>3 DEF CheckInv, ItemSock
  <2> QED BY <2>1, <2>2
<1>6. CASE MarkBusy \/ EraseSent
  <2>1. PICK pc : check' = [check EXCEPT !.pc = pc]
    BY <1>6 DEF MarkBusy, EraseSent, CheckGoto
  <2>2. check.pc \in MarkPc /\ Kept
    BY <1>6 DEF MarkBusy, EraseSent, MarkPc, Kept, flagVars
  <2>3. check.out \in Outcome
    BY DEF CheckInv, CheckShape
  <2> QED BY <2>1, <2>2, <2>3, CheckOn
<1>7. CASE SendPack
  <2>1. PICK out \in Outcome : check' = [check EXCEPT !.pc = "erase", !.out = out]
    BY <1>7 DEF SendPack, Outcome
  <2>2. check.pc \in MarkPc /\ Kept
    BY <1>7 DEF SendPack, MarkPc, Kept
  <2> QED BY <2>1, <2>2, CheckOn
<1>8. CASE ClearMark
  BY <1>8, CheckOut DEF ClearMark, CheckGoto, CheckInv, CheckShape, Outcome, MarkPc
<1>9. ASSUME NEW k \in Pack, AdoStep(k) \/ Arrive(k) PROVE CheckInv'
  BY <1>9, CheckFrame DEF AdoStep, NoReply, AdoFind, AdoPush, AdoSignal, Arrive, Outside, Kept, flagVars
<1>10. ASSUME NEW s \in Sock, IoStep(s) \/ PeerGone(s) PROVE CheckInv'
  BY <1>10, CheckFrame DEF IoStep, RecvCompletes, SendCompletes, PeerGone, Outside, Kept, flagVars
<1>11. ASSUME NEW s \in Sock, TimeOut(s) PROVE CheckInv'
  <2>1. UNCHANGED check /\ UNCHANGED bCheckPending
    BY <1>11 DEF TimeOut, Unreleased
  <2>2. Kept
    BY <1>11, <2>1, ReleaseKeeps DEF TimeOut, Kept, releaseVars
  <2> QED BY <2>1, <2>2, CheckFrame
<1>12. CASE Quiescent \/ UNCHANGED vars
  BY <1>12, CheckFrame DEF Quiescent, vars, flagVars, Kept
<1> QED
  BY <1>1, <1>2, <1>3, <1>4, <1>5, <1>6, <1>7, <1>8, <1>9, <1>10, <1>11, <1>12
     DEF Next, CheckStep

\* The mark on the entry keeps every release away: for any number of connections
\* and threads and any fault, even after an entry was used that is gone.
THEOREM CheckEntryHeldHolds == Spec => []CheckEntryHeld
<1>1. CheckInv => CheckEntryHeld
  BY DEF CheckInv, CheckEntryHeld, MarkPc
<1> QED
  BY <1>1, CheckStart, CheckInvStep, PTL DEF Spec

-----------------------------------------------------------------------------
(* Where a reply is.                                                       *)

Place == 1..Len(m_pendingPackList)

\* In the pending list, and in it without being taken off at this moment.
Listed(k) == \E i \in Place : m_pendingPackList[i] = k
Waiting(k) ==
  \E i \in Place : m_pendingPackList[i] = k /\ ~(check.pc = "erase" /\ i = check.it)

InBuffer(k) == \E s \in Sock : Senddatapack[s] = k
Gone(k) == \E i \in 1..Len(sent) : sent[i] = k

\* The types of the variables.
SetsOK ==
  /\ m_sockmap \subseteq Sock /\ hTimeOut \subseteq Sock
  /\ bNeedClose \subseteq Sock /\ bCheckPending \subseteq Sock
  /\ bSendPending \subseteq Sock /\ bClose \subseteq Sock
  /\ bInSendWorkThread \subseteq Sock
  /\ netSendBusy \subseteq Sock /\ netRecvBusy \subseteq Sock
  /\ dropped \subseteq Pack

WorkOK ==
  /\ WorkType
  /\ \A w \in Worker : work[w].pc \notin {"free", "dead"} => work[w].sock \in Sock

CheckType ==
  check \in [pc : CheckPc, event : {0} \cup Worker, it : Nat \ {0},
             pack : Pack \cup {None}, out : {"ok", "fail", "skip"}]

\* While the check thread works on a pack it knows the place it is at.
AtPc == {"mark", "send", "erase"}

CheckOK ==
  /\ CheckType
  /\ check.pc \notin {"wait", "reset", "scan"} => check.pack \in Pack
  /\ check.pc \in AtPc =>
       check.it <= Len(m_pendingPackList) /\ m_pendingPackList[check.it] = check.pack

ListOK == m_pendingPackList \in Seq(Pack)

PacksOK ==
  /\ Senddatapack \in [Sock -> Pack \cup {None}] /\ dwSendRemain \in [Sock -> Nat]
  /\ m_lSend \in Int /\ m_phSendThread \subseteq {0} \cup Worker
  /\ adoPc \in [Pack -> {"new", "arrived", "asked", "refused", "found", "pushed", "given"}]
  /\ sent \in Seq(Pack)

NetOK ==
  /\ conn \in [Sock -> {"none", "open", "fin", "reset"}]
  /\ recvIO \in [Sock -> {"none", "posted", "done", "failed"}]
  /\ sendPosted \in [Sock -> Nat]
  /\ sendDone \in [Sock -> Nat] /\ sendFailed \in [Sock -> Nat]

UseOK == dangling \in BOOLEAN

\* A pack is listed once, and a send buffer holds a pack of its own connection.
Buffers ==
  /\ \A i, j \in Place : m_pendingPackList[i] = m_pendingPackList[j] => i = j
  /\ \A s \in Sock : Senddatapack[s] # None => Dest[Senddatapack[s]] = s

\* Until SendAdo has pushed it a reply is nowhere.
Unqueued ==
  \A k \in Pack : adoPc[k] \notin {"pushed", "given"} =>
    ~Listed(k) /\ ~InBuffer(k) /\ ~Gone(k) /\ k \notin dropped

\* A reply is in one place at most.
Apart ==
  /\ \A k \in Pack : Waiting(k) => ~InBuffer(k) /\ ~Gone(k) /\ k \notin dropped
  /\ \A k \in Pack : InBuffer(k) => ~Gone(k) /\ k \notin dropped
  /\ \A k \in Pack : Gone(k) => k \notin dropped
  /\ \A i, j \in 1..Len(sent) : sent[i] = sent[j] => i = j

ReplyInv ==
  /\ SetsOK /\ WorkOK /\ CheckOK /\ ListOK /\ PacksOK /\ NetOK /\ UseOK
  /\ Buffers /\ Unqueued /\ Apart

-----------------------------------------------------------------------------
(* Lemmas.                                                                 *)

\* What is used of the constants.
LEMMA Constants ==
  /\ \A k \in Pack : Dest[k] \in Sock /\ Chunks[k] \in Nat /\ Chunks[k] > 0
  /\ None \notin Sock /\ None \notin Pack
  BY SockAssumption DEF SockAssumption

\* A sequence without its n-th element.
LEMMA Without ==
  ASSUME NEW S, NEW q \in Seq(S), NEW n \in 1..Len(q)
  PROVE  LET r == SubSeq(q, 1, n - 1) \o SubSeq(q, n + 1, Len(q)) IN
         /\ r \in Seq(S) /\ Len(r) = Len(q) - 1
         /\ \A i \in 1..(Len(q) - 1) : r[i] = q[IF i < n THEN i ELSE i + 1]
<1> DEFINE a == SubSeq(q, 1, n - 1)
           b == SubSeq(q, n + 1, Len(q))
           r == a \o b
<1>1. Len(q) \in Nat /\ n \in Int /\ 1 <= n /\ n <= Len(q)
  OBVIOUS
<1>2. \A i \in 1..Len(q) : q[i] \in S
  OBVIOUS
<1>3. a \in Seq(S) /\ Len(a) = n - 1 /\ \A i \in 1..(n - 1) : a[i] = q[i]
  <2>1. n - 1 \in Int /\ \A i \in 1..(n - 1) : q[i] \in S
    BY <1>1, <1>2
  <2>2. /\ a \in Seq(S)
        /\ Len(a) = IF 1 <= n - 1 THEN (n - 1) - 1 + 1 ELSE 0
        /\ \A i \in 1..((n - 1) - 1 + 1) : a[i] = q[1 + i - 1]
    BY <2>1, SubSeqProperties
  <2> HIDE DEF a
  <2>3. (n - 1) - 1 + 1 = n - 1 /\ \A i \in 1..(n - 1) : 1 + i - 1 = i
    BY <1>1
  <2> QED
    BY <1>1, <2>2, <2>3
<1>4. b \in Seq(S) /\ Len(b) = Len(q) - n
  <2>1. n + 1 \in Int /\ Len(q) \in Int /\ \A i \in (n + 1)..Len(q) : q[i] \in S
    BY <1>1, <1>2
  <2>2. b \in Seq(S) /\ Len(b) = IF n + 1 <= Len(q) THEN Len(q) - (n + 1) + 1 ELSE 0
    BY <2>1, SubSeqProperties
  <2> HIDE DEF b
  <2> QED
    BY <1>1, <2>2
<1>5. \A i \in 1..(Len(q) - n) : b[i] = q[n + i]
  <2>1. n + 1 \in Int /\ Len(q) \in Int /\ \A i \in (n + 1)..Len(q) : q[i] \in S
    BY <1>1, <1>2
  <2>2. \A i \in 1..(Len(q) - (n + 1) + 1) : b[i] = q[(n + 1) + i - 1]
    BY <2>1, SubSeqProperties
  <2>3. Len(q) - (n + 1) + 1 = Len(q) - n
    BY <1>1
  <2>4. \A i \in 1..(Len(q) - n) : (n + 1) + i - 1 = n + i
    BY <1>1
  <2> HIDE DEF b
  <2> QED
    BY <2>2, <2>3, <2>4
<1> HIDE DEF a, b
<1>6. r \in Seq(S) /\ Len(r) = Len(q) - 1
  <2>1. r \in Seq(S) /\ Len(r) = Len(a) + Len(b)
    BY <1>3, <1>4, ConcatProperties
  <2> QED
    BY <1>1, <1>3, <1>4, <2>1
<1>7. ASSUME NEW i \in 1..(Len(q) - 1)
      PROVE  r[i] = q[IF i < n THEN i ELSE i + 1]
  <2>1. CASE i < n
    BY <1>1, <1>3, <1>4, <2>1
  <2>2. CASE ~(i < n)
    <3>1. i - (n - 1) \in 1..(Len(q) - n) /\ i \in 1..(Len(a) + Len(b)) /\ i > Len(a)
      BY <1>1, <1>3, <1>4, <2>2
    <3>2. r[i] = b[i - Len(a)]
      BY <1>3, <1>4, <3>1
    <3>3. r[i] = b[i - (n - 1)]
      BY <1>3, <3>2
    <3>4. n + (i - (n - 1)) = i + 1
      BY <1>1
    <3> QED
      BY <1>5, <2>2, <3>1, <3>3, <3>4
  <2> QED
    BY <2>1, <2>2
<1> QED
  BY <1>6, <1>7 DEF a, b

\* What the erase of the item the check thread is at does to the list.
LEMMA Erased ==
  ASSUME ListOK, check.it \in Place, EraseItem
  PROVE  /\ ListOK' /\ Len(m_pendingPackList') = Len(m_pendingPackList) - 1
         /\ \A i \in Place' :
              m_pendingPackList'[i] = m_pendingPackList[IF i < check.it THEN i ELSE i + 1]
<1>1. PICK q, n, r : q = m_pendingPackList /\ n = check.it /\ r = m_pendingPackList'
  OBVIOUS
<1>2. q \in Seq(Pack) /\ n \in 1..Len(q)
  BY <1>1 DEF ListOK, Place
<1>3. r = SubSeq(q, 1, n - 1) \o SubSeq(q, n + 1, Len(q))
  BY <1>1 DEF EraseItem
<1>4. /\ r \in Seq(Pack) /\ Len(r) = Len(q) - 1
      /\ \A i \in 1..(Len(q) - 1) : r[i] = q[IF i < n THEN i ELSE i + 1]
  BY <1>2, <1>3, Without
<1> QED
  BY <1>1, <1>4 DEF ListOK, Place

\* What is listed then: all but the item, which is listed nowhere else.
LEMMA ErasedItem ==
  ASSUME ListOK, check.it \in Place, EraseItem,
         \A i, j \in Place : m_pendingPackList[i] = m_pendingPackList[j] => i = j
  PROVE  /\ \A i, j \in Place' : m_pendingPackList'[i] = m_pendingPackList'[j] => i = j
         /\ \A k : Listed(k)' <=> Listed(k) /\ k # m_pendingPackList[check.it]
<1> DEFINE q == m_pendingPackList
           n == check.it
           r == m_pendingPackList'
           L == Len(q)
           on(i) == IF i < n THEN i ELSE i + 1
<1>1. L \in Nat /\ n \in 1..L /\ Place = 1..L
  BY DEF ListOK, Place
<1>2. Place' = 1..(L - 1) /\ \A i \in 1..(L - 1) : r[i] = q[on(i)]
  BY <1>1, Erased DEF Place
<1> HIDE DEF q, n, r, L
<1>3. \A i, j \in 1..(L - 1) : on(i) \in 1..L /\ on(i) # n /\ (on(i) = on(j) => i = j)
  BY <1>1
<1>4. \A j \in 1..L : j # n => \E i \in 1..(L - 1) : on(i) = j
  <2> SUFFICES ASSUME NEW j \in 1..L, j # n PROVE \E i \in 1..(L - 1) : on(i) = j
    OBVIOUS
  <2>1. CASE j < n
    <3>1. j \in 1..(L - 1) /\ on(j) = j
      BY <1>1, <2>1
    <3> QED BY <3>1
  <2>2. CASE j > n
    <3>1. j - 1 \in 1..(L - 1) /\ on(j - 1) = j
      BY <1>1, <2>2
    <3> QED BY <3>1
  <2> QED BY <1>1, <2>1, <2>2
<1>5. \A i, j \in 1..L : q[i] = q[j] => i = j
  BY <1>1 DEF q
<1> HIDE DEF on
<1>6. \A i, j \in 1..(L - 1) : r[i] = r[j] => i = j
  BY <1>2, <1>3, <1>5
<1>7. \A k : Listed(k) <=> \E i \in 1..L : q[i] = k
  BY <1>1 DEF Listed, q
<1>8. \A k : Listed(k)' <=> \E i \in 1..(L - 1) : r[i] = k
  BY <1>2 DEF Listed, r
<1>9. ASSUME NEW k, NEW i \in 1..(L - 1), r[i] = k
      PROVE  k # q[n] /\ \E j \in 1..L : q[j] = k
  <2>1. q[on(i)] = k /\ on(i) \in 1..L /\ on(i) # n
    BY <1>2, <1>3, <1>9
  <2> QED BY <1>1, <1>5, <2>1
<1>10. ASSUME NEW k, NEW j \in 1..L, q[j] = k, k # q[n]
       PROVE  \E i \in 1..(L - 1) : r[i] = k
  <2>1. PICK i \in 1..(L - 1) : on(i) = j
    BY <1>4, <1>10
  <2> QED BY <1>2, <1>10, <2>1
<1>11. \A k : Listed(k)' <=> Listed(k) /\ k # q[n]
  BY <1>7, <1>8, <1>9, <1>10
<1> QED
  BY <1>2, <1>6, <1>11 DEF q, n, r

\* A thread that stays with its connection, or goes back to its loop.
LEMMA WorkGoesOn ==
  ASSUME WorkOK, NEW w \in Worker, Moves(w),
         work'[w].pc \notin {"free", "dead"} => work'[w].sock \in Sock
  PROVE  WorkOK'
  BY DEF WorkOK, Moves

\* A sequence that grows by one.
LEMMA Grown ==
  ASSUME NEW q, q \in Seq(Pack), NEW k \in Pack
  PROVE  /\ Append(q, k) \in Seq(Pack) /\ Len(Append(q, k)) = Len(q) + 1 /\ Len(q) \in Nat
         /\ Append(q, k)[Len(q) + 1] = k
         /\ \A i \in 1..Len(q) : Append(q, k)[i] = q[i]
  OBVIOUS

\* Once it has taken an item the check thread knows its connection.
LEMMA ItemSockIs ==
  ASSUME CheckOK, check.pc \notin {"wait", "reset", "scan"}
  PROVE  ItemSock \in Sock /\ check.pack \in Pack /\ Dest[check.pack] = ItemSock
  BY Constants DEF CheckOK, ItemSock

\* A send buffer is given up with what it holds.
LEMMA GivenUp ==
  ASSUME ReplyInv, NEW s \in Sock, FreePack(s),
         dropped' = dropped \cup ({Senddatapack[s]} \ {None}),
         UNCHANGED <<m_pendingPackList, sent, adoPc>>,
         \A k \in Pack : Waiting(k)' => Waiting(k)
  PROVE  /\ Senddatapack' \in [Sock -> Pack \cup {None}] /\ dropped' \subseteq Pack
         /\ Buffers' /\ Unqueued' /\ Apart'
<1> USE DEF ReplyInv
<1>1. /\ Senddatapack' \in [Sock -> Pack \cup {None}] /\ dropped' \subseteq Pack
      /\ \A t \in Sock : Senddatapack'[t] = IF t = s THEN None ELSE Senddatapack[t]
  BY DEF PacksOK, SetsOK, FreePack
<1>2. \A k \in Pack : InBuffer(k)' <=> \E t \in Sock : t # s /\ Senddatapack[t] = k
  BY <1>1, Constants DEF InBuffer
<1>3. \A k \in Pack : InBuffer(k) <=> \E t \in Sock : Senddatapack[t] = k
  BY DEF InBuffer
<1>4. \A k \in Pack : k \in dropped' <=> k \in dropped \/ Senddatapack[s] = k
  BY Constants
<1>5. Buffers'
  BY <1>1 DEF Buffers, Place
<1>6. \A k \in Pack : (Listed(k)' <=> Listed(k)) /\ (Gone(k)' <=> Gone(k))
  BY DEF Listed, Place, Gone
<1>7. Unqueued'
  BY <1>2, <1>3, <1>4, <1>6 DEF Unqueued
<1>8. ASSUME NEW k \in Pack, InBuffer(k)' PROVE Senddatapack[s] # k
  BY <1>2, <1>8, Constants DEF Buffers
<1>9. Apart'
  <2>1. \A k \in Pack : InBuffer(k)' => InBuffer(k) /\ k \notin dropped'
    BY <1>2, <1>3, <1>4, <1>8 DEF Apart
  <2>2. \A k \in Pack : Waiting(k)' => Waiting(k) /\ k \notin dropped'
    BY <1>3, <1>4 DEF Apart
  <2>3. \A k \in Pack : Gone(k)' => k \notin dropped'
    BY <1>3, <1>4, <1>6 DEF Apart
  <2> QED
    BY <1>6, <2>1, <2>2, <2>3 DEF Apart
<1> QED
  BY <1>1, <1>5, <1>7, <1>9

\* The release of an entry, erased or not.
LEMMA ReleasedKeeps ==
  ASSUME ReplyInv, NEW s \in Sock, ReleaseSock(s), Unreleased,
         \A k \in Pack : Waiting(k)' => Waiting(k)
  PROVE  /\ m_sockmap' \subseteq Sock /\ bNeedClose' \subseteq Sock
         /\ netSendBusy' \subseteq Sock /\ dropped' \subseteq Pack
         /\ PacksOK' /\ Buffers' /\ Unqueued' /\ Apart'
<1> USE DEF ReplyInv
<1>1. /\ m_sockmap' \subseteq Sock /\ bNeedClose' \subseteq Sock /\ netSendBusy' \subseteq Sock
      /\ m_lSend' \in Int /\ m_phSendThread' \subseteq {0} \cup Worker
  <2>1. m_sockmap' \subseteq Sock /\ bNeedClose' \subseteq Sock /\ netSendBusy' \subseteq Sock
    BY DEF ReleaseSock, releaseVars, SetsOK
  <2>2. m_lSend' = m_lSend \/ m_lSend' = m_lSend - 1
    BY DEF ReleaseSock, releaseVars
  <2>3. m_phSendThread' = m_phSendThread \/ m_phSendThread' = m_phSendThread \cup {0}
    BY DEF ReleaseSock, releaseVars, Notify
  <2>4. m_lSend \in Int /\ m_phSendThread \subseteq {0} \cup Worker
    BY DEF PacksOK
  <2>5. m_lSend' \in Int
    BY <2>2, <2>4
  <2>6. m_phSendThread' \subseteq {0} \cup Worker
    BY <2>3, <2>4
  <2> QED
    BY <2>1, <2>5, <2>6
<1>2. UNCHANGED <<m_pendingPackList, sent, adoPc, dwSendRemain>>
  BY DEF Unreleased
<1>3. CASE UNCHANGED <<Senddatapack, dropped>>
  <2>1. \A k \in Pack : /\ (Listed(k)' <=> Listed(k)) /\ (Gone(k)' <=> Gone(k))
                        /\ (InBuffer(k)' <=> InBuffer(k))
    BY <1>2, <1>3 DEF Listed, Place, Gone, InBuffer
  <2>2. Buffers' /\ PacksOK' /\ dropped' \subseteq Pack
    BY <1>1, <1>2, <1>3 DEF Buffers, Place, PacksOK, SetsOK
  <2>3. Unqueued' /\ Apart'
    BY <1>2, <1>3, <2>1 DEF Unqueued, Apart
  <2> QED
    BY <1>1, <2>2, <2>3
<1>4. CASE FreePack(s) /\ dropped' = dropped \cup ({Senddatapack[s]} \ {None})
  <2>1. /\ Senddatapack' \in [Sock -> Pack \cup {None}] /\ dropped' \subseteq Pack
        /\ Buffers' /\ Unqueued' /\ Apart'
    BY <1>2, <1>4, GivenUp
  <2> QED
    BY <1>1, <1>2, <2>1 DEF PacksOK
<1> QED
  BY <1>3, <1>4 DEF ReleaseSock, releaseVars

\* A reply that was nowhere goes on in SendAdo, or is given up.
LEMMA Discarded ==
  ASSUME ReplyInv, NEW k \in Pack, NEW pc, adoPc[k] \notin {"pushed", "given"},
         adoPc' = [adoPc EXCEPT ![k] = pc],
         UNCHANGED <<m_pendingPackList, sent, Senddatapack>>,
         \A j : Waiting(j)' <=> Waiting(j),
         \/ pc = "given" /\ dropped' = dropped \cup {k}
         \/ UNCHANGED dropped
  PROVE  Unqueued' /\ Apart'
<1> USE DEF ReplyInv
<1>1. \A j : /\ (Listed(j)' <=> Listed(j)) /\ (Gone(j)' <=> Gone(j))
             /\ (InBuffer(j)' <=> InBuffer(j))
  BY DEF Listed, Place, Gone, InBuffer
<1>2. ~Waiting(k)
  BY DEF Unqueued, Waiting, Listed
<1>3. Unqueued'
  <2>1. \A j \in Pack : adoPc'[j] = IF j = k THEN pc ELSE adoPc[j]
    BY DEF PacksOK
  <2> QED
    BY <1>1, <2>1 DEF Unqueued
<1>4. Apart'
  BY <1>1, <1>2 DEF Apart, Unqueued
<1> QED
  BY <1>3, <1>4

\* The end of the handling of an item.
LEMMA NextItemOK ==
  ASSUME CheckOK, check.pc \notin {"wait", "reset", "scan"}, NextItem
  PROVE  CheckOK' /\ check'.pc \in {"wait", "scan"}
<1>1. CASE CheckEnds
  BY <1>1 DEF CheckEnds, IdleCheck, CheckOK, CheckType, CheckPc, AtPc
<1>2. CASE CheckGoto("scan")
  BY <1>2 DEF CheckGoto, CheckOK, CheckType, CheckPc, AtPc
<1>3. CASE check' = [check EXCEPT !.pc = "scan", !.it = @ + 1]
  <2>1. check.it + 1 \in Nat \ {0}
    BY DEF CheckOK, CheckType
  <2>2. check' = [check EXCEPT !.pc = "scan", !.it = check.it + 1]
    BY <1>3
  <2>3. CheckType' /\ check'.pc = "scan"
    BY <2>1, <2>2 DEF CheckOK, CheckType, CheckPc
  <2> QED
    BY <2>3 DEF CheckOK, AtPc
<1>4. check.out \in {"ok", "fail", "skip"}
  BY DEF CheckOK, CheckType
<1>5. CASE check.out = "ok"
  BY <1>1, <1>5 DEF NextItem
<1>6. CASE check.out = "fail"
  BY <1>2, <1>6 DEF NextItem
<1>7. CASE check.out = "skip"
  BY <1>3, <1>7 DEF NextItem
<1> QED
  BY <1>4, <1>5, <1>6, <1>7

LEMMA AcceptKeeps ==
  ASSUME ReplyInv, NEW w \in Worker, NEW s \in Sock, Accept(w, s)
  PROVE  ReplyInv'
<1> USE DEF ReplyInv, flagVars, stateVars, packVars, queueVars, netVars, releaseVars
<1>1. CheckOK' /\ ListOK' /\ PacksOK' /\ UseOK'
  BY DEF Accept, Enter, Loop, IdleWork, IdleCheck, CheckOK, ListOK, PacksOK, UseOK,
         CheckType, CheckPc, AtPc
<1>2. Buffers' /\ Unqueued' /\ Apart'
  BY DEF Accept, Enter, Loop, IdleWork, IdleCheck, Buffers, Unqueued, Apart, Place, Listed,
         Waiting, InBuffer, Gone
<1>3. SetsOK'
  BY DEF Accept, Enter, Loop, IdleWork, IdleCheck, SetsOK
<1>4. WorkOK'
  <2>1. Moves(w) /\ (work'[w].sock = s)
    BY EnterMoves DEF WorkOK, Accept, WorkPc
  <2> QED
    BY <2>1, WorkGoesOn DEF WorkOK
<1>5. NetOK'
  BY Constants DEF Accept, Enter, Loop, IdleWork, IdleCheck, NetOK
<1> QED
  BY <1>1, <1>2, <1>3, <1>4, <1>5

LEMMA WorkReleaseKeeps ==
  ASSUME ReplyInv, NEW w \in Worker, WorkRelease(w)
  PROVE  ReplyInv'
<1> USE DEF ReplyInv, flagVars, stateVars, packVars, queueVars, netVars, releaseVars
<1>20. work[w].sock \in Sock /\ \A k \in Pack : Waiting(k)' => Waiting(k)
  BY DEF WorkRelease, WorkOK, Unreleased, Waiting, Place
<1>21. /\ m_sockmap' \subseteq Sock /\ bNeedClose' \subseteq Sock
       /\ netSendBusy' \subseteq Sock /\ dropped' \subseteq Pack
       /\ PacksOK' /\ Buffers' /\ Unqueued' /\ Apart'
  BY <1>20, ReleasedKeeps DEF WorkRelease
<1>1. CheckOK' /\ ListOK' /\ NetOK'
  BY DEF WorkRelease, Touch, Loop, IdleWork, IdleCheck, ReleaseSock, Notify, FreePack,
         InUse, Unreleased, Unregister, CheckOK, ListOK, NetOK, CheckType, CheckPc, AtPc
<1>2. SetsOK'
  BY <1>21 DEF WorkRelease, Unreleased, Unregister, SetsOK
<1>3. WorkOK'
  <2>1. Moves(w) /\ (work'[w].pc = "free" \/ work'[w].sock = work[w].sock)
    BY GotoMoves, LoopMoves, OutMoves DEF WorkOK, WorkRelease, WorkPc
  <2>2. work[w].pc \notin {"free", "dead"}
    BY DEF WorkRelease
  <2> QED
    BY <2>1, <2>2, WorkGoesOn DEF WorkOK
<1>4. PacksOK'
  BY <1>21
<1>5. UseOK'
  BY DEF WorkRelease, Touch, Loop, IdleWork, IdleCheck, ReleaseSock, Notify, FreePack,
         InUse, Unreleased, Unregister, UseOK
<1>6. Buffers'
  BY <1>21
<1>7. Unqueued'
  BY <1>21
<1>8. Apart'
  BY <1>21
<1> QED
  BY <1>1, <1>2, <1>3, <1>4, <1>5, <1>6, <1>7, <1>8

LEMMA AcceptPostKeeps ==
  ASSUME ReplyInv, NEW w \in Worker, AcceptPost(w)
  PROVE  ReplyInv'
<1> USE DEF ReplyInv, flagVars, stateVars, packVars, queueVars, netVars, releaseVars
<1>1. SetsOK' /\ CheckOK' /\ ListOK' /\ PacksOK' /\ UseOK'
  BY DEF AcceptPost, Goto, Enter, Loop, IdleWork, IdleCheck, CanPost, PostFails, SetsOK,
         CheckOK, ListOK, PacksOK, UseOK, CheckType, CheckPc, AtPc
<1>2. Buffers' /\ Unqueued' /\ Apart'
  BY DEF AcceptPost, Goto, Enter, Loop, IdleWork, IdleCheck, CanPost, PostFails, Buffers,
         Unqueued, Apart, Place, Listed, Waiting, InBuffer, Gone
<1>3. WorkOK'
  <2>1. Moves(w) /\ (work'[w].pc = "free" \/ work'[w].sock = work[w].sock)
    BY GotoMoves, LoopMoves, OutMoves DEF WorkOK, AcceptPost, WorkPc
  <2>2. work[w].pc \notin {"free", "dead"}
    BY DEF AcceptPost
  <2> QED
    BY <2>1, <2>2, WorkGoesOn DEF WorkOK
<1>4. NetOK'
  BY Constants DEF AcceptPost, Goto, Enter, Loop, IdleWork, IdleCheck, CanPost, PostFails,
         NetOK
<1> QED
  BY <1>1, <1>2, <1>3, <1>4

LEMMA ReceiveKeeps ==
  ASSUME ReplyInv, NEW w \in Worker, Receive(w)
  PROVE  ReplyInv'
<1> USE DEF ReplyInv, flagVars, stateVars, packVars, queueVars, netVars, releaseVars
<1>20. UNCHANGED <<m_pendingPackList, sent, Senddatapack>> /\ \A j : Waiting(j)' <=> Waiting(j)
  BY DEF Receive, Waiting, Place
<1>21. ASSUME UNCHANGED <<adoPc, dropped>> PROVE Unqueued' /\ Apart'
  <2>1. \A j : /\ (Listed(j)' <=> Listed(j)) /\ (Gone(j)' <=> Gone(j))
               /\ (InBuffer(j)' <=> InBuffer(j))
    BY <1>20 DEF Listed, Place, Gone, InBuffer
  <2> QED
    BY <1>20, <1>21, <2>1 DEF Unqueued, Apart
<1>22. ASSUME ~UNCHANGED <<adoPc, dropped>> PROVE Unqueued' /\ Apart'
  <2>1. PICK k \in Inbox(work[w].sock) :
          \/ adoPc' = [adoPc EXCEPT ![k] = "asked"] /\ UNCHANGED dropped
          \/ adoPc' = [adoPc EXCEPT ![k] = "given"] /\ dropped' = dropped \cup {k}
    BY <1>22 DEF Receive
  <2>2. k \in Pack /\ adoPc[k] = "arrived"
    BY DEF Inbox
  <2> QED
    BY <1>20, <2>1, <2>2, Discarded
<1>1. CheckOK' /\ ListOK' /\ NetOK'
  BY DEF Receive, Touch, Goto, Enter, Loop, IdleWork, IdleCheck, Inbox, CheckOK, ListOK,
         NetOK, CheckType, CheckPc, AtPc
<1>2. Buffers'
  BY DEF Receive, Touch, Goto, Enter, Loop, IdleWork, IdleCheck, Inbox, Buffers, Place
<1>3. SetsOK'
  BY DEF Receive, Touch, Goto, Enter, Loop, IdleWork, IdleCheck, Inbox, SetsOK
<1>4. WorkOK'
  <2>1. CASE UNCHANGED work
    BY <2>1 DEF WorkOK, WorkType
  <2>2. CASE Loop(w) \/ Goto(w, "repost") \/ Goto(w, "drop")
    <3>1. Moves(w) /\ (work'[w].pc = "free" \/ work'[w].sock = work[w].sock)
      BY <2>2, GotoMoves, LoopMoves DEF WorkOK, WorkPc
    <3>2. work[w].pc = "recv"
      BY DEF Receive
    <3> QED
      BY <3>1, <3>2, WorkGoesOn DEF WorkOK
  <2> QED
    BY <2>1, <2>2 DEF Receive
<1>5. PacksOK'
  BY Constants DEF Receive, Touch, Goto, Enter, Loop, IdleWork, IdleCheck, Inbox, PacksOK
<1>6. UseOK'
  BY DEF Receive, Touch, Goto, Enter, Loop, IdleWork, IdleCheck, Inbox, UseOK
<1>7. Unqueued'
  BY <1>21, <1>22
<1>8. Apart'
  BY <1>21, <1>22
<1> QED
  BY <1>1, <1>2, <1>3, <1>4, <1>5, <1>6, <1>7, <1>8

LEMMA DropKeeps ==
  ASSUME ReplyInv, NEW w \in Worker, Drop(w)
  PROVE  ReplyInv'
<1> USE DEF ReplyInv, flagVars, stateVars, packVars, queueVars, netVars, releaseVars
<1>1. SetsOK' /\ CheckOK' /\ ListOK' /\ PacksOK' /\ NetOK'
  BY DEF Drop, Touch, Goto, Enter, Loop, IdleWork, IdleCheck, SetsOK, CheckOK, ListOK,
         PacksOK, NetOK, CheckType, CheckPc, AtPc
<1>2. Buffers' /\ Unqueued' /\ Apart'
  BY DEF Drop, Touch, Goto, Enter, Loop, IdleWork, IdleCheck, Buffers, Unqueued, Apart,
         Place, Listed, Waiting, InBuffer, Gone
<1>3. WorkOK'
  <2>1. Moves(w) /\ (work'[w].pc = "free" \/ work'[w].sock = work[w].sock)
    BY GotoMoves, LoopMoves, OutMoves DEF WorkOK, Drop, WorkPc
  <2>2. work[w].pc \notin {"free", "dead"}
    BY DEF Drop
  <2> QED
    BY <2>1, <2>2, WorkGoesOn DEF WorkOK
<1>4. UseOK'
  BY DEF Drop, Touch, Goto, Enter, Loop, IdleWork, IdleCheck, UseOK
<1> QED
  BY <1>1, <1>2, <1>3, <1>4

LEMMA RepostKeeps ==
  ASSUME ReplyInv, NEW w \in Worker, Repost(w)
  PROVE  ReplyInv'
<1> USE DEF ReplyInv, flagVars, stateVars, packVars, queueVars, netVars, releaseVars
<1>1. SetsOK' /\ CheckOK' /\ ListOK' /\ PacksOK' /\ UseOK'
  BY DEF Repost, Goto, Enter, Loop, IdleWork, IdleCheck, CanPost, PostFails, SetsOK,
         CheckOK, ListOK, PacksOK, UseOK, CheckType, CheckPc, AtPc
<1>2. Buffers' /\ Unqueued' /\ Apart'
  BY DEF Repost, Goto, Enter, Loop, IdleWork, IdleCheck, CanPost, PostFails, Buffers,
         Unqueued, Apart, Place, Listed, Waiting, InBuffer, Gone
<1>3. WorkOK'
  <2>1. Moves(w) /\ (work'[w].pc = "free" \/ work'[w].sock = work[w].sock)
    BY GotoMoves, LoopMoves, OutMoves DEF WorkOK, Repost, WorkPc
  <2>2. work[w].pc \notin {"free", "dead"}
    BY DEF Repost
  <2> QED
    BY <2>1, <2>2, WorkGoesOn DEF WorkOK
<1>4. NetOK'
  BY Constants DEF Repost, Goto, Enter, Loop, IdleWork, IdleCheck, CanPost, PostFails, NetOK
<1> QED
  BY <1>1, <1>2, <1>3, <1>4

LEMMA RecvIdleKeeps ==
  ASSUME ReplyInv, NEW w \in Worker, RecvIdle(w)
  PROVE  ReplyInv'
<1> USE DEF ReplyInv, flagVars, stateVars, packVars, queueVars, netVars, releaseVars
<1>1. CheckOK' /\ ListOK' /\ PacksOK' /\ NetOK'
  BY DEF RecvIdle, Touch, Goto, Enter, Loop, IdleWork, IdleCheck, CheckOK, ListOK, PacksOK,
         NetOK, CheckType, CheckPc, AtPc
<1>2. Buffers' /\ Unqueued' /\ Apart'
  BY DEF RecvIdle, Touch, Goto, Enter, Loop, IdleWork, IdleCheck, Buffers, Unqueued, Apart,
         Place, Listed, Waiting, InBuffer, Gone
<1>3. SetsOK'
  BY DEF RecvIdle, Touch, Goto, Enter, Loop, IdleWork, IdleCheck, SetsOK
<1>4. WorkOK'
  <2>1. Moves(w) /\ (work'[w].pc = "free" \/ work'[w].sock = work[w].sock)
    BY GotoMoves, LoopMoves, OutMoves DEF WorkOK, RecvIdle, WorkPc
  <2>2. work[w].pc \notin {"free", "dead"}
    BY DEF RecvIdle
  <2> QED
    BY <2>1, <2>2, WorkGoesOn DEF WorkOK
<1>5. UseOK'
  BY DEF RecvIdle, Touch, Goto, Enter, Loop, IdleWork, IdleCheck, UseOK
<1> QED
  BY <1>1, <1>2, <1>3, <1>4, <1>5

LEMMA CloseAfterFailureKeeps ==
  ASSUME ReplyInv, NEW w \in Worker, CloseAfterFailure(w)
  PROVE  ReplyInv'
<1> USE DEF ReplyInv, flagVars, stateVars, packVars, queueVars, netVars, releaseVars
<1>1. CheckOK' /\ ListOK' /\ PacksOK' /\ NetOK'
  BY DEF CloseAfterFailure, Touch, Goto, Enter, Loop, IdleWork, IdleCheck, CheckOK, ListOK,
         PacksOK, NetOK, CheckType, CheckPc, AtPc
<1>2. Buffers' /\ Unqueued' /\ Apart'
  BY DEF CloseAfterFailure, Touch, Goto, Enter, Loop, IdleWork, IdleCheck, Buffers,
         Unqueued, Apart, Place, Listed, Waiting, InBuffer, Gone
<1>3. SetsOK'
  BY DEF CloseAfterFailure, Touch, Goto, Enter, Loop, IdleWork, IdleCheck, SetsOK, ListOK,
         PacksOK, CheckOK, WorkOK, Buffers, Unqueued, CheckType, CheckPc, AtPc, WorkType,
         Place, Listed, Waiting, InBuffer, Gone
<1>4. WorkOK'
  <2>1. Moves(w) /\ (work'[w].pc = "free" \/ work'[w].sock = work[w].sock)
    BY GotoMoves, LoopMoves, OutMoves DEF WorkOK, CloseAfterFailure, WorkPc
  <2>2. work[w].pc \notin {"free", "dead"}
    BY DEF CloseAfterFailure
  <2> QED
    BY <2>1, <2>2, WorkGoesOn DEF WorkOK
<1>5. UseOK'
  BY DEF CloseAfterFailure, Touch, Goto, Enter, Loop, IdleWork, IdleCheck, UseOK
<1> QED
  BY <1>1, <1>2, <1>3, <1>4, <1>5

LEMMA SentKeeps ==
  ASSUME ReplyInv, NEW w \in Worker, Sent(w)
  PROVE  ReplyInv'
<1> USE DEF ReplyInv, flagVars, stateVars, packVars, queueVars, netVars, releaseVars
<1> DEFINE s == work[w].sock
<1>20. s \in Sock /\ UNCHANGED <<m_pendingPackList, adoPc, m_lSend, m_phSendThread, check>>
  BY DEF Sent, WorkOK
<1>21. \A k : (Waiting(k)' <=> Waiting(k)) /\ (Listed(k)' <=> Listed(k))
  BY <1>20 DEF Waiting, Listed, Place
<1>22. dwSendRemain' \in [Sock -> Nat]
  <2>1. dwSendRemain \in [Sock -> Nat] /\ dwSendRemain[s] \in Nat
    BY <1>20 DEF PacksOK
  <2>2. \/ dwSendRemain[s] > 1 /\ dwSendRemain' = [dwSendRemain EXCEPT ![s] = @ - 1]
        \/ dwSendRemain' = [dwSendRemain EXCEPT ![s] = 0]
    BY DEF Sent
  <2> QED
    BY <1>20, <2>1, <2>2
<1> HIDE DEF s
<1>23. \/ UNCHANGED <<Senddatapack, dropped, sent>>
       \/ FreePack(s) /\ UNCHANGED sent /\ dropped' = dropped \cup ({Senddatapack[s]} \ {None})
       \/ /\ FreePack(s) /\ UNCHANGED dropped
          /\ sent' = IF Senddatapack[s] = None THEN sent ELSE Append(sent, Senddatapack[s])
  BY DEF Sent, s
<1>24. ASSUME UNCHANGED <<Senddatapack, dropped, sent>>
       PROVE  dropped' \subseteq Pack /\ PacksOK' /\ Buffers' /\ Unqueued' /\ Apart'
  <2>1. \A j : (InBuffer(j)' <=> InBuffer(j)) /\ (Gone(j)' <=> Gone(j))
    BY <1>24 DEF InBuffer, Gone
  <2>2. dropped' \subseteq Pack /\ PacksOK' /\ Buffers'
    BY <1>20, <1>22, <1>24 DEF SetsOK, PacksOK, Buffers, Place
  <2>3. Unqueued' /\ Apart'
    BY <1>20, <1>21, <1>24, <2>1 DEF Unqueued, Apart
  <2> QED
    BY <2>2, <2>3
<1>25. ASSUME FreePack(s), UNCHANGED sent, dropped' = dropped \cup ({Senddatapack[s]} \ {None})
       PROVE  dropped' \subseteq Pack /\ PacksOK' /\ Buffers' /\ Unqueued' /\ Apart'
  <2>1. /\ Senddatapack' \in [Sock -> Pack \cup {None}] /\ dropped' \subseteq Pack
        /\ Buffers' /\ Unqueued' /\ Apart'
    BY <1>20, <1>21, <1>25, GivenUp
  <2> QED
    BY <1>20, <1>22, <1>25, <2>1 DEF PacksOK
<1>26. ASSUME FreePack(s), UNCHANGED dropped,
              sent' = IF Senddatapack[s] = None THEN sent ELSE Append(sent, Senddatapack[s])
       PROVE  dropped' \subseteq Pack /\ PacksOK' /\ Buffers' /\ Unqueued' /\ Apart'
  <2>1. /\ Senddatapack' \in [Sock -> Pack \cup {None}]
        /\ \A t \in Sock : Senddatapack'[t] = IF t = s THEN None ELSE Senddatapack[t]
    BY <1>20, <1>26 DEF PacksOK, FreePack
  <2>2. \A k \in Pack : InBuffer(k)' <=> \E t \in Sock : t # s /\ Senddatapack[t] = k
    BY <2>1, Constants DEF InBuffer
  <2>3. \A k \in Pack : InBuffer(k) <=> \E t \in Sock : Senddatapack[t] = k
    BY DEF InBuffer
  <2>4. \A k \in Pack : InBuffer(k)' => Senddatapack[s] # k
    BY <1>20, <2>2, Constants DEF Buffers
  <2>5. Senddatapack[s] \in Pack \cup {None} /\ sent \in Seq(Pack)
    BY <1>20 DEF PacksOK
  <2>6. /\ sent' \in Seq(Pack)
        /\ \A k \in Pack : Gone(k)' <=> Gone(k) \/ Senddatapack[s] = k
        /\ \A i, j \in 1..Len(sent') : sent'[i] = sent'[j] => i = j
    <3>1. CASE Senddatapack[s] = None
      BY <1>26, <2>5, <3>1, Constants DEF Gone, Apart
    <3>2. CASE Senddatapack[s] # None
      <4> DEFINE k == Senddatapack[s]
                 n == Len(sent) + 1
      <4>1. k \in Pack /\ ~Gone(k)
        BY <1>20, <2>3, <2>5, <3>2 DEF Apart
      <4>2. /\ sent' \in Seq(Pack) /\ Len(sent') = n /\ Len(sent) \in Nat
            /\ sent'[n] = k /\ \A i \in 1..Len(sent) : sent'[i] = sent[i]
        BY <1>26, <2>5, <3>2, <4>1, Grown
      <4>3. /\ n \in 1..n /\ 1..Len(sent) \subseteq 1..n
            /\ \A i \in 1..n : i \in 1..Len(sent) \/ i = n
        BY <4>2
      <4> HIDE DEF k, n
      <4>4. \A i \in 1..Len(sent) : sent[i] # k
        BY <4>1 DEF Gone
      <4>5. \A j \in Pack : Gone(j)' <=> Gone(j) \/ k = j
        BY <4>2, <4>3 DEF Gone
      <4>6. \A i, j \in 1..n : sent'[i] = sent'[j] => i = j
        BY <4>2, <4>3, <4>4 DEF Apart
      <4> QED
        BY <4>2, <4>5, <4>6 DEF k
    <3> QED
      BY <3>1, <3>2
  <2>7. Unqueued'
    BY <1>20, <1>21, <1>26, <2>2, <2>3, <2>6 DEF Unqueued
  <2>8. Apart'
    <3>1. \A k \in Pack : InBuffer(k)' => InBuffer(k) /\ ~Gone(k)'
      BY <2>2, <2>3, <2>4, <2>6 DEF Apart
    <3>2. \A k \in Pack : Waiting(k)' => Waiting(k) /\ ~Gone(k)'
      BY <1>20, <1>21, <2>3, <2>6 DEF Apart
    <3>3. \A k \in Pack : Gone(k)' => k \notin dropped
      BY <1>20, <2>3, <2>6 DEF Apart
    <3> QED
      BY <1>26, <2>6, <3>1, <3>2, <3>3 DEF Apart
  <2>9. dropped' \subseteq Pack /\ PacksOK' /\ Buffers'
    BY <1>20, <1>22, <1>26, <2>1, <2>6 DEF SetsOK, PacksOK, Buffers, Place
  <2> QED
    BY <2>7, <2>8, <2>9
<1>27. dropped' \subseteq Pack /\ PacksOK' /\ Buffers' /\ Unqueued' /\ Apart'
  BY <1>23, <1>24, <1>25, <1>26
<1>1. CheckOK' /\ ListOK'
  BY DEF Sent, Touch, Goto, Enter, Loop, IdleWork, IdleCheck, FreePack, SendFails, PostSend,
         CheckOK, ListOK, CheckType, CheckPc, AtPc
<1>2. SetsOK'
  BY <1>20, <1>27 DEF Sent, SetsOK, s
<1>3. WorkOK'
  <2>1. work[w].pc = "sent" /\ work[w].sock \in Sock
    BY DEF Sent, WorkOK
  <2>2. CASE \E pc \in {"pended", "unmark"} : Goto(w, pc)
    <3>1. Moves(w) /\ work'[w].sock = work[w].sock
      BY <2>2, GotoMoves DEF WorkOK, WorkPc
    <3> QED
      BY <2>1, <3>1, WorkGoesOn
  <2>3. CASE \E out \in {"done", "error"} :
               work' = [work EXCEPT ![w].pc = "unmark", ![w].out = out]
    <3>1. Moves(w) /\ work'[w].sock = work[w].sock
      BY <2>3, OutMoves DEF WorkOK, WorkPc
    <3> QED
      BY <2>1, <3>1, WorkGoesOn
  <2> QED
    BY <2>2, <2>3 DEF Sent
<1>4. PacksOK'
  BY <1>27
<1>5. NetOK'
  BY Constants DEF Sent, Touch, Goto, Enter, Loop, IdleWork, IdleCheck, FreePack, SendFails,
         PostSend, NetOK, ListOK, PacksOK, CheckOK, WorkOK, Buffers, CheckType, CheckPc,
         AtPc, WorkType, Place
<1>6. UseOK'
  BY DEF Sent, Touch, Goto, Enter, Loop, IdleWork, IdleCheck, FreePack, SendFails, PostSend,
         UseOK
<1>7. Buffers'
  BY <1>27
<1>8. Unqueued'
  BY <1>27
<1>9. Apart'
  BY <1>27
<1> QED
  BY <1>1, <1>2, <1>3, <1>4, <1>5, <1>6, <1>7, <1>8, <1>9

LEMMA MarkPendingKeeps ==
  ASSUME ReplyInv, NEW w \in Worker, MarkPending(w)
  PROVE  ReplyInv'
<1> USE DEF ReplyInv, flagVars, stateVars, packVars, queueVars, netVars, releaseVars
<1>1. CheckOK' /\ ListOK' /\ PacksOK' /\ NetOK'
  BY DEF MarkPending, Touch, Goto, Enter, Loop, IdleWork, IdleCheck, CheckOK, ListOK,
         PacksOK, NetOK, CheckType, CheckPc, AtPc
<1>2. Buffers' /\ Unqueued' /\ Apart'
  BY DEF MarkPending, Touch, Goto, Enter, Loop, IdleWork, IdleCheck, Buffers, Unqueued,
         Apart, Place, Listed, Waiting, InBuffer, Gone
<1>3. SetsOK'
  <2>1. work[w].sock \in Sock
    BY DEF MarkPending, WorkOK
  <2> QED
    BY <2>1 DEF MarkPending, SetsOK
<1>4. WorkOK'
  <2>1. Moves(w) /\ (work'[w].pc = "free" \/ work'[w].sock = work[w].sock)
    BY GotoMoves, LoopMoves, OutMoves DEF WorkOK, MarkPending, WorkPc
  <2>2. work[w].pc \notin {"free", "dead"}
    BY DEF MarkPending
  <2> QED
    BY <2>1, <2>2, WorkGoesOn DEF WorkOK
<1>5. UseOK'
  BY DEF MarkPending, Touch, Goto, Enter, Loop, IdleWork, IdleCheck, UseOK
<1> QED
  BY <1>1, <1>2, <1>3, <1>4, <1>5

LEMMA UnmarkKeeps ==
  ASSUME ReplyInv, NEW w \in Worker, Unmark(w)
  PROVE  ReplyInv'
<1> USE DEF ReplyInv, flagVars, stateVars, packVars, queueVars, netVars, releaseVars
<1>1. CheckOK' /\ ListOK' /\ PacksOK' /\ NetOK'
  BY DEF Unmark, Touch, Goto, Enter, Loop, IdleWork, IdleCheck, CheckOK, ListOK, PacksOK,
         NetOK, CheckType, CheckPc, AtPc
<1>2. Buffers' /\ Unqueued' /\ Apart'
  BY DEF Unmark, Touch, Goto, Enter, Loop, IdleWork, IdleCheck, Buffers, Unqueued, Apart,
         Place, Listed, Waiting, InBuffer, Gone
<1>3. SetsOK'
  BY DEF Unmark, Touch, Goto, Enter, Loop, IdleWork, IdleCheck, SetsOK
<1>4. WorkOK'
  <2>1. Moves(w) /\ (work'[w].pc = "free" \/ work'[w].sock = work[w].sock)
    BY GotoMoves, LoopMoves, OutMoves DEF WorkOK, Unmark, WorkPc
  <2>2. work[w].pc \notin {"free", "dead"}
    BY DEF Unmark
  <2> QED
    BY <2>1, <2>2, WorkGoesOn DEF WorkOK
<1>5. UseOK'
  BY DEF Unmark, Touch, Goto, Enter, Loop, IdleWork, IdleCheck, UseOK
<1> QED
  BY <1>1, <1>2, <1>3, <1>4, <1>5

LEMMA DecideKeeps ==
  ASSUME ReplyInv, NEW w \in Worker, Decide(w)
  PROVE  ReplyInv'
<1> USE DEF ReplyInv, flagVars, stateVars, packVars, queueVars, netVars, releaseVars
<1>1. SetsOK' /\ CheckOK' /\ ListOK' /\ PacksOK' /\ NetOK'
  BY DEF Decide, Touch, Goto, Enter, Loop, IdleWork, IdleCheck, SetsOK, CheckOK, ListOK,
         PacksOK, NetOK, CheckType, CheckPc, AtPc
<1>2. Buffers' /\ Unqueued' /\ Apart'
  BY DEF Decide, Touch, Goto, Enter, Loop, IdleWork, IdleCheck, Buffers, Unqueued, Apart,
         Place, Listed, Waiting, InBuffer, Gone
<1>3. WorkOK'
  <2>1. Moves(w) /\ (work'[w].pc = "free" \/ work'[w].sock = work[w].sock)
    BY GotoMoves, LoopMoves, OutMoves DEF WorkOK, Decide, WorkPc
  <2>2. work[w].pc \notin {"free", "dead"}
    BY DEF Decide
  <2> QED
    BY <2>1, <2>2, WorkGoesOn DEF WorkOK
<1>4. UseOK'
  BY DEF Decide, Touch, Goto, Enter, Loop, IdleWork, IdleCheck, UseOK
<1> QED
  BY <1>1, <1>2, <1>3, <1>4

LEMMA CreditKeeps ==
  ASSUME ReplyInv, NEW w \in Worker, Credit(w)
  PROVE  ReplyInv'
<1> USE DEF ReplyInv, flagVars, stateVars, packVars, queueVars, netVars, releaseVars
<1>1. SetsOK' /\ CheckOK' /\ ListOK' /\ NetOK' /\ UseOK'
  BY DEF Credit, Loop, IdleWork, IdleCheck, Notify, SetsOK, CheckOK, ListOK, NetOK, UseOK,
         CheckType, CheckPc, AtPc
<1>2. Buffers' /\ Unqueued' /\ Apart'
  BY DEF Credit, Loop, IdleWork, IdleCheck, Notify, Buffers, Unqueued, Apart, Place, Listed,
         Waiting, InBuffer, Gone
<1>3. WorkOK'
  <2>1. Moves(w) /\ (work'[w].pc = "free" \/ work'[w].sock = work[w].sock)
    BY GotoMoves, LoopMoves, OutMoves DEF WorkOK, Credit, WorkPc
  <2>2. work[w].pc \notin {"free", "dead"}
    BY DEF Credit
  <2> QED
    BY <2>1, <2>2, WorkGoesOn DEF WorkOK
<1>4. PacksOK'
  <2>1. m_phSendThread' \subseteq {0} \cup Worker
    BY DEF Credit, Notify, PacksOK
  <2>2. m_lSend' \in Int
    BY DEF Credit, PacksOK
  <2> QED
    BY <2>1, <2>2 DEF Credit, PacksOK
<1> QED
  BY <1>1, <1>2, <1>3, <1>4

LEMMA DequeueFailedKeeps ==
  ASSUME ReplyInv, NEW w \in Worker, NEW s \in Sock, DequeueFailed(w, s)
  PROVE  ReplyInv'
<1> USE DEF ReplyInv, flagVars, stateVars, packVars, queueVars, netVars, releaseVars
<1>1. SetsOK' /\ CheckOK' /\ ListOK' /\ PacksOK'
  BY DEF DequeueFailed, Touch, Goto, Enter, Loop, IdleWork, IdleCheck, TakeRecv,
         TakeFailedSend, SetsOK, CheckOK, ListOK, PacksOK, CheckType, CheckPc, AtPc
<1>2. Buffers' /\ Unqueued' /\ Apart'
  BY DEF DequeueFailed, Touch, Goto, Enter, Loop, IdleWork, IdleCheck, TakeRecv,
         TakeFailedSend, Buffers, Unqueued, Apart, Place, Listed, Waiting, InBuffer, Gone
<1>3. WorkOK'
  <2>1. CASE Enter(w, "release", s)
    <3>1. Moves(w) /\ (work'[w].sock = s)
      BY <2>1, EnterMoves DEF WorkOK, WorkPc
    <3> QED
      BY <3>1, WorkGoesOn
  <2>2. CASE Goto(w, "dead")
    <3>1. Moves(w) /\ (work'[w].pc = "dead")
      BY <2>2, GotoMoves DEF WorkOK, WorkPc
    <3> QED
      BY <3>1, WorkGoesOn
  <2> QED
    BY <2>1, <2>2 DEF DequeueFailed
<1>4. NetOK'
  BY Constants DEF DequeueFailed, Touch, Goto, Enter, Loop, IdleWork, IdleCheck, TakeRecv,
         TakeFailedSend, NetOK
<1>5. UseOK'
  BY DEF DequeueFailed, Touch, Goto, Enter, Loop, IdleWork, IdleCheck, TakeRecv,
         TakeFailedSend, UseOK
<1> QED
  BY <1>1, <1>2, <1>3, <1>4, <1>5

LEMMA IgnoreKeeps ==
  ASSUME ReplyInv, NEW w \in Worker, NEW s \in Sock, Ignore(w, s)
  PROVE  ReplyInv'
<1> USE DEF ReplyInv, flagVars, stateVars, packVars, queueVars, netVars, releaseVars
<1>1. SetsOK' /\ WorkOK' /\ CheckOK' /\ ListOK' /\ PacksOK'
  BY DEF Ignore, Touch, TakeRecv, TakeSend, SetsOK, WorkOK, CheckOK, ListOK, PacksOK,
         WorkType, CheckType, CheckPc, AtPc
<1>2. Buffers' /\ Unqueued' /\ Apart'
  BY DEF Ignore, Touch, TakeRecv, TakeSend, Buffers, Unqueued, Apart, Place, Listed,
         Waiting, InBuffer, Gone
<1>3. NetOK'
  BY Constants DEF Ignore, Touch, TakeRecv, TakeSend, NetOK
<1>4. UseOK'
  BY DEF Ignore, Touch, TakeRecv, TakeSend, UseOK
<1> QED
  BY <1>1, <1>2, <1>3, <1>4

LEMMA DequeueRecvKeeps ==
  ASSUME ReplyInv, NEW w \in Worker, NEW s \in Sock, DequeueRecv(w, s)
  PROVE  ReplyInv'
<1> USE DEF ReplyInv, flagVars, stateVars, packVars, queueVars, netVars, releaseVars
<1>1. CheckOK' /\ ListOK' /\ PacksOK' /\ UseOK'
  BY DEF DequeueRecv, Enter, Loop, IdleWork, IdleCheck, TakeRecv, CheckOK, ListOK, PacksOK,
         UseOK, CheckType, CheckPc, AtPc
<1>2. Buffers' /\ Unqueued' /\ Apart'
  BY DEF DequeueRecv, Enter, Loop, IdleWork, IdleCheck, TakeRecv, Buffers, Unqueued, Apart,
         Place, Listed, Waiting, InBuffer, Gone
<1>3. SetsOK'
  BY DEF DequeueRecv, Enter, Loop, IdleWork, IdleCheck, TakeRecv, SetsOK
<1>4. WorkOK'
  <2>1. Moves(w) /\ (work'[w].sock = s)
    BY EnterMoves DEF WorkOK, DequeueRecv, WorkPc
  <2> QED
    BY <2>1, WorkGoesOn DEF WorkOK
<1>5. NetOK'
  BY Constants DEF DequeueRecv, Enter, Loop, IdleWork, IdleCheck, TakeRecv, NetOK
<1> QED
  BY <1>1, <1>2, <1>3, <1>4, <1>5

LEMMA DequeueSendKeeps ==
  ASSUME ReplyInv, NEW w \in Worker, NEW s \in Sock, DequeueSend(w, s)
  PROVE  ReplyInv'
<1> USE DEF ReplyInv, flagVars, stateVars, packVars, queueVars, netVars, releaseVars
<1>1. CheckOK' /\ ListOK' /\ PacksOK' /\ UseOK'
  BY DEF DequeueSend, Enter, Loop, IdleWork, IdleCheck, TakeSend, CheckOK, ListOK, PacksOK,
         UseOK, CheckType, CheckPc, AtPc
<1>2. Buffers' /\ Unqueued' /\ Apart'
  BY DEF DequeueSend, Enter, Loop, IdleWork, IdleCheck, TakeSend, Buffers, Unqueued, Apart,
         Place, Listed, Waiting, InBuffer, Gone
<1>3. SetsOK'
  BY DEF DequeueSend, Enter, Loop, IdleWork, IdleCheck, TakeSend, SetsOK
<1>4. WorkOK'
  <2>1. Moves(w) /\ (work'[w].sock = s)
    BY EnterMoves DEF WorkOK, DequeueSend, WorkPc
  <2> QED
    BY <2>1, WorkGoesOn DEF WorkOK
<1>5. NetOK'
  BY Constants DEF DequeueSend, Enter, Loop, IdleWork, IdleCheck, TakeSend, NetOK
<1> QED
  BY <1>1, <1>2, <1>3, <1>4, <1>5

LEMMA WakeCheckKeeps ==
  ASSUME ReplyInv, WakeCheck
  PROVE  ReplyInv'
<1> USE DEF ReplyInv, flagVars, stateVars, packVars, queueVars, netVars, releaseVars
<1>1. SetsOK' /\ WorkOK' /\ ListOK' /\ NetOK' /\ UseOK'
  BY DEF WakeCheck, SetsOK, WorkOK, ListOK, NetOK, UseOK, WorkType
<1>2. Buffers'
  BY DEF WakeCheck, Buffers, Place
<1>3. CheckOK'
  <2>1. PICK e \in {0} \cup Worker : check' = [check EXCEPT !.pc = "reset", !.event = e]
    BY DEF WakeCheck, PacksOK
  <2>2. CheckType'
    BY <2>1 DEF CheckOK, CheckType, CheckPc
  <2>3. check'.pc = "reset"
    BY <2>1 DEF CheckOK, CheckType
  <2> QED
    BY <2>2, <2>3 DEF CheckOK, AtPc
<1>4. PacksOK'
  BY Constants DEF WakeCheck, PacksOK
<1>5. Unqueued'
  BY Constants DEF WakeCheck, Unqueued, Listed, Waiting, Place, InBuffer, Gone
<1>6. Apart'
  BY Constants DEF WakeCheck, Apart, Waiting, Place, InBuffer, Gone
<1> QED
  BY <1>1, <1>2, <1>3, <1>4, <1>5, <1>6

LEMMA BeginCheckKeeps ==
  ASSUME ReplyInv, BeginCheck
  PROVE  ReplyInv'
<1> USE DEF ReplyInv, flagVars, stateVars, packVars, queueVars, netVars, releaseVars
<1>1. SetsOK' /\ WorkOK' /\ ListOK' /\ NetOK' /\ UseOK'
  BY DEF BeginCheck, CheckGoto, CheckEnds, IdleCheck, SetsOK, WorkOK, ListOK, NetOK, UseOK,
         WorkType
<1>2. Buffers'
  BY DEF BeginCheck, CheckGoto, CheckEnds, IdleCheck, Buffers, Place
<1>3. CheckOK'
  BY Constants DEF BeginCheck, CheckGoto, CheckEnds, IdleCheck, CheckOK, CheckType, CheckPc,
         AtPc
<1>4. PacksOK'
  BY Constants DEF BeginCheck, CheckGoto, CheckEnds, IdleCheck, PacksOK
<1>5. Unqueued'
  BY Constants DEF BeginCheck, CheckGoto, CheckEnds, IdleCheck, Unqueued, Listed, Waiting,
         Place, InBuffer, Gone
<1>6. Apart'
  BY Constants DEF BeginCheck, CheckGoto, CheckEnds, IdleCheck, Apart, Waiting, Place,
         InBuffer, Gone
<1> QED
  BY <1>1, <1>2, <1>3, <1>4, <1>5, <1>6

LEMMA ScanKeeps ==
  ASSUME ReplyInv, Scan
  PROVE  ReplyInv'
<1> USE DEF ReplyInv, flagVars, stateVars, packVars, queueVars, netVars, releaseVars
<1> DEFINE pk == m_pendingPackList[check.it]
<1>20. check.pc = "scan" /\ check.it \in Place /\ pk \in Pack /\ Dest[pk] \in Sock
  BY Constants DEF Scan, CheckOK, CheckType, ListOK, Place
<1>21. UNCHANGED <<sent, Senddatapack, adoPc>>
  BY DEF Scan
<1>22. \A j : (InBuffer(j)' <=> InBuffer(j)) /\ (Gone(j)' <=> Gone(j))
  BY <1>21 DEF InBuffer, Gone
<1>23. \A j : Waiting(j) <=> Listed(j)
  BY <1>20 DEF Waiting, Listed
<1>24. /\ (\A i \in Place : m_pendingPackList[i] \in Pack)
       /\ (\A i, j \in Place : m_pendingPackList[i] = m_pendingPackList[j] => i = j)
  BY DEF ListOK, Place, Buffers
<1> HIDE DEF pk
<1>25. ASSUME EraseItem, dropped' = dropped \cup {pk}, UNCHANGED <<check, bCheckPending>>
       PROVE  SetsOK' /\ CheckOK' /\ ListOK' /\ Buffers' /\ Unqueued' /\ Apart'
  <2>1. /\ ListOK' /\ (\A i, j \in Place' : m_pendingPackList'[i] = m_pendingPackList'[j] => i = j)
        /\ \A k : Listed(k)' <=> Listed(k) /\ k # pk
    BY <1>20, <1>24, <1>25, Erased, ErasedItem DEF pk
  <2>2. CheckOK'
    BY <1>20, <1>25 DEF CheckOK, CheckType, AtPc
  <2>3. Listed(pk)
    BY <1>20 DEF Listed, pk
  <2>4. Buffers'
    BY <1>21, <2>1 DEF Buffers
  <2>5. \A k : Waiting(k)' => Waiting(k) /\ k # pk
    BY <1>20, <1>23, <1>25, <2>1 DEF Waiting, Listed
  <2>6. Unqueued'
    BY <1>21, <1>22, <1>25, <2>1, <2>3 DEF Unqueued
  <2>7. Apart'
    BY <1>21, <1>22, <1>23, <1>25, <2>3, <2>5 DEF Apart
  <2>8. SetsOK'
    BY <1>20, <1>25 DEF Scan, SetsOK
  <2> QED
    BY <2>1, <2>2, <2>4, <2>6, <2>7, <2>8
<1>26. ASSUME NEW pc \in {"clear", "mark"},
              check' = [check EXCEPT !.pc = pc, !.pack = pk, !.out = "skip"],
              bCheckPending' = bCheckPending \cup {Dest[pk]},
              UNCHANGED <<m_pendingPackList, dropped>>
       PROVE  SetsOK' /\ CheckOK' /\ ListOK' /\ Buffers' /\ Unqueued' /\ Apart'
  <2>1. check'.pc = pc /\ check'.pack = pk /\ check'.it = check.it /\ CheckType'
    BY <1>20, <1>26 DEF CheckOK, CheckType, CheckPc
  <2>2. CheckOK' /\ ListOK'
    BY <1>20, <1>26, <2>1 DEF CheckOK, AtPc, ListOK, Place, pk
  <2>3. \A k : (Listed(k)' <=> Listed(k)) /\ (Waiting(k)' <=> Listed(k))
    BY <1>26, <2>1 DEF Listed, Waiting, Place
  <2>4. Buffers'
    BY <1>21, <1>26 DEF Buffers, Place
  <2>5. Unqueued' /\ Apart'
    BY <1>21, <1>22, <1>23, <1>26, <2>3 DEF Unqueued, Apart
  <2>6. SetsOK'
    BY <1>20, <1>26 DEF Scan, SetsOK
  <2> QED
    BY <2>2, <2>4, <2>5, <2>6
<1>27. SetsOK' /\ CheckOK' /\ ListOK' /\ Buffers' /\ Unqueued' /\ Apart'
  BY <1>25, <1>26 DEF Scan, pk
<1>1. WorkOK' /\ PacksOK' /\ NetOK' /\ UseOK'
  BY DEF Scan, EraseItem, WorkOK, PacksOK, NetOK, UseOK, WorkType
<1>2. SetsOK'
  BY <1>27
<1>3. CheckOK'
  BY <1>27
<1>4. ListOK'
  BY <1>27
<1>5. Buffers'
  BY <1>27
<1>6. Unqueued'
  BY <1>27
<1>7. Apart'
  BY <1>27
<1> QED
  BY <1>1, <1>2, <1>3, <1>4, <1>5, <1>6, <1>7

LEMMA ScanEndsKeeps ==
  ASSUME ReplyInv, ScanEnds
  PROVE  ReplyInv'
<1> USE DEF ReplyInv, flagVars, stateVars, packVars, queueVars, netVars, releaseVars
<1>1. SetsOK' /\ WorkOK' /\ ListOK' /\ PacksOK' /\ NetOK' /\ UseOK'
  BY DEF ScanEnds, CheckEnds, IdleCheck, SetsOK, WorkOK, ListOK, PacksOK, NetOK, UseOK,
         WorkType
<1>2. Buffers'
  BY DEF ScanEnds, CheckEnds, IdleCheck, Buffers, Place
<1>3. CheckOK'
  BY Constants DEF ScanEnds, CheckEnds, IdleCheck, CheckOK, CheckType, CheckPc, AtPc
<1>4. Unqueued'
  BY Constants DEF ScanEnds, CheckEnds, IdleCheck, Unqueued, Listed, Waiting, Place,
         InBuffer, Gone
<1>5. Apart'
  BY Constants DEF ScanEnds, CheckEnds, IdleCheck, Apart, Waiting, Place, InBuffer, Gone
<1> QED
  BY <1>1, <1>2, <1>3, <1>4, <1>5

LEMMA MarkBusyKeeps ==
  ASSUME ReplyInv, MarkBusy
  PROVE  ReplyInv'
<1> USE DEF ReplyInv, flagVars, stateVars, packVars, queueVars, netVars, releaseVars
<1>20. ItemSock \in Sock
  BY ItemSockIs DEF MarkBusy
<1>1. WorkOK' /\ ListOK' /\ PacksOK' /\ NetOK'
  BY DEF MarkBusy, Touch, CheckGoto, CheckEnds, IdleCheck, ItemSock, WorkOK, ListOK,
         PacksOK, NetOK, WorkType
<1>2. Buffers'
  BY DEF MarkBusy, Touch, CheckGoto, CheckEnds, IdleCheck, ItemSock, Buffers, Place
<1>3. SetsOK'
  BY <1>20 DEF MarkBusy, SetsOK
<1>4. CheckOK'
  BY Constants DEF MarkBusy, Touch, CheckGoto, CheckEnds, IdleCheck, ItemSock, CheckOK,
         CheckType, CheckPc, AtPc
<1>5. UseOK'
  BY DEF MarkBusy, Touch, CheckGoto, CheckEnds, IdleCheck, ItemSock, UseOK
<1>6. Unqueued'
  BY Constants DEF MarkBusy, Touch, CheckGoto, CheckEnds, IdleCheck, ItemSock, Unqueued,
         Listed, Waiting, Place, InBuffer, Gone
<1>7. Apart'
  BY Constants DEF MarkBusy, Touch, CheckGoto, CheckEnds, IdleCheck, ItemSock, Apart,
         Waiting, Place, InBuffer, Gone
<1> QED
  BY <1>1, <1>2, <1>3, <1>4, <1>5, <1>6, <1>7

LEMMA SendPackKeeps ==
  ASSUME ReplyInv, SendPack
  PROVE  ReplyInv'
<1> USE DEF ReplyInv, flagVars, stateVars, packVars, queueVars, netVars, releaseVars
<1> DEFINE pk == check.pack
           s == ItemSock
<1>20. /\ check.pc = "send" /\ s \in Sock /\ pk \in Pack /\ Dest[pk] = s
       /\ Chunks[pk] \in Nat
  BY ItemSockIs, Constants DEF SendPack, CheckOK
<1>21. /\ check.it \in Place /\ m_pendingPackList[check.it] = pk
  BY <1>20 DEF CheckOK, CheckType, AtPc, Place, ListOK
<1>22. UNCHANGED <<m_pendingPackList, sent, adoPc, m_phSendThread>>
  BY DEF SendPack
<1>23. \A j : (Listed(j)' <=> Listed(j)) /\ (Gone(j)' <=> Gone(j))
  BY <1>22 DEF Listed, Gone, Place
<1>24. \A j : Waiting(j) <=> Listed(j)
  BY <1>20 DEF Waiting, Listed
<1>25. /\ Listed(pk) /\ Waiting(pk) /\ ~InBuffer(pk) /\ ~Gone(pk) /\ pk \notin dropped
       /\ adoPc[pk] \in {"pushed", "given"}
  BY <1>20, <1>21, <1>24 DEF Listed, Apart, Unqueued
<1>26. check'.pc = "erase" /\ check'.it = check.it
  BY DEF SendPack, CheckOK, CheckType
<1>27. \A j : Waiting(j)' => Waiting(j) /\ j # pk
  BY <1>21, <1>22, <1>24, <1>26 DEF Waiting, Listed, Place, Buffers
<1> HIDE DEF pk, s
<1>28. \/ /\ Senddatapack' = [Senddatapack EXCEPT ![s] = pk] /\ m_lSend' = m_lSend + 1
          /\ UNCHANGED dropped
       \/ /\ Senddatapack' = [Senddatapack EXCEPT ![s] = None] /\ UNCHANGED m_lSend
          /\ dropped' = dropped \cup {pk}
  BY DEF SendPack, FreePack, pk, s
<1>29. \A t \in Sock : \/ Senddatapack'[t] = Senddatapack[t] \/ Senddatapack'[t] = None
                       \/ Senddatapack'[t] = pk /\ t = s /\ UNCHANGED dropped
  BY <1>20, <1>28 DEF PacksOK
<1>30. \A j \in Pack : InBuffer(j)' => InBuffer(j) \/ (j = pk /\ UNCHANGED dropped)
  BY <1>29, Constants DEF InBuffer
<1>31. \A j \in Pack : j \in dropped' => j \in dropped \/ j = pk
  BY <1>28
<1>1. WorkOK' /\ ListOK'
  BY DEF SendPack, Touch, FreePack, SendFails, PostSend, ItemSock, WorkOK, ListOK, WorkType
<1>2. SetsOK'
  BY <1>20, <1>28 DEF SendPack, SetsOK, s, pk
<1>3. CheckOK'
  BY Constants DEF SendPack, Touch, FreePack, SendFails, PostSend, ItemSock, CheckOK,
         CheckType, CheckPc, AtPc
<1>4. PacksOK'
  <2>1. Senddatapack' \in [Sock -> Pack \cup {None}] /\ m_lSend' \in Int
    BY <1>20, <1>28 DEF PacksOK
  <2>2. dwSendRemain' \in [Sock -> Nat]
    BY <1>20 DEF PacksOK, SendPack, pk, s
  <2> QED
    BY <1>22, <2>1, <2>2 DEF PacksOK
<1>5. NetOK'
  BY Constants DEF SendPack, Touch, FreePack, SendFails, PostSend, ItemSock, NetOK
<1>6. UseOK'
  BY DEF SendPack, Touch, FreePack, SendFails, PostSend, ItemSock, UseOK
<1>7. Buffers'
  BY <1>20, <1>22, <1>29 DEF Buffers, Place
<1>8. Unqueued'
  BY <1>22, <1>23, <1>25, <1>30, <1>31 DEF Unqueued
<1>9. Apart'
  BY <1>22, <1>23, <1>25, <1>27, <1>30, <1>31 DEF Apart
<1> QED
  BY <1>1, <1>2, <1>3, <1>4, <1>5, <1>6, <1>7, <1>8, <1>9

LEMMA EraseSentKeeps ==
  ASSUME ReplyInv, EraseSent
  PROVE  ReplyInv'
<1> USE DEF ReplyInv, flagVars, stateVars, packVars, queueVars, netVars, releaseVars
<1>20. /\ check.pc = "erase" /\ check.it \in Place
  BY DEF EraseSent, CheckOK, CheckType, AtPc, Place, ListOK
<1>21. (\A i, j \in Place : m_pendingPackList[i] = m_pendingPackList[j] => i = j)
  BY DEF Buffers
<1>22. /\ ListOK' /\ (\A i, j \in Place' : m_pendingPackList'[i] = m_pendingPackList'[j] => i = j)
       /\ \A k : Listed(k)' <=> Listed(k) /\ k # m_pendingPackList[check.it]
  BY <1>20, <1>21, Erased, ErasedItem DEF EraseSent
<1>23. check'.pc = "clear"
  BY DEF EraseSent, CheckGoto, CheckOK, CheckType
<1>24. \A k : Waiting(k)' => Waiting(k)
  BY <1>20, <1>22, <1>23 DEF Waiting, Listed
<1>25. UNCHANGED <<sent, Senddatapack, adoPc, dropped>>
  BY DEF EraseSent
<1>26. \A j : (InBuffer(j)' <=> InBuffer(j)) /\ (Gone(j)' <=> Gone(j))
  BY <1>25 DEF InBuffer, Gone
<1>1. SetsOK' /\ WorkOK' /\ PacksOK' /\ NetOK' /\ UseOK'
  BY DEF EraseSent, CheckGoto, CheckEnds, IdleCheck, EraseItem, SetsOK, WorkOK, PacksOK,
         NetOK, UseOK, WorkType
<1>2. CheckOK'
  BY Constants DEF EraseSent, CheckGoto, CheckEnds, IdleCheck, EraseItem, CheckOK,
         CheckType, CheckPc, AtPc
<1>3. ListOK'
  BY <1>22
<1>4. Buffers'
  BY <1>22, <1>25 DEF Buffers
<1>5. Unqueued'
  BY <1>22, <1>25, <1>26 DEF Unqueued
<1>6. Apart'
  BY <1>24, <1>25, <1>26 DEF Apart
<1> QED
  BY <1>1, <1>2, <1>3, <1>4, <1>5, <1>6

LEMMA ClearMarkKeeps ==
  ASSUME ReplyInv, ClearMark
  PROVE  ReplyInv'
<1> USE DEF ReplyInv, flagVars, stateVars, packVars, queueVars, netVars, releaseVars
<1>1. WorkOK' /\ ListOK' /\ PacksOK' /\ NetOK'
  BY DEF ClearMark, Touch, CheckGoto, CheckEnds, IdleCheck, ItemSock, WorkOK, ListOK,
         PacksOK, NetOK, WorkType
<1>2. Buffers'
  BY DEF ClearMark, Touch, CheckGoto, CheckEnds, IdleCheck, ItemSock, Buffers, Place
<1>3. SetsOK'
  BY DEF ClearMark, Touch, CheckGoto, CheckEnds, IdleCheck, ItemSock, SetsOK
<1>4. CheckOK'
  BY Constants DEF ClearMark, Touch, CheckGoto, CheckEnds, IdleCheck, ItemSock, CheckOK,
         CheckType, CheckPc, AtPc
<1>5. UseOK'
  BY DEF ClearMark, Touch, CheckGoto, CheckEnds, IdleCheck, ItemSock, UseOK
<1>6. Unqueued'
  BY Constants DEF ClearMark, Touch, CheckGoto, CheckEnds, IdleCheck, ItemSock, Unqueued,
         Listed, Waiting, Place, InBuffer, Gone
<1>7. Apart'
  BY Constants DEF ClearMark, Touch, CheckGoto, CheckEnds, IdleCheck, ItemSock, Apart,
         Waiting, Place, InBuffer, Gone
<1> QED
  BY <1>1, <1>2, <1>3, <1>4, <1>5, <1>6, <1>7

LEMMA LookNeedCloseKeeps ==
  ASSUME ReplyInv, LookNeedClose
  PROVE  ReplyInv'
<1> USE DEF ReplyInv, flagVars, stateVars, packVars, queueVars, netVars, releaseVars
<1>1. SetsOK' /\ WorkOK' /\ ListOK' /\ PacksOK' /\ NetOK'
  BY DEF LookNeedClose, Touch, CheckGoto, CheckEnds, IdleCheck, ItemSock, NextItem, SetsOK,
         WorkOK, ListOK, PacksOK, NetOK, WorkType
<1>2. Buffers'
  BY DEF LookNeedClose, Touch, CheckGoto, CheckEnds, IdleCheck, ItemSock, NextItem, Buffers,
         Place
<1>3. CheckOK'
  <2>1. CASE NextItem
    BY <2>1, NextItemOK DEF LookNeedClose
  <2>2. CASE CheckGoto("release")
    BY <2>2 DEF LookNeedClose, CheckGoto, CheckOK, CheckType, CheckPc, AtPc
  <2> QED
    BY <2>1, <2>2 DEF LookNeedClose
<1>4. UseOK'
  BY DEF LookNeedClose, Touch, CheckGoto, CheckEnds, IdleCheck, ItemSock, NextItem, UseOK
<1>5. Unqueued'
  BY Constants DEF LookNeedClose, Touch, CheckGoto, CheckEnds, IdleCheck, ItemSock,
         NextItem, Unqueued, Listed, Waiting, Place, InBuffer, Gone
<1>6. Apart'
  <2>1. check'.pc # "erase" /\ check.pc # "erase"
    BY NextItemOK DEF LookNeedClose, CheckGoto, CheckOK, CheckType
  <2>2. \A k : /\ (Waiting(k)' <=> Waiting(k)) /\ (InBuffer(k)' <=> InBuffer(k))
               /\ (Gone(k)' <=> Gone(k))
    BY <2>1 DEF LookNeedClose, Waiting, Place, InBuffer, Gone
  <2> QED
    BY <2>2 DEF LookNeedClose, Apart
<1> QED
  BY <1>1, <1>2, <1>3, <1>4, <1>5, <1>6

LEMMA CheckReleaseKeeps ==
  ASSUME ReplyInv, CheckRelease
  PROVE  ReplyInv'
<1> USE DEF ReplyInv, flagVars, stateVars, packVars, queueVars, netVars, releaseVars
<1>20. /\ ItemSock \in Sock /\ check.pc = "release"
       /\ CheckOK' /\ check'.pc \in {"wait", "scan"}
  BY ItemSockIs, NextItemOK DEF CheckRelease, CheckOK, CheckType
<1>21. \A k \in Pack : Waiting(k)' => Waiting(k)
  BY <1>20 DEF CheckRelease, Unreleased, Waiting, Place
<1>22. /\ m_sockmap' \subseteq Sock /\ bNeedClose' \subseteq Sock
       /\ netSendBusy' \subseteq Sock /\ dropped' \subseteq Pack
       /\ PacksOK' /\ Buffers' /\ Unqueued' /\ Apart'
  BY <1>20, <1>21, ReleasedKeeps DEF CheckRelease
<1>1. WorkOK' /\ ListOK' /\ NetOK' /\ UseOK'
  BY DEF CheckRelease, ReleaseSock, Notify, FreePack, InUse, Unreleased, Unregister,
         ItemSock, NextItem, CheckGoto, CheckEnds, IdleCheck, WorkOK, ListOK, NetOK, UseOK,
         WorkType
<1>2. SetsOK'
  BY <1>22 DEF CheckRelease, Unreleased, Unregister, SetsOK
<1>3. CheckOK'
  BY <1>20
<1>4. PacksOK'
  BY <1>22
<1>5. Buffers'
  BY <1>22
<1>6. Unqueued'
  BY <1>22
<1>7. Apart'
  BY <1>22
<1> QED
  BY <1>1, <1>2, <1>3, <1>4, <1>5, <1>6, <1>7

LEMMA NoReplyKeeps ==
  ASSUME ReplyInv, NEW k \in Pack, NoReply(k)
  PROVE  ReplyInv'
<1> USE DEF ReplyInv, flagVars, stateVars, packVars, queueVars, netVars, releaseVars
<1>20. /\ UNCHANGED <<m_pendingPackList, sent, Senddatapack>> /\ \A j : Waiting(j)' <=> Waiting(j)
  BY DEF NoReply, Waiting, Place
<1>21. Unqueued' /\ Apart'
  BY <1>20, Discarded DEF NoReply, AdoGoto
<1>1. SetsOK' /\ WorkOK' /\ CheckOK' /\ ListOK' /\ NetOK' /\ UseOK'
  BY DEF NoReply, AdoGoto, SetsOK, WorkOK, CheckOK, ListOK, NetOK, UseOK, WorkType,
         CheckType, CheckPc, AtPc
<1>2. Buffers'
  BY DEF NoReply, AdoGoto, Buffers, Place
<1>3. PacksOK'
  BY Constants DEF NoReply, AdoGoto, PacksOK
<1>4. Unqueued'
  BY <1>21
<1>5. Apart'
  BY <1>21
<1> QED
  BY <1>1, <1>2, <1>3, <1>4, <1>5

LEMMA AdoFindKeeps ==
  ASSUME ReplyInv, NEW k \in Pack, AdoFind(k)
  PROVE  ReplyInv'
<1> USE DEF ReplyInv, flagVars, stateVars, packVars, queueVars, netVars, releaseVars
<1>20. /\ UNCHANGED <<m_pendingPackList, sent, Senddatapack>> /\ \A j : Waiting(j)' <=> Waiting(j)
  BY DEF AdoFind, Waiting, Place
<1>21. Unqueued' /\ Apart'
  BY <1>20, Discarded DEF AdoFind, AdoGoto
<1>1. WorkOK' /\ CheckOK' /\ ListOK' /\ NetOK' /\ UseOK'
  BY DEF AdoFind, AdoGoto, WorkOK, CheckOK, ListOK, NetOK, UseOK, WorkType, CheckType,
         CheckPc, AtPc
<1>2. Buffers'
  BY DEF AdoFind, AdoGoto, Buffers, Place
<1>3. SetsOK'
  BY DEF AdoFind, AdoGoto, SetsOK
<1>4. PacksOK'
  BY Constants DEF AdoFind, AdoGoto, PacksOK
<1>5. Unqueued'
  BY <1>21
<1>6. Apart'
  BY <1>21
<1> QED
  BY <1>1, <1>2, <1>3, <1>4, <1>5, <1>6

LEMMA AdoPushKeeps ==
  ASSUME ReplyInv, NEW k \in Pack, AdoPush(k)
  PROVE  ReplyInv'
<1> USE DEF ReplyInv, flagVars, stateVars, packVars, queueVars, netVars, releaseVars
<1> DEFINE q == m_pendingPackList
<1>20. /\ q' \in Seq(Pack) /\ Len(q') = Len(q) + 1 /\ Len(q) \in Nat
       /\ q'[Len(q) + 1] = k /\ \A i \in 1..Len(q) : q'[i] = q[i]
  BY Grown DEF AdoPush, ListOK
<1>21. Place = 1..Len(q) /\ Place' = 1..(Len(q) + 1)
  BY <1>20 DEF Place
<1>22. UNCHANGED <<check, sent, Senddatapack, dropped>> /\ k \in Pack
       /\ adoPc[k] = "found" /\ adoPc' = [adoPc EXCEPT ![k] = "pushed"]
  BY DEF AdoPush, AdoGoto
<1> HIDE DEF q
<1>23. \A i \in Place' : i \in Place \/ i = Len(q) + 1
  BY <1>20, <1>21
<1>24. \A j \in Pack : Listed(j)' <=> Listed(j) \/ j = k
  <2>1. \A j : Listed(j) <=> \E i \in Place : q[i] = j
    BY DEF Listed, q
  <2>2. \A j : Listed(j)' <=> \E i \in Place' : q'[i] = j
    BY DEF Listed, q
  <2>3. Place \subseteq Place' /\ Len(q) + 1 \in Place' /\ \A i \in Place : q'[i] = q[i]
    BY <1>20, <1>21
  <2> QED
    BY <1>20, <1>23, <2>1, <2>2, <2>3
<1>25. \A j \in Pack : Waiting(j)' => Waiting(j) \/ j = k
  <2>1. \A j : Waiting(j) <=> \E i \in Place : q[i] = j /\ ~(check.pc = "erase" /\ i = check.it)
    BY DEF Waiting, q
  <2>2. \A j : Waiting(j)' => \E i \in Place' : q'[i] = j /\ ~(check.pc = "erase" /\ i = check.it)
    BY <1>22 DEF Waiting, q
  <2>3. \A i \in Place : q'[i] = q[i]
    BY <1>20, <1>21
  <2> QED
    BY <1>20, <1>23, <2>1, <2>2, <2>3
<1>26. ~Listed(k) /\ ~InBuffer(k) /\ ~Gone(k) /\ k \notin dropped
  BY <1>22 DEF Unqueued
<1>27. \A j : (InBuffer(j)' <=> InBuffer(j)) /\ (Gone(j)' <=> Gone(j))
  BY <1>22 DEF InBuffer, Gone
<1>1. SetsOK' /\ WorkOK' /\ NetOK' /\ UseOK'
  BY DEF AdoPush, AdoGoto, SetsOK, WorkOK, NetOK, UseOK, WorkType
<1>2. CheckOK'
  <2>1. check.pc \in AtPc => check.it \in 1..Len(q)
    BY <1>20 DEF CheckOK, CheckType, q
  <2> QED
    BY <1>20, <1>22, <2>1 DEF CheckOK, CheckType, q
<1>3. ListOK'
  BY <1>20 DEF ListOK, q
<1>4. PacksOK'
  BY Constants DEF AdoPush, AdoGoto, PacksOK
<1>5. Buffers'
  <2>1. \A i \in Place : q'[i] = q[i] /\ q[i] # k
    BY <1>20, <1>21, <1>26 DEF Listed, q
  <2>2. \A i, j \in Place' : q'[i] = q'[j] => i = j
    BY <1>20, <1>23, <2>1 DEF Buffers, q
  <2> QED
    BY <1>22, <2>2 DEF Buffers, q
<1>6. Unqueued'
  <2>1. \A j \in Pack : adoPc'[j] = IF j = k THEN "pushed" ELSE adoPc[j]
    BY <1>22 DEF PacksOK
  <2> QED
    BY <1>22, <1>24, <1>27, <2>1 DEF Unqueued
<1>7. Apart'
  BY <1>22, <1>25, <1>26, <1>27 DEF Apart
<1> QED
  BY <1>1, <1>2, <1>3, <1>4, <1>5, <1>6, <1>7

LEMMA AdoSignalKeeps ==
  ASSUME ReplyInv, NEW k \in Pack, AdoSignal(k)
  PROVE  ReplyInv'
<1> USE DEF ReplyInv, flagVars, stateVars, packVars, queueVars, netVars, releaseVars
<1>1. SetsOK' /\ WorkOK' /\ CheckOK' /\ ListOK' /\ NetOK' /\ UseOK'
  BY DEF AdoSignal, AdoGoto, SetsOK, WorkOK, CheckOK, ListOK, NetOK, UseOK, WorkType,
         CheckType, CheckPc, AtPc
<1>2. Buffers' /\ Apart'
  BY DEF AdoSignal, AdoGoto, Buffers, Apart, Place, Waiting, InBuffer, Gone
<1>3. PacksOK'
  BY Constants DEF AdoSignal, AdoGoto, PacksOK
<1>4. Unqueued'
  BY Constants DEF AdoSignal, AdoGoto, Unqueued, Listed, Waiting, Place, InBuffer, Gone
<1> QED
  BY <1>1, <1>2, <1>3, <1>4

LEMMA ArriveKeeps ==
  ASSUME ReplyInv, NEW k \in Pack, Arrive(k)
  PROVE  ReplyInv'
<1> USE DEF ReplyInv, flagVars, stateVars, packVars, queueVars, netVars, releaseVars
<1>20. /\ UNCHANGED <<m_pendingPackList, sent, Senddatapack>> /\ \A j : Waiting(j)' <=> Waiting(j)
  BY DEF Arrive, Outside, Waiting, Place
<1>21. Unqueued' /\ Apart'
  BY <1>20, Discarded DEF Arrive, Outside, AdoGoto
<1>1. SetsOK' /\ WorkOK' /\ CheckOK' /\ ListOK' /\ NetOK' /\ UseOK'
  BY DEF Arrive, AdoGoto, Outside, SetsOK, WorkOK, CheckOK, ListOK, NetOK, UseOK, WorkType,
         CheckType, CheckPc, AtPc
<1>2. Buffers'
  BY DEF Arrive, AdoGoto, Outside, Buffers, Place
<1>3. PacksOK'
  BY Constants DEF Arrive, AdoGoto, Outside, PacksOK
<1>4. Unqueued'
  BY <1>21
<1>5. Apart'
  BY <1>21
<1> QED
  BY <1>1, <1>2, <1>3, <1>4, <1>5

LEMMA TimeOutKeeps ==
  ASSUME ReplyInv, NEW s \in Sock, TimeOut(s)
  PROVE  ReplyInv'
<1> USE DEF ReplyInv, flagVars, stateVars, packVars, queueVars, netVars, releaseVars
<1>20. \A k \in Pack : Waiting(k)' <=> Waiting(k)
  BY DEF TimeOut, Unreleased, Waiting, Place
<1>21. ASSUME ReleaseSock(s), UNCHANGED bClose
       PROVE  SetsOK' /\ PacksOK' /\ Buffers' /\ Unqueued' /\ Apart'
  <2>1. /\ m_sockmap' \subseteq Sock /\ bNeedClose' \subseteq Sock
        /\ netSendBusy' \subseteq Sock /\ dropped' \subseteq Pack
        /\ PacksOK' /\ Buffers' /\ Unqueued' /\ Apart'
    BY <1>20, <1>21, ReleasedKeeps DEF TimeOut
  <2>2. SetsOK'
    BY <1>21, <2>1 DEF TimeOut, Unreleased, SetsOK
  <2> QED
    BY <2>1, <2>2
<1>22. ASSUME bClose' = bClose \cup {s}, UNCHANGED <<bNeedClose, netSendBusy, releaseVars>>
       PROVE  SetsOK' /\ PacksOK' /\ Buffers' /\ Unqueued' /\ Apart'
  <2>1. SetsOK' /\ PacksOK' /\ Buffers'
    BY <1>22 DEF TimeOut, Unreleased, SetsOK, PacksOK, Buffers, Place
  <2>2. UNCHANGED <<m_pendingPackList, sent, Senddatapack, dropped, adoPc>>
    BY <1>22 DEF TimeOut, Unreleased
  <2>3. \A j : /\ (Listed(j)' <=> Listed(j)) /\ (Gone(j)' <=> Gone(j))
               /\ (InBuffer(j)' <=> InBuffer(j))
    BY <2>2 DEF Listed, Place, Gone, InBuffer
  <2>4. Unqueued' /\ Apart'
    BY <1>20, <2>2, <2>3 DEF Unqueued, Apart
  <2> QED
    BY <2>1, <2>4
<1>23. SetsOK' /\ PacksOK' /\ Buffers' /\ Unqueued' /\ Apart'
  BY <1>21, <1>22 DEF TimeOut
<1>1. WorkOK' /\ CheckOK' /\ ListOK' /\ NetOK' /\ UseOK'
  BY DEF TimeOut, ReleaseSock, Notify, FreePack, InUse, Unreleased, WorkOK, CheckOK, ListOK,
         NetOK, UseOK, WorkType, CheckType, CheckPc, AtPc
<1>2. SetsOK'
  BY <1>23
<1>3. PacksOK'
  BY <1>23
<1>4. Buffers'
  BY <1>23
<1>5. Unqueued'
  BY <1>23
<1>6. Apart'
  BY <1>23
<1> QED
  BY <1>1, <1>2, <1>3, <1>4, <1>5, <1>6

LEMMA PeerGoneKeeps ==
  ASSUME ReplyInv, NEW s \in Sock, PeerGone(s)
  PROVE  ReplyInv'
<1> USE DEF ReplyInv, flagVars, stateVars, packVars, queueVars, netVars, releaseVars
<1>1. SetsOK' /\ WorkOK' /\ CheckOK' /\ ListOK' /\ PacksOK' /\ UseOK'
  BY DEF PeerGone, Outside, SetsOK, WorkOK, CheckOK, ListOK, PacksOK, UseOK, WorkType,
         CheckType, CheckPc, AtPc
<1>2. Buffers' /\ Unqueued' /\ Apart'
  BY DEF PeerGone, Outside, Buffers, Unqueued, Apart, Place, Listed, Waiting, InBuffer, Gone
<1>3. NetOK'
  BY Constants DEF PeerGone, Outside, NetOK
<1> QED
  BY <1>1, <1>2, <1>3

LEMMA RecvCompletesKeeps ==
  ASSUME ReplyInv, NEW s \in Sock, RecvCompletes(s)
  PROVE  ReplyInv'
<1> USE DEF ReplyInv, flagVars, stateVars, packVars, queueVars, netVars, releaseVars
<1>1. SetsOK' /\ WorkOK' /\ CheckOK' /\ ListOK' /\ PacksOK' /\ UseOK'
  BY DEF RecvCompletes, Inbox, Outside, SetsOK, WorkOK, CheckOK, ListOK, PacksOK, UseOK,
         WorkType, CheckType, CheckPc, AtPc
<1>2. Buffers' /\ Unqueued' /\ Apart'
  BY DEF RecvCompletes, Inbox, Outside, Buffers, Unqueued, Apart, Place, Listed, Waiting,
         InBuffer, Gone
<1>3. NetOK'
  BY Constants DEF RecvCompletes, Inbox, Outside, NetOK
<1> QED
  BY <1>1, <1>2, <1>3

LEMMA SendCompletesKeeps ==
  ASSUME ReplyInv, NEW s \in Sock, SendCompletes(s)
  PROVE  ReplyInv'
<1> USE DEF ReplyInv, flagVars, stateVars, packVars, queueVars, netVars, releaseVars
<1>1. SetsOK' /\ WorkOK' /\ CheckOK' /\ ListOK' /\ PacksOK' /\ UseOK'
  BY DEF SendCompletes, Outside, SetsOK, WorkOK, CheckOK, ListOK, PacksOK, UseOK, WorkType,
         CheckType, CheckPc, AtPc
<1>2. Buffers' /\ Unqueued' /\ Apart'
  BY DEF SendCompletes, Outside, Buffers, Unqueued, Apart, Place, Listed, Waiting, InBuffer,
         Gone
<1>3. NetOK'
  BY Constants DEF SendCompletes, Outside, NetOK
<1> QED
  BY <1>1, <1>2, <1>3

-----------------------------------------------------------------------------
(* The invariant, and what it says.                                        *)

LEMMA ReplyStart == Init => ReplyInv
<1> SUFFICES ASSUME Init PROVE ReplyInv
  OBVIOUS
<1>1. SetsOK /\ UseOK
  BY DEF Init, SetsOK, UseOK
<1>2. WorkOK /\ CheckOK
  BY DEF Init, WorkOK, WorkType, WorkPc, IdleWork, CheckOK, CheckType, CheckPc, IdleCheck, AtPc
<1>3. ListOK /\ PacksOK
  BY DEF Init, ListOK, PacksOK
<1>4. NetOK
  BY DEF Init, NetOK
<1>5. \A k \in Pack : ~Listed(k) /\ ~Waiting(k) /\ ~InBuffer(k) /\ ~Gone(k) /\ k \notin dropped
  BY Constants DEF Init, Listed, Waiting, InBuffer, Gone, Place
<1>6. Buffers
  BY DEF Init, Buffers, Place
<1>7. Unqueued /\ Apart
  BY <1>5 DEF Init, Unqueued, Apart
<1> QED
  BY <1>1, <1>2, <1>3, <1>4, <1>6, <1>7 DEF ReplyInv

LEMMA ReplyStutter == ReplyInv /\ UNCHANGED vars => ReplyInv'
<1> SUFFICES ASSUME ReplyInv, UNCHANGED vars PROVE ReplyInv'
  OBVIOUS
<1> USE DEF ReplyInv, vars, flagVars, stateVars, packVars, queueVars, netVars
<1>1. SetsOK' /\ UseOK' /\ WorkOK' /\ CheckOK' /\ ListOK' /\ PacksOK' /\ NetOK'
  BY DEF SetsOK, UseOK, WorkOK, WorkType, CheckOK, CheckType, ListOK, PacksOK, NetOK
<1>2. \A k : /\ (Listed(k)' <=> Listed(k)) /\ (Waiting(k)' <=> Waiting(k))
             /\ (InBuffer(k)' <=> InBuffer(k)) /\ (Gone(k)' <=> Gone(k))
  BY DEF Listed, Waiting, InBuffer, Gone, Place
<1>3. Buffers' /\ Unqueued' /\ Apart'
  BY <1>2 DEF Buffers, Place, Unqueued, Apart
<1> QED
  BY <1>1, <1>3

LEMMA ReplyStep == ReplyInv /\ [Next]_vars => ReplyInv'
<1> SUFFICES ASSUME ReplyInv, [Next]_vars PROVE ReplyInv'
  OBVIOUS
<1>1. ASSUME NEW w \in Worker, WorkStep(w) PROVE ReplyInv'
  BY <1>1, WorkReleaseKeeps, AcceptPostKeeps, ReceiveKeeps, DropKeeps, RepostKeeps,
     RecvIdleKeeps, CloseAfterFailureKeeps, SentKeeps, MarkPendingKeeps, UnmarkKeeps,
     DecideKeeps, CreditKeeps, DequeueFailedKeeps, IgnoreKeeps, DequeueRecvKeeps,
     DequeueSendKeeps DEF WorkStep
<1>2. ASSUME NEW w \in Worker, NEW s \in Sock, Accept(w, s) PROVE ReplyInv'
  BY <1>2, AcceptKeeps
<1>3. CASE CheckStep
  BY <1>3, WakeCheckKeeps, BeginCheckKeeps, ScanKeeps, ScanEndsKeeps, MarkBusyKeeps,
     SendPackKeeps, EraseSentKeeps, ClearMarkKeeps, LookNeedCloseKeeps, CheckReleaseKeeps
     DEF CheckStep
<1>4. ASSUME NEW k \in Pack, AdoStep(k) \/ Arrive(k) PROVE ReplyInv'
  BY <1>4, NoReplyKeeps, AdoFindKeeps, AdoPushKeeps, AdoSignalKeeps, ArriveKeeps DEF AdoStep
<1>5. ASSUME NEW s \in Sock, IoStep(s) \/ TimeOut(s) \/ PeerGone(s) PROVE ReplyInv'
  BY <1>5, RecvCompletesKeeps, SendCompletesKeeps, TimeOutKeeps, PeerGoneKeeps DEF IoStep
<1>6. CASE Quiescent \/ UNCHANGED vars
  BY <1>6, ReplyStutter DEF Quiescent
<1> QED
  BY <1>1, <1>2, <1>3, <1>4, <1>5, <1>6 DEF Next

\* The variables have their types, whatever fails.
THEOREM TypeCorrect == Spec => []TypeOK
<1>1. ReplyInv => TypeOK
  BY DEF ReplyInv, SetsOK, WorkOK, WorkType, CheckOK, CheckType, ListOK, PacksOK, NetOK, UseOK,
         TypeOK
<1> QED
  BY <1>1, ReplyStart, ReplyStep, PTL DEF Spec

\* Whatever happens to the connections, no reply is sent twice, nor sent after it was
\* given up.
THEOREM SentOnceHolds == Spec => []SentOnce
<1>1. ReplyInv => SentOnce
  <2> SUFFICES ASSUME ReplyInv PROVE SentOnce
    OBVIOUS
  <2>1. \A i, j \in 1..Len(sent) : sent[i] = sent[j] => i = j
    BY DEF ReplyInv, Apart
  <2>2. \A i \in 1..Len(sent) : sent[i] \in Pack /\ sent[i] \notin dropped
    BY DEF ReplyInv, Apart, Gone, PacksOK
  <2> QED
    BY <2>1, <2>2 DEF SentOnce, Packs
<1> QED
  BY <1>1, ReplyStart, ReplyStep, PTL DEF Spec
==============================================================================
