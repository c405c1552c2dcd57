--------------------------- MODULE TaskPoolProofs --------------------------
(***************************************************************************)
(* Machine-checked proofs about TaskPool, for every number of pools,       *)
(* threads, submitters and work items.                                     *)
(***************************************************************************)
EXTENDS TaskPool, TLAPS

-----------------------------------------------------------------------------
(* Lists.                                                                  *)

\* push_back adds one member and keeps a list free of duplicates when the
\* member is new.
LEMMA PushBack ==
  ASSUME NEW S, NEW q \in Seq(S), NEW e \in S
  PROVE  /\ Append(q, e) \in Seq(S)
         /\ Members(Append(q, e)) = Members(q) \cup {e}
         /\ Append(q, e) # <<>>
         /\ q # <<>> => Head(Append(q, e)) = Head(q)
         /\ Distinct(q) /\ e \notin Members(q) => Distinct(Append(q, e))
<1>1. /\ Len(q) \in Nat /\ DOMAIN q = 1..Len(q)
      /\ Len(Append(q, e)) = Len(q) + 1 /\ DOMAIN Append(q, e) = 1..(Len(q) + 1)
  OBVIOUS
<1>2. Append(q, e) \in Seq(S)
  OBVIOUS
<1>3. \A i \in 1..Len(q) : Append(q, e)[i] = q[i]
  OBVIOUS
<1>4. Append(q, e)[Len(q)+1] = e
  OBVIOUS
<1>5. Append(q, e) # <<>>
  BY <1>1, <1>2
<1>6. \A x : x \in Members(q) => x \in Members(Append(q, e))
  BY <1>1, <1>3 DEF Members
<1>7. e \in Members(Append(q, e))
  BY <1>1, <1>4 DEF Members
<1>8. \A x : x \in Members(Append(q, e)) => x \in Members(q) \/ x = e
  BY <1>1, <1>3, <1>4 DEF Members
<1>9. Distinct(q) /\ e \notin Members(q) => Distinct(Append(q, e))
  BY <1>1, <1>3, <1>4 DEF Distinct, Members
<1>10. q # <<>> => Head(Append(q, e)) = Head(q)
  OBVIOUS
<1> QED BY <1>2, <1>5, <1>6, <1>7, <1>8, <1>9, <1>10

\* pop_front removes the front, and nothing else from a list without
\* duplicates.
LEMMA PopsFront ==
  ASSUME NEW S, NEW q \in Seq(S), q # <<>>
  PROVE  /\ PopFront(q) \in Seq(S)
         /\ Head(q) \in Members(q) /\ Head(q) \in S
         /\ Members(q) = Members(PopFront(q)) \cup {Head(q)}
         /\ Distinct(q) => Distinct(PopFront(q)) /\ Head(q) \notin Members(PopFront(q))
<1>1. /\ Len(q) \in Nat /\ Len(q) > 0 /\ DOMAIN q = 1..Len(q)
      /\ Tail(q) \in Seq(S) /\ Len(Tail(q)) = Len(q) - 1 /\ DOMAIN Tail(q) = 1..(Len(q)-1)
      /\ Head(q) = q[1]
  OBVIOUS
<1>2. \A i \in 1..(Len(q)-1) : Tail(q)[i] = q[i+1]
  OBVIOUS
<1>3. Head(q) \in Members(q) /\ Head(q) \in S
  BY <1>1 DEF Members
<1>4. \A x : x \in Members(Tail(q)) => x \in Members(q)
  BY <1>1, <1>2 DEF Members
<1>5. \A x : x \in Members(q) => x \in Members(Tail(q)) \/ x = Head(q)
  <2> SUFFICES ASSUME NEW i \in DOMAIN q, i # 1 PROVE q[i] \in Members(Tail(q))
    BY <1>1 DEF Members
  <2>1. i - 1 \in 1..(Len(q)-1) /\ Tail(q)[i-1] = q[i]
    BY <1>1, <1>2
  <2> QED BY <2>1, <1>1 DEF Members
<1>6. ASSUME Distinct(q) PROVE Distinct(Tail(q)) 
   BY <1>1, <1>2, <1>6 DEF Distinct
<1>7. ASSUME Distinct(q) PROVE Head(q) \notin Members(Tail(q))
   BY <1>1, <1>2, <1>7 DEF Distinct, Members
<1> QED
  BY <1>1, <1>3, <1>4, <1>5, <1>6, <1>7 DEF PopFront

\* A list that Init or StopAll has cleared names nothing.
LEMMA EmptyList == Members(<<>>) = {} /\ Distinct(<<>>)
  BY DEF Members, Distinct

-----------------------------------------------------------------------------
\* The state the constructors leave is well typed.
LEMMA InitType == Init => TypeOK
<1> SUFFICES ASSUME Init PROVE TypeOK
  OBVIOUS
<1>1. ListTypes
  BY DEF Init, ListTypes
<1>2. StopTypes
  BY DEF Init, StopTypes
<1>3. WorkTypes
  BY DEF Init, WorkTypes
<1>4. SubmitTypes
  BY DEF Init, SubmitTypes, NoCall
<1>5. TaskTypes
  BY DEF Init, TaskTypes
<1> QED
  BY <1>1, <1>2, <1>3, <1>4, <1>5 DEF TypeOK

\* No step of a submitter, a worker thread or the owner of a pool breaks a type.
THEOREM TypeStep == TypeOK /\ [Next]_vars => TypeOK'
<1> SUFFICES ASSUME TypeOK, [Next]_vars PROVE TypeOK'
  OBVIOUS
<1> USE DEF TypeOK, ListTypes, StopTypes, WorkTypes, SubmitTypes, TaskTypes
<1>1. ASSUME NEW p \in Pool, PoolInit(p) PROVE TypeOK'
  BY <1>1, ThreadAssumption DEF PoolInit, workVars, submitVars, taskVars
<1>2. ASSUME NEW p \in Pool, StopFlag(p) PROVE TypeOK'
  BY <1>2 DEF StopFlag, workVars, submitVars, taskVars
<1>3. ASSUME NEW p \in Pool, ClearPending(p) PROVE TypeOK'
  BY <1>3 DEF ClearPending, workVars, submitVars, taskVars
<1>4. ASSUME NEW p \in Pool, SignalExit(p) PROVE TypeOK'
  BY <1>4 DEF SignalExit, Listed, Members, poolVars, submitVars, taskVars
<1>5. ASSUME NEW p \in Pool, Join(p) PROVE TypeOK'
  BY <1>5 DEF Join, workVars, submitVars, taskVars
<1>6. ASSUME NEW s \in Submitter, NEW p \in Pool, NEW t \in Task,
             NEW e \in EventUse, Submit(s, p, t, e)
      PROVE  TypeOK'
  <2>1. e \in BOOLEAN
    BY PoolAssumption
  <2>2. ListTypes' /\ StopTypes' /\ WorkTypes'
    BY <1>6 DEF Submit, poolVars, stopVars, workVars
  <2>3. SubmitTypes'
    <3>1. [pool |-> p, task |-> t, event |-> e] \in Call
      BY <2>1 DEF Call
    <3>2. CASE m_bStop[p] /\ UNCHANGED <<call, submitPc>>
      BY <1>6, <3>2 DEF Submit, workVars
    <3>3. CASE /\ call' = [call EXCEPT ![s] = [pool |-> p, task |-> t, event |-> e]]
               /\ submitPc' = [submitPc EXCEPT ![s] = "lock"]
      BY <1>6, <3>1, <3>3 DEF Submit, workVars
    <3> QED
      BY <1>6, <3>2, <3>3 DEF Submit
  <2>4. TaskTypes'
    <3>1. userEvent' \subseteq Submitter
      BY <1>6 DEF Submit
    <3>2. awaits' \in [Submitter -> Task \cup {None}]
      <4>1. [awaits EXCEPT ![s] = t] \in [Submitter -> Task \cup {None}]
        OBVIOUS
      <4>2. awaits' = awaits \/ awaits' = [awaits EXCEPT ![s] = t]
        BY <1>6 DEF Submit
      <4> QED
        BY <4>1, <4>2
    <3>3. iRet' \in [Task -> {"fresh", "called", "rejected", "queued", "direct"}]
      BY <1>6 DEF Submit
    <3> QED
      BY <1>6, <3>1, <3>2, <3>3 DEF Submit
  <2> QED
    BY <2>2, <2>3, <2>4
<1>7. ASSUME NEW s \in Submitter, NEW p \in Pool, TakeIdle(s, p) PROVE TypeOK'
  <2> DEFINE w == Head(m_IdleThreadList[p])
  <2>1. w \in Worker
    BY <1>7, PopsFront DEF TakeIdle
  <2> HIDE DEF w
  <2>2. UNCHANGED <<poolVars, stopVars>>
    BY <1>7 DEF TakeIdle
  <2>3. call[s].task \in Task /\ lpParam' = [lpParam EXCEPT ![w] = call[s].task]
    BY <1>7 DEF TakeIdle, Lock, Call, w
  <2>4. WorkTypes' /\ TaskTypes'
    BY <1>7, <2>1, <2>3 DEF TakeIdle, Deleted
  <2>5. target' = [target EXCEPT ![s] = w] /\ submitPc' = [submitPc EXCEPT ![s] = "swap"]
    BY <1>7 DEF TakeIdle, w
  <2>6. SubmitTypes'
    <3>1. /\ m_mutexSubmit' \in [Pool -> Submitter \cup {None}]
          /\ UNCHANGED call /\ submitPc[s] = "lock"
      BY <1>7 DEF TakeIdle, Lock, poolVars
    <3>2. \A x \in Worker : lpParam[x] \in Task => lpParam'[x] \in Task
      BY <2>1, <2>3
    <3>3. lpParam'[w] \in Task
      BY <2>1, <2>3
    <3>4. \A r \in Submitter : submitPc'[r] \in {"swap", "set"} =>
            target'[r] \in Worker /\ lpParam'[target'[r]] \in Task
      BY <2>1, <2>5, <3>2, <3>3
    <3>5. \A r \in Submitter : submitPc'[r] # "out" => call'[r] \in Call
      BY <2>5, <3>1
    <3>6. target' \in [Submitter -> Worker \cup {None}]
      BY <2>1, <2>5
    <3>7. submitPc' \in [Submitter -> {"out", "lock", "swap", "set", "queue", "crashed"}]
      BY <2>5
    <3> QED
      BY <3>1, <3>4, <3>5, <3>6, <3>7
  <2>7. ListTypes' /\ StopTypes'
    BY <2>2 DEF poolVars, stopVars
  <2> HIDE DEF ListTypes, StopTypes, WorkTypes, SubmitTypes, TaskTypes
  <2> QED
    BY <2>4, <2>6, <2>7
<1>8. ASSUME NEW s \in Submitter, NEW p \in Pool, MoveToBusy(s, p) PROVE TypeOK'
  <2>1. ListTypes'
    <3>1. m_IdleThreadList[p] # <<>> => PopFront(m_IdleThreadList[p]) \in Seq(Worker)
      BY PopsFront
    <3> DEFINE busy == m_BusyThreadList[p] \cup {target[s]}
    <3>2. busy \in SUBSET Worker
      BY <1>8 DEF MoveToBusy
    <3>3. CASE m_IdleThreadList[p] # <<>>
      <4>1. m_IdleThreadList' \in [Pool -> Seq(Worker)]
        BY <1>8, <3>1, <3>3 DEF MoveToBusy
      <4>2. m_BusyThreadList' \in [Pool -> SUBSET Worker]
        <5>1. m_BusyThreadList' = [m_BusyThreadList EXCEPT ![p] = busy]
          BY <1>8, <3>3 DEF MoveToBusy
        <5> HIDE DEF busy
        <5> QED
          BY <3>2, <5>1
      <4> QED
        BY <1>8, <4>1, <4>2 DEF MoveToBusy
    <3>4. CASE m_IdleThreadList[p] = <<>>
      BY <1>8, <3>4 DEF MoveToBusy
    <3> QED
      BY <3>3, <3>4
  <2>2. UNCHANGED <<stopVars, workVars, taskVars>>
    BY <1>8 DEF MoveToBusy
  <2>3. SubmitTypes'
    <3>1. \E pc \in {"set", "crashed"} : submitPc' = [submitPc EXCEPT ![s] = pc]
      BY <1>8 DEF MoveToBusy
    <3>2. submitPc[s] = "swap" /\ UNCHANGED <<m_mutexSubmit, call, target, lpParam>>
      BY <1>8 DEF MoveToBusy, workVars
    <3> QED
      BY <3>1, <3>2
  <2>4. StopTypes'
    BY <2>2 DEF stopVars
  <2>5. WorkTypes'
    BY <2>2 DEF workVars
  <2>6. TaskTypes'
    BY <2>2 DEF taskVars
  <2> HIDE DEF ListTypes, StopTypes, WorkTypes, SubmitTypes, TaskTypes
  <2> QED
    BY <2>1, <2>3, <2>4, <2>5, <2>6
<1>9. ASSUME NEW s \in Submitter, NEW p \in Pool, SetWork(s, p) PROVE TypeOK'
  BY <1>9 DEF SetWork, Return, Call, Deleted, NoCall, poolVars, stopVars
<1>10. ASSUME NEW s \in Submitter, NEW p \in Pool, SeeNoIdle(s, p) PROVE TypeOK'
  BY <1>10 DEF SeeNoIdle, Lock, poolVars, stopVars, workVars, taskVars
<1>11. ASSUME NEW s \in Submitter, NEW p \in Pool, Enqueue(s, p) PROVE TypeOK'
  BY <1>11 DEF Enqueue, Return, Call, NoCall, stopVars, workVars
<1>12. ASSUME NEW w \in Worker, Wake(w) PROVE TypeOK'
  BY <1>12 DEF Wake, poolVars, stopVars, submitVars
<1>13. ASSUME NEW w \in Worker, Finish(w) PROVE TypeOK'
  BY <1>13 DEF Finish, poolVars, stopVars, submitVars
<1>14. ASSUME NEW w \in Worker, TakePending(w) PROVE TypeOK'
  BY <1>14, PopsFront, PoolAssumption DEF TakePending, pTaskPool, stopVars, submitVars, taskVars
<1>15. ASSUME NEW w \in Worker, SeeNoPending(w) PROVE TypeOK'
  BY <1>15 DEF SeeNoPending, poolVars, stopVars, submitVars, taskVars
<1>16. ASSUME NEW w \in Worker, Park(w) PROVE TypeOK'
  <2>1. ListTypes'
    <3>1. Append(m_IdleThreadList[pTaskPool], w) \in Seq(Worker)
      BY PushBack, PoolAssumption DEF pTaskPool
    <3>2. Erase(m_BusyThreadList[pTaskPool], w) \in SUBSET Worker
      BY PoolAssumption DEF Erase, pTaskPool
    <3> QED
      BY <1>16, <3>1, <3>2 DEF Park
  <2> QED
    BY <1>16, <2>1 DEF Park, stopVars, submitVars, taskVars
<1>17. ASSUME NEW w \in Worker, SeeExit(w) PROVE TypeOK'
  BY <1>17 DEF SeeExit, poolVars, stopVars, submitVars, taskVars
<1>18. ASSUME NEW w \in Worker, Quit(w) PROVE TypeOK'
  BY <1>18, PoolAssumption, ThreadAssumption DEF Quit, ExitSlot, pTaskPool, poolVars, submitVars, taskVars
<1>19. CASE UNCHANGED vars
  BY <1>19 DEF vars, poolVars, stopVars, workVars, submitVars, taskVars
<1> QED
  BY <1>1, <1>2, <1>3, <1>4, <1>5, <1>6, <1>7, <1>8, <1>9, <1>10, <1>11, <1>12,
     <1>13, <1>14, <1>15, <1>16, <1>17, <1>18, <1>19
     DEF Next, OwnerStep, SubmitStep, WorkStep, Quiescent

\* Init fills a new pool's list with its own threads, each once.
LEMMA ThreadList ==
  \A p \in Pool : /\ Distinct(Threads[p])
                  /\ \A w \in Members(Threads[p]) : w \in Worker /\ Home[w] = p
<1> SUFFICES ASSUME NEW p \in Pool
             PROVE  /\ Distinct(Threads[p])
                    /\ \A w \in Members(Threads[p]) : w \in Worker /\ Home[w] = p
  OBVIOUS
<1>1. \A i \in DOMAIN Threads[p] : Home[Threads[p][i]] = p /\ Slot[Threads[p][i]] = i
  BY ThreadAssumption
<1>2. Distinct(Threads[p])
  BY <1>1 DEF Distinct
<1>3. Threads[p] \in Seq(Worker)
  BY ThreadAssumption
<1>4. \A i \in DOMAIN Threads[p] : Threads[p][i] \in Worker
  BY <1>3
<1> QED
  BY <1>1, <1>2, <1>4 DEF Members

\* Members of a list over S are in S.
LEMMA MembersIn == ASSUME NEW S, NEW q \in Seq(S) PROVE \A x \in Members(q) : x \in S
  BY DEF Members

-----------------------------------------------------------------------------
\* The mutex invariant reads only the callers' positions and the mutex.
LEMMA MutexFrame == MutexInv /\ UNCHANGED <<submitPc, call, m_mutexSubmit>> => MutexInv'
  BY DEF MutexInv, Inside
\* Which pool a listed thread belongs to depends on the lists alone.
LEMMA HomeFrame == HomeInv /\ UNCHANGED <<m_IdleThreadList, m_BusyThreadList>> => HomeInv'
  BY DEF HomeInv, Listed
\* Emptiness before Init and after StopAll reads the lists and the stage of the owner.
LEMMA EmptyFrame == EmptyInv /\ UNCHANGED <<m_IdleThreadList, m_BusyThreadList, stopPc>> => EmptyInv'
  BY DEF EmptyInv
\* What holds before Init is kept by steps that move no thread, caller or owner.
LEMMA BuiltFrame == BuiltInv /\ UNCHANGED <<stopPc, m_bStop, workPc, hWork, submitPc, call>> => BuiltInv'
  BY DEF BuiltInv, AtRest
\* A thread stays on one list while the lists and the owner do not move.
LEMMA OnOneListFrame == OnOneList /\ UNCHANGED <<m_IdleThreadList, m_BusyThreadList, stopPc>> => OnOneList'
  BY DEF OnOneList, Listed
\* Idle threads stay at rest while no list, thread or run event changes.
LEMMA RestFrame == RestInv /\ UNCHANGED <<m_IdleThreadList, workPc, hWork>> => RestInv'
  BY DEF RestInv, AtRest
\* The thread in hand keeps its item while nobody touches it.
LEMMA HandFrame == HandInv /\ UNCHANGED <<call, submitPc, target, workPc, hWork, lpParam>> => HandInv'
  BY DEF HandInv, InHand, AtRest
\* The thread in hand stays at the head while the list does not change.
LEMMA FrontFrame == FrontInv /\ UNCHANGED <<call, submitPc, target, m_IdleThreadList, stopPc>> => FrontInv'
  BY DEF FrontInv
\* Calls in progress are kept by steps that change no call and no answer.
LEMMA CallFrame == CallInv /\ UNCHANGED <<submitPc, call, iRet>> => CallInv'
  BY DEF CallInv
\* Pending lists are kept by steps that change neither them nor the items' answers.
LEMMA PendingFrame == PendingInv /\ UNCHANGED <<m_PendingList, iRet, started>> => PendingInv'
  BY DEF PendingInv
\* Items set to run are kept by steps that change no item and no run event.
LEMMA SetFrame == SetInv /\ UNCHANGED <<hWork, lpParam, iRet, started, m_PendingList>> => SetInv'
  BY DEF SetInv
\* What has run was accepted: kept while no item starts and no answer changes.
LEMMA RanFrame == RanInv /\ UNCHANGED <<started, iRet>> => RanInv'
  BY DEF RanInv
\* Running threads are kept by steps that start and finish nothing.
LEMMA RunFrame == RunInv /\ UNCHANGED <<workPc, started, lpParam, finished>> => RunInv'
  BY DEF RunInv
\* A step that starts no item runs none twice.
LEMMA AtMostOnceFrame == AtMostOnce /\ UNCHANGED <<started>> => AtMostOnce'
  BY DEF AtMostOnce

\* A submitter inside SubmitTaskItem has a pool and a task.
LEMMA CallTypes ==
  TypeOK => \A s \in Submitter : submitPc[s] # "out" =>
              call[s] \in Call /\ call[s].pool \in Pool /\ call[s].task \in Task
  BY DEF TypeOK, SubmitTypes, Call

\* The Submit mutex lets one submitter of a pool inside at a time.
LEMMA OneInside ==
  MutexInv => \A r, s \in Submitter :
                Inside(r) /\ Inside(s) /\ call[r].pool = call[s].pool => r = s
  BY DEF MutexInv

\* So two submitters never have the same thread in hand.
LEMMA OneHand ==
  MutexInv /\ HandInv => \A r, s \in Submitter :
    /\ submitPc[r] \in {"swap", "set"} /\ submitPc[s] \in {"swap", "set"}
    /\ target[r] = target[s]
    => r = s
  BY OneInside DEF HandInv, InHand, Inside

\* A submitter is not None.
LEMMA NotNone == \A s \in Submitter : s # None
  BY PoolAssumption

\* Every step of submitters, worker threads and owners, interleaved in any way,
\* keeps the invariant of who holds what.
LEMMA PoolStep == PoolInv /\ [Next]_vars => PoolInv'
<1> SUFFICES ASSUME TypeOK, MutexInv, HomeInv, EmptyInv, BuiltInv, OnOneList,
                    RestInv, HandInv, FrontInv, CallInv, PendingInv,
                    SetInv, RanInv, RunInv, AtMostOnce, [Next]_vars
             PROVE  PoolInv'
  BY DEF PoolInv
<1>0. TypeOK'
  BY TypeStep
<1> USE DEF poolVars, stopVars, workVars, submitVars, taskVars
<1>1. ASSUME NEW p \in Pool, PoolInit(p)
      PROVE  PoolInv'
  <2>1. stopPc[p] = "built"
    BY <1>1 DEF PoolInit, TypeOK, StopTypes
  <2>2. \A q \in Pool : m_IdleThreadList'[q] = IF q = p THEN Threads[p] ELSE m_IdleThreadList[q]
    BY <1>1 DEF PoolInit, TypeOK, ListTypes
  <2>3. \A q \in Pool : m_bStop'[q] = (q # p /\ m_bStop[q])
    BY <1>1 DEF PoolInit, TypeOK, ListTypes
  <2>4. \A q \in Pool : stopPc'[q] = IF q = p THEN "running" ELSE stopPc[q]
    BY <1>1 DEF PoolInit, TypeOK, StopTypes
  <2>5. HomeInv'
    BY <2>1, <2>2, <2>3, <2>4, <1>1, ThreadList DEF PoolInit, HomeInv, Listed
  <2>6. EmptyInv'
    BY <2>1, <2>2, <2>3, <2>4, <1>1, ThreadList DEF PoolInit, EmptyInv
  <2>7. BuiltInv'
    BY <2>1, <2>2, <2>3, <2>4, <1>1, ThreadList DEF PoolInit, BuiltInv, AtRest
  <2>8. OnOneList'
    BY <2>1, <2>2, <2>3, <2>4, <1>1, ThreadList, EmptyList DEF PoolInit, OnOneList, Listed, EmptyInv
  <2>9. RestInv'
    BY <2>1, <2>2, <2>3, <2>4, <1>1, ThreadList DEF PoolInit, RestInv, AtRest, BuiltInv
  <2>10. FrontInv'
    BY <2>1, <2>2, <2>3, <2>4, <1>1, ThreadList DEF PoolInit, FrontInv, BuiltInv, AtRest, TypeOK, SubmitTypes, Call
  <2>11. /\ MutexInv' /\ HandInv' /\ CallInv' /\ PendingInv' /\ SetInv' /\ RanInv'
        /\ RunInv' /\ AtMostOnce'
    BY <1>1, MutexFrame, HandFrame, CallFrame, PendingFrame, SetFrame, RanFrame, RunFrame, AtMostOnceFrame DEF PoolInit
  <2> QED
    BY <1>0, <2>5, <2>6, <2>7, <2>8, <2>9, <2>10, <2>11 DEF PoolInv
<1>2. ASSUME NEW p \in Pool, StopFlag(p)
      PROVE  PoolInv'
  <2>1. stopPc[p] = "running"
    BY <1>2 DEF StopFlag, TypeOK, StopTypes
  <2>2. \A q \in Pool : q # p => m_bStop'[q] = m_bStop[q]
    BY <1>2 DEF StopFlag, TypeOK, ListTypes
  <2>3. \A q \in Pool : stopPc'[q] = IF q = p THEN "clear" ELSE stopPc[q]
    BY <1>2 DEF StopFlag, TypeOK, StopTypes
  <2>4. EmptyInv'
    BY <2>1, <2>2, <2>3, <1>2 DEF StopFlag, EmptyInv
  <2>5. BuiltInv'
    BY <2>1, <2>2, <2>3, <1>2 DEF StopFlag, BuiltInv, AtRest
  <2>6. OnOneList'
    BY <2>1, <2>2, <2>3, <1>2 DEF StopFlag, OnOneList, Listed
  <2>7. FrontInv'
    BY <2>1, <2>2, <2>3, <1>2 DEF StopFlag, FrontInv, TypeOK, SubmitTypes, Call
  <2>8. /\ MutexInv' /\ HomeInv' /\ RestInv' /\ HandInv' /\ CallInv' /\ PendingInv'
        /\ SetInv' /\ RanInv' /\ RunInv' /\ AtMostOnce'
    BY <1>2, MutexFrame, HomeFrame, RestFrame, HandFrame, CallFrame, PendingFrame, SetFrame, RanFrame, RunFrame, AtMostOnceFrame DEF StopFlag
  <2> QED
    BY <1>0, <2>4, <2>5, <2>6, <2>7, <2>8 DEF PoolInv
<1>3. ASSUME NEW p \in Pool, ClearPending(p)
      PROVE  PoolInv'
  <2>1. stopPc[p] = "clear"
    BY <1>3 DEF ClearPending, TypeOK, StopTypes
  <2>2. \A q \in Pool : m_PendingList'[q] = IF q = p THEN <<>> ELSE m_PendingList[q]
    BY <1>3 DEF ClearPending, TypeOK, ListTypes
  <2>3. \A q \in Pool : stopPc'[q] = IF q = p THEN "signal" ELSE stopPc[q]
    BY <1>3 DEF ClearPending, TypeOK, StopTypes
  <2>4. EmptyInv'
    BY <2>1, <2>2, <2>3, <1>3 DEF ClearPending, EmptyInv
  <2>5. BuiltInv'
    BY <2>1, <2>2, <2>3, <1>3 DEF ClearPending, BuiltInv, AtRest
  <2>6. OnOneList'
    BY <2>1, <2>2, <2>3, <1>3 DEF ClearPending, OnOneList, Listed
  <2>7. FrontInv'
    BY <2>1, <2>2, <2>3, <1>3 DEF ClearPending, FrontInv, TypeOK, SubmitTypes, Call
  <2>8. PendingInv'
    <3>1. \A q \in Pool : Members(m_PendingList'[q]) \subseteq Members(m_PendingList[q])
                          /\ Distinct(m_PendingList'[q])
      BY <2>2, EmptyList DEF PendingInv
    <3> QED
      BY <1>3, <3>1 DEF ClearPending, PendingInv
  <2>9. SetInv'
    BY <2>1, <2>2, <2>3, <1>3, EmptyList DEF ClearPending, SetInv
  <2>10. /\ MutexInv' /\ HomeInv' /\ RestInv' /\ HandInv' /\ CallInv' /\ RanInv'
        /\ RunInv' /\ AtMostOnce'
    BY <1>3, MutexFrame, HomeFrame, RestFrame, HandFrame, CallFrame, RanFrame, RunFrame, AtMostOnceFrame DEF ClearPending
  <2> QED
    BY <1>0, <2>4, <2>5, <2>6, <2>7, <2>8, <2>9, <2>10 DEF PoolInv
<1>4. ASSUME NEW p \in Pool, SignalExit(p)
      PROVE  PoolInv'
  <2>1. stopPc[p] = "signal"
    BY <1>4 DEF SignalExit, TypeOK, StopTypes
  <2>2. \A q \in Pool : stopPc'[q] = IF q = p THEN "join" ELSE stopPc[q]
    BY <1>4 DEF SignalExit, TypeOK, StopTypes
  <2>3. EmptyInv'
    BY <2>1, <2>2, <1>4 DEF SignalExit, EmptyInv
  <2>4. BuiltInv'
    BY <2>1, <2>2, <1>4 DEF SignalExit, BuiltInv, AtRest
  <2>5. OnOneList'
    BY <2>1, <2>2, <1>4 DEF SignalExit, OnOneList, Listed
  <2>6. FrontInv'
    BY <2>1, <2>2, <1>4 DEF SignalExit, FrontInv, TypeOK, SubmitTypes, Call
  <2>7. /\ MutexInv' /\ HomeInv' /\ RestInv' /\ HandInv' /\ CallInv' /\ PendingInv'
        /\ SetInv' /\ RanInv' /\ RunInv' /\ AtMostOnce'
    BY <1>4, MutexFrame, HomeFrame, RestFrame, HandFrame, CallFrame, PendingFrame, SetFrame, RanFrame, RunFrame, AtMostOnceFrame DEF SignalExit
  <2> QED
    BY <1>0, <2>3, <2>4, <2>5, <2>6, <2>7 DEF PoolInv
<1>5. ASSUME NEW p \in Pool, Join(p)
      PROVE  PoolInv'
  <2>1. stopPc[p] = "join"
    BY <1>5 DEF Join, TypeOK, StopTypes
  <2>2. \A q \in Pool : m_IdleThreadList'[q] = IF q = p THEN <<>> ELSE m_IdleThreadList[q]
    BY <1>5 DEF Join, TypeOK, ListTypes
  <2>3. \A q \in Pool : m_BusyThreadList'[q] = IF q = p THEN {} ELSE m_BusyThreadList[q]
    BY <1>5 DEF Join, TypeOK, ListTypes
  <2>4. \A q \in Pool : stopPc'[q] = IF q = p THEN "stopped" ELSE stopPc[q]
    BY <1>5 DEF Join, TypeOK, StopTypes
  <2>5. HomeInv'
    BY <2>1, <2>2, <2>3, <2>4, EmptyList DEF HomeInv, Listed
  <2>6. EmptyInv'
    BY <2>1, <2>2, <2>3, <2>4, EmptyList DEF EmptyInv
  <2>7. BuiltInv'
    BY <2>1, <2>2, <2>3, <2>4, <1>5, EmptyList DEF Join, BuiltInv, AtRest
  <2>8. OnOneList'
    BY <2>1, <2>2, <2>3, <2>4, EmptyList DEF OnOneList, Listed
  <2>9. RestInv'
    BY <2>1, <2>2, <2>3, <2>4, <1>5, EmptyList DEF Join, RestInv, AtRest
  <2>10. FrontInv'
    BY <2>1, <2>2, <2>3, <2>4, <1>5, EmptyList DEF Join, FrontInv, TypeOK, SubmitTypes, Call
  <2>11. /\ MutexInv' /\ HandInv' /\ CallInv' /\ PendingInv' /\ SetInv' /\ RanInv'
        /\ RunInv' /\ AtMostOnce'
    BY <1>5, MutexFrame, HandFrame, CallFrame, PendingFrame, SetFrame, RanFrame, RunFrame, AtMostOnceFrame DEF Join
  <2> QED
    BY <1>0, <2>5, <2>6, <2>7, <2>8, <2>9, <2>10, <2>11 DEF PoolInv
<1>6. ASSUME NEW s \in Submitter, NEW p \in Pool, NEW t \in Task,
             NEW e \in EventUse, Submit(s, p, t, e)
      PROVE  PoolInv'
  <2>1. submitPc[s] = "out" /\ iRet[t] = "fresh"
    BY <1>6 DEF Submit, TypeOK, SubmitTypes, TaskTypes
  <2>2. \/ /\ \A u \in Task : iRet'[u] = IF u = t THEN "rejected" ELSE iRet[u]
         /\ UNCHANGED <<call, submitPc>>
      \/ /\ ~m_bStop[p]
         /\ \A u \in Task : iRet'[u] = IF u = t THEN "called" ELSE iRet[u]
         /\ \A r \in Submitter : r # s => call'[r] = call[r]
         /\ call'[s].pool = p /\ call'[s].task = t
         /\ \A r \in Submitter : submitPc'[r] = IF r = s THEN "lock" ELSE submitPc[r]
    BY <1>6 DEF Submit, TypeOK, ListTypes, SubmitTypes, TaskTypes
  <2>3. MutexInv'
    BY <2>1, <2>2, <1>6 DEF Submit, MutexInv, Inside
  <2>4. BuiltInv'
    BY <2>1, <2>2, <1>6 DEF Submit, BuiltInv, AtRest
  <2>5. HandInv'
    BY <2>1, <2>2, <1>6 DEF Submit, HandInv, InHand, AtRest
  <2>6. FrontInv'
    BY <2>1, <2>2, <1>6 DEF Submit, FrontInv
  <2>7. CallInv'
    BY <2>1, <2>2 DEF CallInv, TypeOK, SubmitTypes, Call
  <2>8. PendingInv'
    BY <2>1, <2>2, <1>6, MembersIn DEF Submit, PendingInv, TypeOK, ListTypes
  <2>9. SetInv'
    BY <2>1, <2>2, <1>6 DEF Submit, SetInv, TypeOK, WorkTypes
  <2>10. RanInv'
    BY <2>1, <2>2, <1>6 DEF Submit, RanInv, TypeOK, TaskTypes
  <2>11. /\ HomeInv' /\ EmptyInv' /\ OnOneList' /\ RestInv' /\ RunInv' /\ AtMostOnce'
    BY <1>6, HomeFrame, EmptyFrame, OnOneListFrame, RestFrame, RunFrame, AtMostOnceFrame DEF Submit
  <2> QED
    BY <1>0, <2>3, <2>4, <2>5, <2>6, <2>7, <2>8, <2>9, <2>10, <2>11 DEF PoolInv
<1>7. ASSUME NEW s \in Submitter, NEW p \in Pool, TakeIdle(s, p)
      PROVE  PoolInv'
  <2>1. submitPc[s] = "lock" /\ p = call[s].pool /\ m_mutexSubmit[p] = None
    BY <1>7 DEF TakeIdle, Lock, TypeOK, SubmitTypes
  <2>2. m_IdleThreadList[p] # <<>>
    BY <1>7 DEF TakeIdle, Lock, TypeOK, ListTypes
  <2>3. \A q \in Pool : m_mutexSubmit'[q] = IF q = p THEN s ELSE m_mutexSubmit[q]
    BY <1>7 DEF TakeIdle, Lock, TypeOK, SubmitTypes
  <2>4. \A r \in Submitter : target'[r] = IF r = s THEN Head(m_IdleThreadList[p]) ELSE target[r]
    BY <1>7 DEF TakeIdle, Lock, TypeOK, ListTypes, SubmitTypes
  <2>5. \A v \in Worker : lpParam'[v] = IF v = Head(m_IdleThreadList[p]) THEN call[s].task ELSE lpParam[v]
    BY <1>7 DEF TakeIdle, Lock, TypeOK, ListTypes, WorkTypes, SubmitTypes
  <2>6. \A r \in Submitter : submitPc'[r] = IF r = s THEN "swap" ELSE submitPc[r]
    BY <1>7 DEF TakeIdle, Lock, TypeOK, SubmitTypes
  <2>7. MutexInv'
    <3> SUFFICES ASSUME NEW r \in Submitter, Inside(r)', r # s
                 PROVE  m_mutexSubmit'[call'[r].pool] = r
      BY <1>7, <2>1, <2>3 DEF TakeIdle, MutexInv
    <3>1. Inside(r) /\ call'[r] = call[r]
      BY <1>7, <2>6 DEF TakeIdle, Inside
    <3>2. m_mutexSubmit[call[r].pool] = r /\ call[r].pool \in Pool
      BY <3>1, CallTypes DEF MutexInv, Inside
    <3> QED
      BY <3>1, <3>2, <2>1, <2>3, NotNone
  <2>8. BuiltInv'
    BY <2>1, <2>2, <2>3, <2>4, <2>5, <2>6, <1>7 DEF TakeIdle, BuiltInv, AtRest
  <2>9. HandInv'
    <3> DEFINE w == Head(m_IdleThreadList[p])
    <3>1. w \in Worker /\ w \in Members(m_IdleThreadList[p])
      BY <2>2, PopsFront DEF TypeOK, ListTypes
    <3>2. AtRest(w) /\ w \notin hWork /\ Home[w] = p
      BY <3>1 DEF RestInv, HomeInv, Listed
    <3> SUFFICES ASSUME NEW r \in Submitter, submitPc'[r] \in {"swap", "set"}
                 PROVE  InHand(r)'
      BY DEF HandInv
    <3> HIDE DEF w
    <3>3. CASE r = s
      BY <3>1, <3>2, <3>3, <2>1, <2>4, <2>5, <1>7 DEF TakeIdle, InHand, AtRest, w
    <3>4. CASE r # s
      <4>1. submitPc[r] \in {"swap", "set"} /\ InHand(r) /\ target'[r] = target[r]
        BY <3>4, <2>4, <2>6 DEF HandInv
      <4>2. m_mutexSubmit[call[r].pool] = r
        BY <4>1 DEF MutexInv, Inside
      <4>3. target[r] # w
        BY <4>1, <4>2, <3>2, <2>1, NotNone DEF InHand
      <4>4. target[r] \in Worker
        BY <4>1 DEF TypeOK, SubmitTypes
      <4> QED
        BY <4>1, <4>3, <4>4, <2>5, <1>7 DEF TakeIdle, InHand, AtRest, w
    <3> QED
      BY <3>3, <3>4
  <2>10. FrontInv'
    BY <2>1, <2>2, <2>3, <2>4, <2>5, <2>6, <1>7 DEF TakeIdle, FrontInv
  <2>11. CallInv'
    BY <2>1, <2>2, <2>3, <2>4, <2>5, <2>6, <1>7 DEF TakeIdle, CallInv
  <2>12. SetInv'
    <3>1. Head(m_IdleThreadList[p]) \notin hWork
      BY <2>2, PopsFront DEF TypeOK, ListTypes, RestInv
    <3>2. \A v \in hWork : v \in Worker /\ lpParam'[v] = lpParam[v]
      BY <3>1, <2>5 DEF TypeOK, WorkTypes
    <3> QED
      BY <3>2, <1>7 DEF TakeIdle, SetInv
  <2>13. RunInv'
    <3>1. AtRest(Head(m_IdleThreadList[p]))
      BY <2>2, PopsFront DEF TypeOK, ListTypes, RestInv
    <3>2. \A v \in Worker : workPc[v] = "run" => lpParam'[v] = lpParam[v]
      BY <3>1, <2>5 DEF AtRest
    <3> QED
      BY <3>2, <1>7 DEF TakeIdle, RunInv
  <2>14. /\ HomeInv' /\ EmptyInv' /\ OnOneList' /\ RestInv' /\ PendingInv' /\ RanInv'
        /\ AtMostOnce'
    BY <1>7, HomeFrame, EmptyFrame, OnOneListFrame, RestFrame, PendingFrame, RanFrame, AtMostOnceFrame DEF TakeIdle, Lock
  <2> QED
    BY <1>0, <2>7, <2>8, <2>9, <2>10, <2>11, <2>12, <2>13, <2>14 DEF PoolInv
<1>8. ASSUME NEW s \in Submitter, NEW p \in Pool, MoveToBusy(s, p)
      PROVE  PoolInv'
  <2>1. submitPc[s] = "swap" /\ p = call[s].pool
    BY <1>8 DEF MoveToBusy
  <2>2. /\ submitPc'[s] \in {"set", "crashed"}
        /\ \A r \in Submitter : r # s => submitPc'[r] = submitPc[r]
    BY <1>8 DEF MoveToBusy, TypeOK, SubmitTypes
  <2>3. /\ submitPc'[s] = "set" => m_IdleThreadList[p] # <<>>
        /\ m_IdleThreadList[p] = <<>> => UNCHANGED <<m_IdleThreadList, m_BusyThreadList>>
    BY <1>8 DEF MoveToBusy, TypeOK, SubmitTypes
  <2>4. /\ target[s] \in Worker /\ Home[target[s]] = p /\ AtRest(target[s])
        /\ target[s] \notin hWork
    BY <2>1 DEF HandInv, InHand, TypeOK, SubmitTypes
  <2>5. \A r \in Submitter : r # s /\ Inside(r) => call[r].pool # p
    BY <2>1, OneInside DEF Inside
  <2>6. ASSUME m_IdleThreadList[p] # <<>>
        PROVE  /\ \A q \in Pool : q # p => m_IdleThreadList'[q] = m_IdleThreadList[q]
               /\ \A q \in Pool : q # p => m_BusyThreadList'[q] = m_BusyThreadList[q]
               /\ m_BusyThreadList'[p] = m_BusyThreadList[p] \cup {target[s]}
               /\ Members(m_IdleThreadList[p]) = Members(m_IdleThreadList'[p]) \cup {target[s]}
               /\ Distinct(m_IdleThreadList'[p])
               /\ target[s] \notin Members(m_IdleThreadList'[p])
    <3>1. m_IdleThreadList'[p] = PopFront(m_IdleThreadList[p])
      BY <1>8, <2>6 DEF MoveToBusy, TypeOK, ListTypes
    <3>2. Head(m_IdleThreadList[p]) = target[s]
      BY <2>1, <2>6 DEF FrontInv
    <3>3. Distinct(m_IdleThreadList[p]) /\ m_IdleThreadList[p] \in Seq(Worker)
      BY DEF OnOneList, TypeOK, ListTypes
    <3>4. /\ Members(m_IdleThreadList[p]) = Members(m_IdleThreadList'[p]) \cup {target[s]}
          /\ Distinct(m_IdleThreadList'[p])
          /\ target[s] \notin Members(m_IdleThreadList'[p])
      BY <2>6, <3>1, <3>2, <3>3, PopsFront
    <3>5. m_BusyThreadList'[p] = m_BusyThreadList[p] \cup {target[s]}
      BY <1>8, <2>6 DEF MoveToBusy, TypeOK, ListTypes
    <3>6. \A q \in Pool : q # p => m_IdleThreadList'[q] = m_IdleThreadList[q]
      BY <1>8, <2>6 DEF MoveToBusy, TypeOK, ListTypes
    <3>7. \A q \in Pool : q # p => m_BusyThreadList'[q] = m_BusyThreadList[q]
      BY <1>8, <2>6 DEF MoveToBusy, TypeOK, ListTypes
    <3> QED
      BY <3>4, <3>5, <3>6, <3>7
  <2>7. MutexInv'
    BY <2>1, <2>2, <1>8 DEF MoveToBusy, MutexInv, Inside
  <2>8. CallInv' /\ BuiltInv'
    <3>1. \A r \in Submitter : submitPc'[r] # "out" <=> submitPc[r] # "out"
      BY <2>1, <2>2
    <3>2. CallInv'
      BY <3>1, <1>8 DEF MoveToBusy, CallInv
    <3>3. BuiltInv'
      BY <3>1, <1>8 DEF MoveToBusy, BuiltInv, AtRest
    <3> QED
      BY <3>2, <3>3
  <2>9. HandInv'
    BY <2>1, <2>2, <1>8 DEF MoveToBusy, HandInv, InHand, AtRest
  <2>10. ASSUME m_IdleThreadList[p] # <<>>
         PROVE  HomeInv' /\ EmptyInv' /\ OnOneList' /\ RestInv' /\ FrontInv'
    <3>1. HomeInv'
      BY <2>4, <2>6, <2>10 DEF HomeInv, Listed
    <3>2. EmptyInv'
      BY <2>6, <2>10, <1>8 DEF MoveToBusy, EmptyInv
    <3>3. OnOneList'
      <4> SUFFICES ASSUME NEW q \in Pool
                   PROVE  /\ Distinct(m_IdleThreadList'[q])
                          /\ Members(m_IdleThreadList'[q]) \cap m_BusyThreadList'[q] = {}
                          /\ stopPc'[q] \notin {"built", "stopped"} =>
                               Listed(q)' = Members(Threads[q])
        BY DEF OnOneList
      <4>1. /\ Distinct(m_IdleThreadList[q])
            /\ Members(m_IdleThreadList[q]) \cap m_BusyThreadList[q] = {}
            /\ stopPc'[q] \notin {"built", "stopped"} => Listed(q) = Members(Threads[q])
        BY <1>8 DEF OnOneList, MoveToBusy
      <4>2. CASE q # p
        BY <4>1, <4>2, <2>6, <2>10 DEF Listed
      <4>3. CASE q = p
        BY <4>1, <4>3, <2>6, <2>10 DEF Listed
      <4> QED
        BY <4>2, <4>3
    <3>4. RestInv'
      BY <2>6, <2>10, <1>8 DEF MoveToBusy, RestInv, AtRest
    <3>5. FrontInv'
      <4> SUFFICES ASSUME NEW r \in Submitter, submitPc'[r] \in {"swap", "set"}
                   PROVE  FrontInv!(r)'
        BY DEF FrontInv
      <4>1. CASE r = s
        BY <4>1, <2>1, <2>2, <2>6, <2>10, <1>8 DEF MoveToBusy
      <4>2. CASE r # s
        <5>1. call[r].pool \in Pool /\ call[r].pool # p /\ submitPc[r] = submitPc'[r]
          BY <4>2, <2>2, <2>5, CallTypes DEF Inside
        <5> QED
          BY <5>1, <2>6, <2>10, <1>8 DEF MoveToBusy, FrontInv
      <4> QED
        BY <4>1, <4>2
    <3> QED
      BY <3>1, <3>2, <3>3, <3>4, <3>5
  <2>11. ASSUME m_IdleThreadList[p] = <<>>
         PROVE  HomeInv' /\ EmptyInv' /\ OnOneList' /\ RestInv' /\ FrontInv'
    <3>1. HomeInv' /\ EmptyInv' /\ OnOneList' /\ RestInv'
      BY <2>3, <2>11, <1>8, HomeFrame, EmptyFrame, OnOneListFrame, RestFrame
         DEF MoveToBusy
    <3>2. FrontInv'
      BY <2>2, <2>3, <2>11, <1>8 DEF MoveToBusy, FrontInv
    <3> QED
      BY <3>1, <3>2
  <2>12. /\ PendingInv' /\ SetInv' /\ RanInv' /\ RunInv' /\ AtMostOnce'
    BY <1>8, PendingFrame, SetFrame, RanFrame, RunFrame, AtMostOnceFrame DEF MoveToBusy
  <2> QED
    BY <1>0, <2>7, <2>8, <2>9, <2>10, <2>11, <2>12 DEF PoolInv
<1>9. ASSUME NEW s \in Submitter, NEW p \in Pool, SetWork(s, p)
      PROVE  PoolInv'
  <2>1. submitPc[s] = "set" /\ p = call[s].pool
    BY <1>9 DEF SetWork
  <2>2. \A q \in Pool : m_mutexSubmit'[q] = IF q = p THEN None ELSE m_mutexSubmit[q]
    BY <1>9 DEF SetWork, Return, TypeOK, SubmitTypes
  <2>3. \A u \in Task : iRet'[u] = IF u = call[s].task THEN "direct" ELSE iRet[u]
    BY <1>9 DEF SetWork, Return, TypeOK, TaskTypes
  <2>4. submitPc'[s] = "out" /\ \A r \in Submitter : r # s => submitPc'[r] = submitPc[r]
    BY <1>9 DEF SetWork, Return, TypeOK, SubmitTypes
  <2>5. \A r \in Submitter : r # s => call'[r] = call[r] /\ target'[r] = target[r]
    BY <1>9 DEF SetWork, Return, TypeOK, SubmitTypes
  <2>6. call[s].task \in Task /\ iRet[call[s].task] = "called" /\ started[call[s].task] = 0
    BY <2>1, CallTypes DEF CallInv, RanInv, TypeOK, TaskTypes
  <2>7. \A r \in Submitter : r # s /\ Inside(r) => call[r].pool # p /\ call[r].pool \in Pool
    BY <2>1, OneInside, CallTypes DEF Inside
  <2>8. MutexInv'
    <3> SUFFICES ASSUME NEW r \in Submitter, Inside(r)'
                 PROVE  m_mutexSubmit'[call'[r].pool] = r
      BY DEF MutexInv
    <3>1. r # s /\ Inside(r) /\ call'[r] = call[r]
      BY <2>4, <2>5 DEF Inside
    <3> QED
      BY <3>1, <2>2, <2>7 DEF MutexInv
  <2>9. CallInv'
    <3> SUFFICES ASSUME NEW r \in Submitter, submitPc'[r] # "out"
                 PROVE  /\ iRet'[call'[r].task] = "called"
                        /\ \A q \in Submitter : submitPc'[q] # "out" /\ call'[r].task = call'[q].task
                             => r = q
      BY DEF CallInv
    <3>1. r # s /\ submitPc[r] # "out" /\ call'[r] = call[r] /\ call[r].task \in Task
      BY <2>4, <2>5, CallTypes
    <3>2. call[r].task # call[s].task
      BY <3>1, <2>1 DEF CallInv
    <3>3. iRet'[call'[r].task] = "called"
      BY <3>1, <3>2, <2>3 DEF CallInv
    <3>4. ASSUME NEW q \in Submitter, submitPc'[q] # "out", call'[r].task = call'[q].task
          PROVE  r = q
      BY <3>1, <3>4, <2>4, <2>5 DEF CallInv
    <3> QED
      BY <3>3, <3>4
  <2>10. hWork' \subseteq hWork \cup {target[s]}
    BY <1>9 DEF SetWork
  <2>11. /\ target[s] \in Worker /\ Home[target[s]] = p /\ AtRest(target[s])
         /\ target[s] \notin hWork /\ lpParam[target[s]] = call[s].task
    BY <2>1 DEF HandInv, InHand, TypeOK, SubmitTypes
  <2>12. BuiltInv'
    <3>1. stopPc[p] # "built"
      BY <2>1 DEF BuiltInv
    <3>2. \A q \in Pool : stopPc[q] = "built" =>
            \A r \in Submitter : submitPc'[r] # "out" => call'[r].pool # q
      BY <2>4, <2>5 DEF BuiltInv
    <3>3. \A q \in Pool : stopPc[q] = "built" =>
            \A w \in Worker : Home[w] = q => AtRest(w) /\ w \notin hWork'
      BY <3>1, <2>10, <2>11 DEF BuiltInv
    <3> QED
      BY <3>2, <3>3, <1>9 DEF SetWork, BuiltInv, AtRest
  <2>13. RestInv'
    <3>1. \A q \in Pool : target[s] \notin Members(m_IdleThreadList[q])
      BY <2>1, <2>11 DEF FrontInv, HomeInv, Listed
    <3>2. \A q \in Pool : \A w \in Members(m_IdleThreadList[q]) : AtRest(w) /\ w \notin hWork'
      BY <3>1, <2>10 DEF RestInv
    <3>3. \A w \in hWork' : AtRest(w)
      BY <2>10, <2>11 DEF RestInv
    <3> QED
      BY <3>2, <3>3, <1>9 DEF SetWork, RestInv, AtRest
  <2>14. HandInv'
    <3> SUFFICES ASSUME NEW r \in Submitter, submitPc'[r] \in {"swap", "set"}
                 PROVE  InHand(r)'
      BY DEF HandInv
    <3>1. /\ r # s /\ submitPc[r] \in {"swap", "set"} /\ InHand(r)
          /\ call'[r] = call[r] /\ target'[r] = target[r]
      BY <2>4, <2>5 DEF HandInv
    <3>2. target[r] # target[s]
      BY <3>1, <2>1, OneHand
    <3> QED
      BY <3>1, <3>2, <2>10, <1>9 DEF SetWork, InHand, AtRest
  <2>15. FrontInv'
    <3> SUFFICES ASSUME NEW r \in Submitter, submitPc'[r] \in {"swap", "set"}
                 PROVE  FrontInv!(r)'
      BY DEF FrontInv
    <3>1. /\ submitPc[r] = submitPc'[r] /\ call'[r] = call[r] /\ target'[r] = target[r]
      BY <2>4, <2>5
    <3> QED
      BY <3>1, <1>9 DEF SetWork, FrontInv
  <2>16. PendingInv'
    <3>1. \A q \in Pool : \A u \in Members(m_PendingList[q]) : u \in Task /\ iRet'[u] = iRet[u]
      BY <2>3, <2>6, MembersIn DEF PendingInv, TypeOK, ListTypes
    <3> QED
      BY <3>1, <1>9 DEF SetWork, PendingInv
  <2>17. SetInv'
    <3>1. \A w \in hWork : /\ lpParam[w] \in Task /\ lpParam[w] # call[s].task
                           /\ iRet'[lpParam[w]] = iRet[lpParam[w]]
      BY <2>3, <2>6 DEF SetInv, TypeOK, WorkTypes
    <3>2. \A q \in Pool : call[s].task \notin Members(m_PendingList[q])
      BY <2>6 DEF PendingInv
    <3>3. \A w \in hWork' : w \in hWork \/ w = target[s]
      BY <2>10
    <3>4. lpParam' = lpParam /\ started' = started /\ m_PendingList' = m_PendingList
      BY <1>9 DEF SetWork
    <3>5. \A w \in hWork' : /\ iRet'[lpParam'[w]] \in {"queued", "direct"}
                            /\ started'[lpParam'[w]] = 0
      BY <3>1, <3>3, <3>4, <2>3, <2>6, <2>11 DEF SetInv
    <3>6. \A w \in hWork' : \A q \in Pool : lpParam'[w] \notin Members(m_PendingList'[q])
      BY <3>2, <3>3, <3>4, <2>11 DEF SetInv
    <3>7. \A v, w \in hWork' : lpParam'[v] = lpParam'[w] => v = w
      BY <3>1, <3>3, <3>4, <2>11 DEF SetInv
    <3> QED
      BY <3>5, <3>6, <3>7 DEF SetInv
  <2>18. RanInv'
    BY <2>3, <1>9 DEF SetWork, RanInv
  <2>19. /\ HomeInv' /\ EmptyInv' /\ OnOneList' /\ RunInv' /\ AtMostOnce'
    BY <1>9, HomeFrame, EmptyFrame, OnOneListFrame, RunFrame, AtMostOnceFrame
       DEF SetWork, Return
  <2> QED
    BY <1>0, <2>8, <2>9, <2>12, <2>13, <2>14, <2>15, <2>16, <2>17, <2>18, <2>19 DEF PoolInv
<1>10. ASSUME NEW s \in Submitter, NEW p \in Pool, SeeNoIdle(s, p)
      PROVE  PoolInv'
  <2>1. submitPc[s] = "lock" /\ p = call[s].pool /\ m_mutexSubmit[p] = None
    BY <1>10 DEF SeeNoIdle, Lock, TypeOK, SubmitTypes
  <2>2. \A q \in Pool : m_mutexSubmit'[q] = IF q = p THEN s ELSE m_mutexSubmit[q]
    BY <1>10 DEF SeeNoIdle, Lock, TypeOK, SubmitTypes
  <2>3. \A r \in Submitter : submitPc'[r] = IF r = s THEN "queue" ELSE submitPc[r]
    BY <1>10 DEF SeeNoIdle, Lock, TypeOK, SubmitTypes
  <2>4. MutexInv'
    <3> SUFFICES ASSUME NEW r \in Submitter, Inside(r)', r # s
                 PROVE  m_mutexSubmit'[call'[r].pool] = r
      BY <1>10, <2>1, <2>2 DEF SeeNoIdle, MutexInv
    <3>1. Inside(r) /\ call'[r] = call[r]
      BY <1>10, <2>3 DEF SeeNoIdle, Inside
    <3>2. m_mutexSubmit[call[r].pool] = r /\ call[r].pool \in Pool
      BY <3>1, CallTypes DEF MutexInv, Inside
    <3> QED
      BY <3>1, <3>2, <2>1, <2>2, NotNone
  <2>5. BuiltInv'
    BY <2>1, <2>2, <2>3, <1>10 DEF SeeNoIdle, BuiltInv, AtRest
  <2>6. HandInv'
    BY <2>1, <2>2, <2>3, <1>10 DEF SeeNoIdle, HandInv, InHand, AtRest
  <2>7. FrontInv'
    BY <2>1, <2>2, <2>3, <1>10 DEF SeeNoIdle, FrontInv
  <2>8. CallInv'
    BY <2>1, <2>2, <2>3, <1>10 DEF SeeNoIdle, CallInv
  <2>9. /\ HomeInv' /\ EmptyInv' /\ OnOneList' /\ RestInv' /\ PendingInv' /\ SetInv'
        /\ RanInv' /\ RunInv' /\ AtMostOnce'
    BY <1>10, HomeFrame, EmptyFrame, OnOneListFrame, RestFrame, PendingFrame, SetFrame, RanFrame, RunFrame, AtMostOnceFrame DEF SeeNoIdle, Lock
  <2> QED
    BY <1>0, <2>4, <2>5, <2>6, <2>7, <2>8, <2>9 DEF PoolInv
<1>11. ASSUME NEW s \in Submitter, NEW p \in Pool, Enqueue(s, p)
      PROVE  PoolInv'
  <2>1. submitPc[s] = "queue" /\ p = call[s].pool
    BY <1>11 DEF Enqueue
  <2>2. \A q \in Pool : m_mutexSubmit'[q] = IF q = p THEN None ELSE m_mutexSubmit[q]
    BY <1>11 DEF Enqueue, Return, TypeOK, SubmitTypes
  <2>3. \A u \in Task : iRet'[u] = IF u = call[s].task THEN "queued" ELSE iRet[u]
    BY <1>11 DEF Enqueue, Return, TypeOK, TaskTypes
  <2>4. submitPc'[s] = "out" /\ \A r \in Submitter : r # s => submitPc'[r] = submitPc[r]
    BY <1>11 DEF Enqueue, Return, TypeOK, SubmitTypes
  <2>5. \A r \in Submitter : r # s => call'[r] = call[r] /\ target'[r] = target[r]
    BY <1>11 DEF Enqueue, Return, TypeOK, SubmitTypes
  <2>6. call[s].task \in Task /\ iRet[call[s].task] = "called" /\ started[call[s].task] = 0
    BY <2>1, CallTypes DEF CallInv, RanInv, TypeOK, TaskTypes
  <2>7. \A r \in Submitter : r # s /\ Inside(r) => call[r].pool # p /\ call[r].pool \in Pool
    BY <2>1, OneInside, CallTypes DEF Inside
  <2>8. MutexInv'
    <3> SUFFICES ASSUME NEW r \in Submitter, Inside(r)'
                 PROVE  m_mutexSubmit'[call'[r].pool] = r
      BY DEF MutexInv
    <3>1. r # s /\ Inside(r) /\ call'[r] = call[r]
      BY <2>4, <2>5 DEF Inside
    <3> QED
      BY <3>1, <2>2, <2>7 DEF MutexInv
  <2>9. CallInv'
    <3> SUFFICES ASSUME NEW r \in Submitter, submitPc'[r] # "out"
                 PROVE  /\ iRet'[call'[r].task] = "called"
                        /\ \A q \in Submitter : submitPc'[q] # "out" /\ call'[r].task = call'[q].task
                             => r = q
      BY DEF CallInv
    <3>1. r # s /\ submitPc[r] # "out" /\ call'[r] = call[r] /\ call[r].task \in Task
      BY <2>4, <2>5, CallTypes
    <3>2. call[r].task # call[s].task
      BY <3>1, <2>1 DEF CallInv
    <3>3. iRet'[call'[r].task] = "called"
      BY <3>1, <3>2, <2>3 DEF CallInv
    <3>4. ASSUME NEW q \in Submitter, submitPc'[q] # "out", call'[r].task = call'[q].task
          PROVE  r = q
      BY <3>1, <3>4, <2>4, <2>5 DEF CallInv
    <3> QED
      BY <3>3, <3>4
  <2>10. /\ m_PendingList'[p] = Append(m_PendingList[p], call[s].task)
         /\ \A q \in Pool : q # p => m_PendingList'[q] = m_PendingList[q]
    BY <1>11 DEF Enqueue, TypeOK, ListTypes
  <2>11. \A q \in Pool : call[s].task \notin Members(m_PendingList[q])
    BY <2>6 DEF PendingInv
  <2>12. /\ Members(m_PendingList'[p]) = Members(m_PendingList[p]) \cup {call[s].task}
         /\ Distinct(m_PendingList'[p])
    <3>1. m_PendingList[p] \in Seq(Task) /\ Distinct(m_PendingList[p])
      BY DEF TypeOK, ListTypes, PendingInv
    <3> QED
      BY <3>1, <2>6, <2>10, <2>11, PushBack
  <2>13. BuiltInv'
    <3>1. \A q \in Pool : stopPc[q] = "built" =>
            \A r \in Submitter : submitPc'[r] # "out" => call'[r].pool # q
      BY <2>4, <2>5 DEF BuiltInv
    <3> QED
      BY <3>1, <1>11 DEF Enqueue, BuiltInv, AtRest
  <2>14. HandInv'
    BY <2>4, <2>5, <1>11 DEF Enqueue, HandInv, InHand, AtRest
  <2>15. FrontInv'
    <3> SUFFICES ASSUME NEW r \in Submitter, submitPc'[r] \in {"swap", "set"}
                 PROVE  FrontInv!(r)'
      BY DEF FrontInv
    <3>1. /\ submitPc[r] = submitPc'[r] /\ call'[r] = call[r] /\ target'[r] = target[r]
      BY <2>4, <2>5
    <3> QED
      BY <3>1, <1>11 DEF Enqueue, FrontInv
  <2>16. PendingInv'
    <3>1. \A q \in Pool : Distinct(m_PendingList'[q])
      BY <2>10, <2>12 DEF PendingInv
    <3>2. \A q, r \in Pool : q # r =>
            Members(m_PendingList'[q]) \cap Members(m_PendingList'[r]) = {}
      <4> SUFFICES ASSUME NEW q \in Pool, NEW r \in Pool, q # r, NEW u,
                          u \in Members(m_PendingList'[q]), u \in Members(m_PendingList'[r])
                   PROVE  FALSE
        OBVIOUS
      <4>1. Members(m_PendingList[q]) \cap Members(m_PendingList[r]) = {}
        BY DEF PendingInv
      <4>2. CASE q = p
        BY <4>1, <4>2, <2>10, <2>11, <2>12
      <4>3. CASE q # p
        BY <4>1, <4>3, <2>10, <2>11, <2>12
      <4> QED
        BY <4>2, <4>3
    <3>3. \A q \in Pool : \A u \in Members(m_PendingList[q]) : u \in Task
      BY MembersIn DEF TypeOK, ListTypes
    <3>4. \A q \in Pool : \A u \in Members(m_PendingList'[q]) :
            u = call[s].task \/ u \in Members(m_PendingList[q])
      BY <2>10, <2>12
    <3>5. \A q \in Pool : \A u \in Members(m_PendingList'[q]) :
            iRet'[u] = "queued" /\ started[u] = 0
      BY <3>3, <3>4, <2>3, <2>6 DEF PendingInv
    <3> QED
      BY <3>1, <3>2, <3>5, <1>11 DEF Enqueue, PendingInv
  <2>17. SetInv'
    <3>1. \A w \in hWork : /\ lpParam[w] \in Task /\ lpParam[w] # call[s].task
                           /\ iRet'[lpParam[w]] = iRet[lpParam[w]]
      BY <2>3, <2>6 DEF SetInv, TypeOK, WorkTypes
    <3>2. \A w \in hWork : \A q \in Pool : lpParam[w] \notin Members(m_PendingList'[q])
      BY <3>1, <2>10, <2>12 DEF SetInv
    <3> QED
      BY <3>1, <3>2, <1>11 DEF Enqueue, SetInv
  <2>18. RanInv'
    BY <2>3, <1>11 DEF Enqueue, RanInv
  <2>19. /\ HomeInv' /\ EmptyInv' /\ OnOneList' /\ RestInv' /\ RunInv' /\ AtMostOnce'
    BY <1>11, HomeFrame, EmptyFrame, OnOneListFrame, RestFrame, RunFrame, AtMostOnceFrame
       DEF Enqueue, Return
  <2> QED
    BY <1>0, <2>8, <2>9, <2>13, <2>14, <2>15, <2>16, <2>17, <2>18, <2>19 DEF PoolInv
<1>12. ASSUME NEW w \in Worker, Wake(w)
      PROVE  PoolInv'
  <2>1. w \in hWork /\ lpParam[w] \in Task
    BY <1>12 DEF Wake, TypeOK, WorkTypes
  <2>2. hWork' = hWork \ {w}
    BY <1>12 DEF Wake
  <2>3. \A v \in Worker : workPc'[v] = IF v = w THEN "run" ELSE workPc[v]
    BY <1>12 DEF Wake, TypeOK, WorkTypes
  <2>4. started[lpParam[w]] = 0 /\ iRet[lpParam[w]] \in {"queued", "direct"}
    BY <2>1 DEF SetInv
  <2>5. /\ started'[lpParam[w]] = 1
        /\ \A u \in Task : u # lpParam[w] => started'[u] = started[u]
    BY <1>12, <2>1, <2>4 DEF Wake, TypeOK, TaskTypes
  <2>6. BuiltInv'
    BY <2>1, <2>2, <2>3, <1>12 DEF Wake, BuiltInv, AtRest, TypeOK, WorkTypes
  <2>7. RestInv'
    <3>1. \A q \in Pool : \A v \in Members(m_IdleThreadList[q]) : v # w /\ v \in Worker
      BY <2>1, MembersIn DEF RestInv, TypeOK, ListTypes
    <3>2. \A v \in hWork' : v \in hWork /\ v # w /\ v \in Worker
      BY <2>2 DEF TypeOK, WorkTypes
    <3> QED
      BY <3>1, <3>2, <2>3, <1>12 DEF Wake, RestInv, AtRest
  <2>8. HandInv'
    BY <2>1, <2>2, <2>3, <1>12 DEF Wake, HandInv, InHand, AtRest, TypeOK, SubmitTypes
  <2>9. PendingInv'
    <3>1. \A q \in Pool : \A u \in Members(m_PendingList[q]) : u \in Task /\ u # lpParam[w]
      BY <2>1, MembersIn DEF SetInv, TypeOK, ListTypes
    <3> QED
      BY <3>1, <2>5, <1>12 DEF Wake, PendingInv
  <2>10. SetInv'
    <3>1. \A v \in hWork' : v \in hWork /\ lpParam[v] \in Task /\ lpParam[v] # lpParam[w]
      BY <2>1, <2>2 DEF SetInv, TypeOK, WorkTypes
    <3> QED
      BY <3>1, <2>5, <1>12 DEF Wake, SetInv
  <2>11. RanInv'
    BY <2>4, <2>5, <1>12 DEF Wake, RanInv
  <2>12. RunInv'
    <3>1. \A v \in Worker : v # w /\ workPc[v] = "run" => lpParam[v] # lpParam[w]
      BY <2>4 DEF RunInv
    <3>2. lpParam[w] \notin finished
      BY <2>4 DEF RunInv
    <3>3. \A v \in Worker : workPc[v] = "run" => lpParam[v] \in Task
      BY DEF TypeOK, WorkTypes
    <3>4. \A u \in finished : u \in Task /\ u # lpParam[w]
      BY <3>2 DEF TypeOK, TaskTypes
    <3>5. lpParam' = lpParam /\ finished' = finished
      BY <1>12 DEF Wake
    <3>6. \A v \in Worker : workPc'[v] = "run" =>
            started'[lpParam'[v]] > 0 /\ lpParam'[v] \notin finished'
      BY <3>1, <3>2, <3>3, <3>5, <2>3, <2>5 DEF RunInv
    <3>7. \A u, v \in Worker : workPc'[u] = "run" /\ workPc'[v] = "run"
                               /\ lpParam'[u] = lpParam'[v] => u = v
      BY <3>1, <3>5, <2>3 DEF RunInv
    <3>8. \A u \in finished' : started'[u] > 0
      BY <3>4, <3>5, <2>5 DEF RunInv
    <3> QED
      BY <3>6, <3>7, <3>8 DEF RunInv
  <2>13. AtMostOnce'
    BY <2>5 DEF AtMostOnce
  <2>14. /\ MutexInv' /\ HomeInv' /\ EmptyInv' /\ OnOneList' /\ FrontInv' /\ CallInv'
    BY <1>12, MutexFrame, HomeFrame, EmptyFrame, OnOneListFrame, FrontFrame, CallFrame
       DEF Wake
  <2> QED
    BY <1>0, <2>6, <2>7, <2>8, <2>9, <2>10, <2>11, <2>12, <2>13, <2>14 DEF PoolInv
<1>13. ASSUME NEW w \in Worker, Finish(w)
      PROVE  PoolInv'
  <2>1. workPc[w] = "run"
    BY <1>13 DEF Finish, TypeOK, WorkTypes
  <2>2. finished' = finished \cup {lpParam[w]}
    BY <1>13 DEF Finish, TypeOK, WorkTypes, TaskTypes
  <2>3. \A v \in Worker : workPc'[v] = IF v = w THEN "next" ELSE workPc[v]
    BY <1>13 DEF Finish, TypeOK, WorkTypes
  <2>4. BuiltInv'
    BY <2>1, <2>2, <2>3, <1>13 DEF Finish, BuiltInv, AtRest
  <2>5. RestInv'
    BY <2>1, <2>2, <2>3, <1>13 DEF Finish, RestInv, AtRest
  <2>6. HandInv'
    BY <2>1, <2>2, <2>3, <1>13 DEF Finish, HandInv, InHand, AtRest, TypeOK, SubmitTypes
  <2>7. RunInv'
    BY <2>1, <2>2, <2>3, <1>13 DEF Finish, RunInv
  <2>8. /\ MutexInv' /\ HomeInv' /\ EmptyInv' /\ OnOneList' /\ FrontInv' /\ CallInv'
        /\ PendingInv' /\ SetInv' /\ RanInv' /\ AtMostOnce'
    BY <1>13, MutexFrame, HomeFrame, EmptyFrame, OnOneListFrame, FrontFrame, CallFrame, PendingFrame, SetFrame, RanFrame, AtMostOnceFrame DEF Finish
  <2> QED
    BY <1>0, <2>4, <2>5, <2>6, <2>7, <2>8 DEF PoolInv
<1>14. ASSUME NEW w \in Worker, TakePending(w)
      PROVE  PoolInv'
  <2> DEFINE u == Head(m_PendingList[pTaskPool])
  <2>1. workPc[w] = "next" /\ m_PendingList[pTaskPool] # <<>> /\ pTaskPool \in Pool
    BY <1>14, PoolAssumption DEF TakePending, pTaskPool
  <2>2. /\ m_PendingList'[pTaskPool] = PopFront(m_PendingList[pTaskPool])
        /\ \A q \in Pool : q # pTaskPool => m_PendingList'[q] = m_PendingList[q]
    BY <1>14, <2>1 DEF TakePending, TypeOK, ListTypes
  <2>3. /\ u \in Task /\ u \in Members(m_PendingList[pTaskPool])
        /\ Members(m_PendingList'[pTaskPool]) \subseteq Members(m_PendingList[pTaskPool])
        /\ Distinct(m_PendingList'[pTaskPool])
        /\ u \notin Members(m_PendingList'[pTaskPool])
    <3>1. m_PendingList[pTaskPool] \in Seq(Task) /\ Distinct(m_PendingList[pTaskPool])
      BY <2>1 DEF TypeOK, ListTypes, PendingInv
    <3> QED
      BY <3>1, <2>1, <2>2, PopsFront
  <2>4. lpParam'[w] = u /\ \A v \in Worker : v # w => lpParam'[v] = lpParam[v]
    BY <1>14 DEF TakePending, TypeOK, WorkTypes
  <2>5. hWork' = hWork \cup {w}
    BY <1>14 DEF TakePending
  <2>6. workPc'[w] = "wait" /\ \A v \in Worker : v # w => workPc'[v] = workPc[v]
    BY <1>14 DEF TakePending, TypeOK, WorkTypes
  <2>7. iRet' = iRet /\ started' = started /\ finished' = finished
        /\ m_IdleThreadList' = m_IdleThreadList
    BY <1>14 DEF TakePending
  <2>8. ~AtRest(w) /\ w \notin hWork
    BY <2>1 DEF AtRest, RestInv
  <2> HIDE DEF u
  <2>9. \A q \in Pool : Members(m_PendingList'[q]) \subseteq Members(m_PendingList[q])
                        /\ Distinct(m_PendingList'[q]) /\ u \notin Members(m_PendingList'[q])
    BY <2>1, <2>2, <2>3 DEF PendingInv
  <2>10. BuiltInv'
    BY <2>5, <2>6, <2>8, <1>14 DEF TakePending, BuiltInv, AtRest
  <2>11. RestInv'
    <3>1. \A q \in Pool : \A v \in Members(m_IdleThreadList[q]) : v # w /\ v \in Worker
      BY <2>8, MembersIn DEF RestInv, TypeOK, ListTypes
    <3>2. \A v \in hWork : v # w /\ v \in Worker
      BY <2>8 DEF TypeOK, WorkTypes
    <3> QED
      BY <3>1, <3>2, <2>5, <2>6, <2>7 DEF RestInv, AtRest
  <2>12. HandInv'
    <3>1. \A r \in Submitter : submitPc[r] \in {"swap", "set"} =>
            target[r] # w /\ target[r] \in Worker
      BY <2>8 DEF HandInv, InHand, TypeOK, SubmitTypes
    <3> QED
      BY <3>1, <2>4, <2>5, <2>6, <1>14 DEF TakePending, HandInv, InHand, AtRest
  <2>13. PendingInv'
    BY <2>7, <2>9 DEF PendingInv
  <2>14. SetInv'
    <3>1. iRet[u] = "queued" /\ started[u] = 0
      BY <2>1, <2>3 DEF PendingInv
    <3>2. \A v \in hWork : v # w /\ lpParam'[v] = lpParam[v] /\ lpParam[v] # u
      BY <2>1, <2>3, <2>4, <2>8 DEF SetInv, TypeOK, WorkTypes
    <3>3. \A v \in hWork' : v \in hWork \/ v = w
      BY <2>5
    <3>4. \A v \in hWork' : /\ iRet'[lpParam'[v]] \in {"queued", "direct"}
                            /\ started'[lpParam'[v]] = 0
      BY <3>1, <3>2, <3>3, <2>4, <2>7 DEF SetInv
    <3>5. \A v \in hWork' : \A q \in Pool : lpParam'[v] \notin Members(m_PendingList'[q])
      BY <3>2, <3>3, <2>4, <2>9 DEF SetInv
    <3>6. \A x, v \in hWork' : lpParam'[x] = lpParam'[v] => x = v
      BY <3>2, <3>3, <2>4 DEF SetInv
    <3> QED
      BY <3>4, <3>5, <3>6 DEF SetInv
  <2>15. RunInv'
    BY <2>4, <2>6, <2>7 DEF RunInv
  <2>16. /\ MutexInv' /\ HomeInv' /\ EmptyInv' /\ OnOneList' /\ FrontInv' /\ CallInv'
         /\ RanInv' /\ AtMostOnce'
    BY <1>14, MutexFrame, HomeFrame, EmptyFrame, OnOneListFrame, FrontFrame, CallFrame,
       RanFrame, AtMostOnceFrame DEF TakePending
  <2> QED
    BY <1>0, <2>10, <2>11, <2>12, <2>13, <2>14, <2>15, <2>16 DEF PoolInv
<1>15. ASSUME NEW w \in Worker, SeeNoPending(w)
      PROVE  PoolInv'
  <2>1. workPc[w] = "next"
    BY <1>15 DEF SeeNoPending, TypeOK, WorkTypes
  <2>2. \A v \in Worker : workPc'[v] = IF v = w THEN "park" ELSE workPc[v]
    BY <1>15 DEF SeeNoPending, TypeOK, WorkTypes
  <2>3. BuiltInv'
    BY <2>1, <2>2, <1>15 DEF SeeNoPending, BuiltInv, AtRest
  <2>4. RestInv'
    BY <2>1, <2>2, <1>15 DEF SeeNoPending, RestInv, AtRest
  <2>5. HandInv'
    BY <2>1, <2>2, <1>15 DEF SeeNoPending, HandInv, InHand, AtRest, TypeOK, SubmitTypes
  <2>6. RunInv'
    BY <2>1, <2>2, <1>15 DEF SeeNoPending, RunInv
  <2>7. /\ MutexInv' /\ HomeInv' /\ EmptyInv' /\ OnOneList' /\ FrontInv' /\ CallInv'
        /\ PendingInv' /\ SetInv' /\ RanInv' /\ AtMostOnce'
    BY <1>15, MutexFrame, HomeFrame, EmptyFrame, OnOneListFrame, FrontFrame, CallFrame, PendingFrame, SetFrame, RanFrame, AtMostOnceFrame DEF SeeNoPending
  <2> QED
    BY <1>0, <2>3, <2>4, <2>5, <2>6, <2>7 DEF PoolInv
<1>16. ASSUME NEW w \in Worker, Park(w)
      PROVE  PoolInv'
  <2>1. workPc[w] = "park" /\ pTaskPool \in Pool /\ ~AtRest(w) /\ w \notin hWork
    BY <1>16, PoolAssumption DEF Park, pTaskPool, AtRest, RestInv
  <2>2. workPc'[w] = "wait" /\ \A v \in Worker : v # w => workPc'[v] = workPc[v]
    BY <1>16 DEF Park, TypeOK, WorkTypes
  <2>3. \A q \in Pool : \A v \in Members(m_IdleThreadList[q]) : v # w /\ v \in Worker
    BY <2>1, MembersIn DEF RestInv, TypeOK, ListTypes
  <2>4. BuiltInv'
    BY <2>1, <2>2, <1>16 DEF Park, BuiltInv, AtRest
  <2>5. \A r \in Submitter : submitPc[r] \in {"swap", "set"} =>
          target[r] # w /\ target[r] \in Worker
    BY <2>1 DEF HandInv, InHand, TypeOK, SubmitTypes
  <2>6. HandInv'
    BY <2>2, <2>5, <1>16 DEF Park, HandInv, InHand, AtRest
  <2>7. RunInv'
    BY <2>1, <2>2, <1>16 DEF Park, RunInv
  <2>8. ASSUME w \notin m_BusyThreadList[pTaskPool]
        PROVE  HomeInv' /\ EmptyInv' /\ OnOneList' /\ RestInv' /\ FrontInv'
    <3>1. UNCHANGED <<m_IdleThreadList, m_BusyThreadList>>
      BY <1>16, <2>8 DEF Park
    <3>2. HomeInv' /\ EmptyInv' /\ OnOneList' /\ FrontInv'
      BY <1>16, <3>1, HomeFrame, EmptyFrame, OnOneListFrame, FrontFrame DEF Park
    <3>3. \A v \in hWork : v # w /\ v \in Worker
      BY <2>1 DEF TypeOK, WorkTypes
    <3>4. RestInv'
      BY <3>1, <3>3, <2>2, <2>3, <1>16 DEF Park, RestInv, AtRest
    <3> QED
      BY <3>2, <3>4
  <2>9. ASSUME w \in m_BusyThreadList[pTaskPool]
        PROVE  HomeInv' /\ EmptyInv' /\ OnOneList' /\ RestInv' /\ FrontInv'
    <3>1. /\ m_IdleThreadList'[pTaskPool] = Append(m_IdleThreadList[pTaskPool], w)
          /\ \A q \in Pool : q # pTaskPool => m_IdleThreadList'[q] = m_IdleThreadList[q]
      BY <1>16, <2>1, <2>9 DEF Park, TypeOK, ListTypes
    <3>2. /\ m_BusyThreadList'[pTaskPool] = m_BusyThreadList[pTaskPool] \ {w}
          /\ \A q \in Pool : q # pTaskPool => m_BusyThreadList'[q] = m_BusyThreadList[q]
      BY <1>16, <2>1, <2>9 DEF Park, Erase, TypeOK, ListTypes
    <3>3. m_IdleThreadList[pTaskPool] \in Seq(Worker)
      BY <2>1 DEF TypeOK, ListTypes
    <3>4. /\ Members(m_IdleThreadList'[pTaskPool]) = Members(m_IdleThreadList[pTaskPool]) \cup {w}
          /\ m_IdleThreadList'[pTaskPool] # <<>>
          /\ m_IdleThreadList[pTaskPool] # <<>> =>
               Head(m_IdleThreadList'[pTaskPool]) = Head(m_IdleThreadList[pTaskPool])
          /\ Distinct(m_IdleThreadList'[pTaskPool])
      BY <3>1, <3>3, <2>1, <2>3, PushBack DEF OnOneList
    <3>5. HomeInv'
      BY <3>1, <3>2, <3>4, <2>1, <2>9 DEF HomeInv, Listed
    <3>6. stopPc[pTaskPool] \notin {"built", "stopped"}
      BY <2>1, <2>9 DEF EmptyInv
    <3>7. EmptyInv'
      BY <3>1, <3>2, <3>6, <1>16 DEF Park, EmptyInv
    <3>8. OnOneList'
      <4> SUFFICES ASSUME NEW q \in Pool
                   PROVE  /\ Distinct(m_IdleThreadList'[q])
                          /\ Members(m_IdleThreadList'[q]) \cap m_BusyThreadList'[q] = {}
                          /\ stopPc'[q] \notin {"built", "stopped"} =>
                               Listed(q)' = Members(Threads[q])
        BY DEF OnOneList
      <4>1. /\ Distinct(m_IdleThreadList[q])
            /\ Members(m_IdleThreadList[q]) \cap m_BusyThreadList[q] = {}
            /\ stopPc'[q] \notin {"built", "stopped"} => Listed(q) = Members(Threads[q])
        BY <1>16 DEF OnOneList, Park
      <4>2. CASE q # pTaskPool
        BY <4>1, <4>2, <3>1, <3>2 DEF Listed
      <4>3. CASE q = pTaskPool
        BY <4>1, <4>3, <3>2, <3>4, <2>9 DEF Listed
      <4> QED
        BY <4>2, <4>3
    <3>9. RestInv'
      <4>1. \A v \in hWork : v # w /\ v \in Worker
        BY <2>1 DEF TypeOK, WorkTypes
      <4>2. hWork' = hWork
        BY <1>16 DEF Park
      <4>3. \A v \in hWork' : AtRest(v)'
        BY <4>1, <4>2, <2>2 DEF RestInv, AtRest
      <4>4. \A q \in Pool : \A v \in Members(m_IdleThreadList'[q]) :
              v = w \/ v \in Members(m_IdleThreadList[q])
        BY <3>1, <3>4
      <4>5. \A q \in Pool : \A v \in Members(m_IdleThreadList'[q]) :
              AtRest(v)' /\ v \notin hWork'
        BY <4>2, <4>4, <2>1, <2>2, <2>3 DEF RestInv, AtRest
      <4> QED
        BY <4>3, <4>5 DEF RestInv
    <3>10. FrontInv'
      <4> SUFFICES ASSUME NEW r \in Submitter, submitPc[r] \in {"swap", "set"}
                   PROVE  FrontInv!(r)'
        BY <1>16 DEF FrontInv, Park
      <4>1. call[r].pool \in Pool /\ target[r] # w
        BY <2>5, CallTypes
      <4>2. CASE call[r].pool # pTaskPool
        BY <4>1, <4>2, <3>1, <1>16 DEF Park, FrontInv
      <4>3. CASE call[r].pool = pTaskPool
        BY <4>1, <4>3, <3>4, <3>6, <1>16 DEF Park, FrontInv
      <4> QED
        BY <4>2, <4>3
    <3> QED
      BY <3>5, <3>7, <3>8, <3>9, <3>10
  <2>10. /\ MutexInv' /\ CallInv' /\ PendingInv' /\ SetInv' /\ RanInv' /\ AtMostOnce'
    BY <1>16, MutexFrame, CallFrame, PendingFrame, SetFrame, RanFrame, AtMostOnceFrame
       DEF Park
  <2> QED
    BY <1>0, <2>4, <2>6, <2>7, <2>8, <2>9, <2>10 DEF PoolInv
<1>17. ASSUME NEW w \in Worker, SeeExit(w)
      PROVE  PoolInv'
  <2>1. workPc[w] = "wait"
    BY <1>17 DEF SeeExit, TypeOK, WorkTypes
  <2>2. \A v \in Worker : workPc'[v] = IF v = w THEN "exit" ELSE workPc[v]
    BY <1>17 DEF SeeExit, TypeOK, WorkTypes
  <2>3. BuiltInv'
    BY <2>1, <2>2, <1>17 DEF SeeExit, BuiltInv, AtRest
  <2>4. RestInv'
    BY <2>1, <2>2, <1>17 DEF SeeExit, RestInv, AtRest
  <2>5. HandInv'
    BY <2>1, <2>2, <1>17 DEF SeeExit, HandInv, InHand, AtRest, TypeOK, SubmitTypes
  <2>6. RunInv'
    BY <2>1, <2>2, <1>17 DEF SeeExit, RunInv
  <2>7. /\ MutexInv' /\ HomeInv' /\ EmptyInv' /\ OnOneList' /\ FrontInv' /\ CallInv'
        /\ PendingInv' /\ SetInv' /\ RanInv' /\ AtMostOnce'
    BY <1>17, MutexFrame, HomeFrame, EmptyFrame, OnOneListFrame, FrontFrame, CallFrame, PendingFrame, SetFrame, RanFrame, AtMostOnceFrame DEF SeeExit
  <2> QED
    BY <1>0, <2>3, <2>4, <2>5, <2>6, <2>7 DEF PoolInv
<1>18. ASSUME NEW w \in Worker, Quit(w)
      PROVE  PoolInv'
  <2>1. workPc[w] = "exit"
    BY <1>18 DEF Quit, TypeOK, WorkTypes
  <2>2. \A v \in Worker : workPc'[v] = IF v = w THEN "gone" ELSE workPc[v]
    BY <1>18 DEF Quit, TypeOK, WorkTypes
  <2>3. BuiltInv'
    BY <2>1, <2>2, <1>18 DEF Quit, BuiltInv, AtRest
  <2>4. RestInv'
    BY <2>1, <2>2, <1>18 DEF Quit, RestInv, AtRest
  <2>5. HandInv'
    BY <2>1, <2>2, <1>18 DEF Quit, HandInv, InHand, AtRest, TypeOK, SubmitTypes
  <2>6. RunInv'
    BY <2>1, <2>2, <1>18 DEF Quit, RunInv
  <2>7. /\ MutexInv' /\ HomeInv' /\ EmptyInv' /\ OnOneList' /\ FrontInv' /\ CallInv'
        /\ PendingInv' /\ SetInv' /\ RanInv' /\ AtMostOnce'
    BY <1>18, MutexFrame, HomeFrame, EmptyFrame, OnOneListFrame, FrontFrame, CallFrame, PendingFrame, SetFrame, RanFrame, AtMostOnceFrame DEF Quit
  <2> QED
    BY <1>0, <2>3, <2>4, <2>5, <2>6, <2>7 DEF PoolInv
<1>19. CASE UNCHANGED vars
  BY <1>0, <1>19, MutexFrame, HomeFrame, EmptyFrame, BuiltFrame, OnOneListFrame, RestFrame, HandFrame, FrontFrame, CallFrame, PendingFrame, SetFrame, RanFrame, RunFrame, AtMostOnceFrame DEF vars, PoolInv
<1> QED
  BY <1>1, <1>2, <1>3, <1>4, <1>5, <1>6, <1>7, <1>8, <1>9, <1>10, <1>11, <1>12, <1>13, <1>14, <1>15, <1>16, <1>17, <1>18, <1>19
     DEF Next, OwnerStep, SubmitStep, WorkStep, Quiescent

\* The constructors establish the invariant: no list, call or event holds
\* anything yet.
LEMMA PoolStart == Init => PoolInv
<1> SUFFICES ASSUME Init PROVE PoolInv
  OBVIOUS
<1>1. TypeOK
  BY InitType
<1>2. MutexInv /\ HandInv /\ FrontInv /\ CallInv
  BY DEF Init, MutexInv, Inside, HandInv, FrontInv, CallInv
<1>3. HomeInv /\ EmptyInv /\ OnOneList
  BY EmptyList DEF Init, HomeInv, EmptyInv, OnOneList, Listed
<1>4. BuiltInv /\ RestInv
  BY EmptyList DEF Init, BuiltInv, RestInv, AtRest
<1>5. PendingInv /\ SetInv
  BY EmptyList DEF Init, PendingInv, SetInv
<1>6. RanInv /\ RunInv /\ AtMostOnce
  BY DEF Init, RanInv, RunInv, AtMostOnce
<1> QED
  BY <1>1, <1>2, <1>3, <1>4, <1>5, <1>6 DEF PoolInv

\* The types are kept for every number of pools, threads and items.
THEOREM TypeCorrect == Spec => []TypeOK
<1> QED
  BY InitType, TypeStep, PTL DEF Spec

\* The inductive invariant of TaskPool holds in every reachable state.
THEOREM PoolCorrect == Spec => []PoolInv
<1> QED
  BY PoolStart, PoolStep, PTL DEF Spec

\* However many submitters, workers and pools there are, and whenever StopAll
\* runs, pWorkFun is entered at most once for a work item.
THEOREM AtMostOnceHolds == Spec => []AtMostOnce
<1>1. PoolInv => AtMostOnce
  BY DEF PoolInv
<1> QED
  BY <1>1, PoolCorrect, PTL

\* Every thread of a running pool is on exactly one of its two lists.
THEOREM OnOneListHolds == Spec => []OnOneList
<1>1. PoolInv => OnOneList
  BY DEF PoolInv
<1> QED
  BY <1>1, PoolCorrect, PTL

\* The idle thread SubmitTaskItem reads without the Swap mutex is still at the
\* head of the list when it is popped, and has nothing else to run.
THEOREM IdleThreadsRestHolds == Spec => []IdleThreadsRest
<1>1. PoolInv => IdleThreadsRest
  BY DEF PoolInv, IdleThreadsRest, RestInv, FrontInv, AtRest
<1> QED
  BY <1>1, PoolCorrect, PTL

-----------------------------------------------------------------------------
(* What TaskPool promises its callers, from the invariant PoolInv: it      *)
(* implements WorkQueue, loses no item before some pool stops, keeps the   *)
(* order of those that wait, and leaves no thread behind when it stops.    *)

\* A submitter or a list or a run event that holds an item keeps it waiting
\* across a step that changes none of them.
LEMMA WaitingFrame ==
  ASSUME NEW t, UNCHANGED <<submitPc, call, m_PendingList, hWork, lpParam>>, Waiting(t)
  PROVE  Waiting(t)'
BY DEF Waiting

\* No thread leaves, or is told to, before some StopAll has begun.
NobodyLeaves ==
  NotStopping => hExit = {} /\ \A w \in Worker : workPc[w] \notin {"exit", "gone"}

\* Only SignalExit sets an exit event, and by then StopAll has begun.
LEMMA NobodyLeavesStep ==
  TypeOK /\ NobodyLeaves /\ [Next]_vars => NobodyLeaves'
<1> SUFFICES ASSUME TypeOK, NobodyLeaves, [Next]_vars, NotStopping'
             PROVE  hExit' = {} /\ \A w \in Worker : workPc'[w] \notin {"exit", "gone"}
  BY DEF NobodyLeaves
<1> USE DEF poolVars, stopVars, workVars, submitVars, taskVars
<1>1. ASSUME NEW p \in Pool, OwnerStep(p) PROVE NotStopping /\ UNCHANGED <<hExit, workPc>>
  <2>1. stopPc' \in [Pool -> {"built", "running"}]
    BY TypeStep DEF NotStopping, TypeOK, StopTypes
  <2>2. PoolInit(p)
    BY <1>1, <2>1 DEF OwnerStep, StopFlag, ClearPending, SignalExit, Join, TypeOK, StopTypes
  <2> QED
    BY <2>1, <2>2 DEF PoolInit, NotStopping, TypeOK, StopTypes
<1>2. ASSUME NEW s \in Submitter, NEW p \in Pool, SubmitStep(s, p)
      PROVE  NotStopping /\ UNCHANGED <<hExit, workPc>>
  BY <1>2 DEF SubmitStep, TakeIdle, MoveToBusy, SetWork, SeeNoIdle, Enqueue, NotStopping
<1>3. ASSUME NEW s \in Submitter, NEW p \in Pool, NEW t \in Task, NEW e \in EventUse,
             Submit(s, p, t, e)
      PROVE  NotStopping /\ UNCHANGED <<hExit, workPc>>
  BY <1>3 DEF Submit, NotStopping
<1>4. ASSUME NEW w \in Worker, WorkStep(w)
      PROVE  /\ NotStopping /\ hExit' = hExit
             /\ \A v \in Worker : v # w => workPc'[v] = workPc[v]
             /\ workPc'[w] \notin {"exit", "gone"}
  <2>1. stopPc' = stopPc
    BY <1>4 DEF WorkStep, Wake, Finish, TakePending, SeeNoPending, Park, SeeExit, Quit
  <2>2. NotStopping /\ hExit = {} /\ workPc[w] # "exit"
    BY <2>1 DEF NotStopping, NobodyLeaves
  <2>3. ~SeeExit(w) /\ ~Quit(w)
    BY <2>2 DEF SeeExit, Quit
  <2> QED
    BY <1>4, <2>2, <2>3 DEF WorkStep, Wake, Finish, TakePending, SeeNoPending, Park,
       TypeOK, WorkTypes
<1>5. CASE UNCHANGED vars
  BY <1>5 DEF vars, NobodyLeaves, NotStopping
<1> QED
  BY <1>1, <1>2, <1>3, <1>4, <1>5 DEF Next, Quiescent, vars, NobodyLeaves

\* Every step that takes an item out of one hiding place puts it in another
\* or starts it; before a StopAll nothing else takes one out.
LEMMA NoTaskLostStep ==
  PoolInv /\ NobodyLeaves /\ NoTaskLost /\ [Next]_vars => NoTaskLost'
<1> SUFFICES ASSUME PoolInv, NobodyLeaves, NoTaskLost, [Next]_vars, NotStopping',
                    NEW t \in Task, Accepted(t)', started'[t] = 0
             PROVE  Waiting(t)'
  BY DEF NoTaskLost
<1> USE DEF poolVars, stopVars, workVars, submitVars, taskVars
<1>0. TypeOK
  BY DEF PoolInv
<1>1. ASSUME NEW p \in Pool, OwnerStep(p) PROVE Waiting(t)'
  <2>1. stopPc' \in [Pool -> {"built", "running"}]
    BY <1>0, TypeStep DEF NotStopping, TypeOK, StopTypes
  <2>2. PoolInit(p)
    BY <1>1, <2>1, <1>0 DEF OwnerStep, StopFlag, ClearPending, SignalExit, Join, TypeOK, StopTypes
  <2>3. NotStopping
    BY <2>1, <2>2, <1>0 DEF PoolInit, NotStopping, TypeOK, StopTypes
  <2>4. Waiting(t)
    BY <2>2, <2>3 DEF PoolInit, NoTaskLost, Accepted
  <2> QED
    BY <2>2, <2>4, WaitingFrame DEF PoolInit
<1>2. ASSUME stopPc' = stopPc, started'[t] = started[t], iRet'[t] = iRet[t] PROVE Waiting(t)
  BY <1>2 DEF NotStopping, NoTaskLost, Accepted
<1>3. ASSUME NEW s \in Submitter, NEW p \in Pool, NEW u \in Task, NEW e \in EventUse,
             Submit(s, p, u, e)
      PROVE  Waiting(t)'
  <2>1. stopPc' = stopPc /\ started' = started
    BY <1>3 DEF Submit
  <2>2. CASE t = u
    <3>1. iRet'[t] # "rejected"
      BY DEF Accepted
    <3>2. submitPc' = [submitPc EXCEPT ![s] = "lock"]
          /\ call' = [call EXCEPT ![s] = [pool |-> p, task |-> t, event |-> e]]
      BY <1>0, <1>3, <2>2, <3>1 DEF Submit, TypeOK, TaskTypes
    <3> QED
      BY <1>0, <3>2 DEF Waiting, TypeOK, SubmitTypes
  <2>3. CASE t # u
    <3>1. iRet'[t] = iRet[t]
      BY <1>0, <1>3, <2>3 DEF Submit, TypeOK, TaskTypes
    <3>2. Waiting(t)
      BY <1>2, <2>1, <3>1
    <3>3. \A r \in Submitter : submitPc[r] # "out" => submitPc'[r] # "out" /\ call'[r] = call[r]
      BY <1>0, <1>3 DEF Submit, TypeOK, SubmitTypes
    <3> QED
      BY <1>3, <3>2, <3>3 DEF Waiting, Submit
  <2> QED
    BY <2>2, <2>3
<1>4. ASSUME NEW s \in Submitter, NEW p \in Pool, TakeIdle(s, p) PROVE Waiting(t)'
  <2> DEFINE w == Head(m_IdleThreadList[p])
  <2>1. Waiting(t)
    BY <1>2, <1>4 DEF TakeIdle
  <2>2. w \notin hWork /\ w \in Worker
    BY <1>0, <1>4, PopsFront DEF TakeIdle, PoolInv, RestInv, TypeOK, ListTypes
  <2>3. \A v \in hWork : lpParam'[v] = lpParam[v] /\ v \in hWork'
    BY <1>0, <1>4, <2>2 DEF TakeIdle, TypeOK, WorkTypes
  <2>4. \A r \in Submitter : submitPc[r] # "out" => submitPc'[r] # "out" /\ call'[r] = call[r]
    BY <1>0, <1>4 DEF TakeIdle, TypeOK, SubmitTypes
  <2>5. m_PendingList' = m_PendingList
    BY <1>4 DEF TakeIdle
  <2> QED
    BY <2>1, <2>3, <2>4, <2>5 DEF Waiting
<1>5. ASSUME NEW s \in Submitter, NEW p \in Pool, MoveToBusy(s, p) \/ SeeNoIdle(s, p)
      PROVE  Waiting(t)'
  <2>1. Waiting(t)
    BY <1>2, <1>5 DEF MoveToBusy, SeeNoIdle
  <2>2. \A r \in Submitter : submitPc[r] # "out" => submitPc'[r] # "out" /\ call'[r] = call[r]
    BY <1>0, <1>5 DEF MoveToBusy, SeeNoIdle, TypeOK, SubmitTypes
  <2> QED
    BY <1>5, <2>1, <2>2 DEF Waiting, MoveToBusy, SeeNoIdle
<1>6. ASSUME NEW s \in Submitter, NEW p \in Pool, SetWork(s, p) PROVE Waiting(t)'
  <2>1. NotStopping
    BY <1>6 DEF SetWork, NotStopping
  <2>2. submitPc[s] = "set" /\ target[s] \in Worker
    BY <1>0, <1>6 DEF SetWork, TypeOK, SubmitTypes
  <2>3. ~Deleted(target[s]) /\ lpParam[target[s]] = call[s].task
    BY <2>1, <2>2 DEF NobodyLeaves, Deleted, PoolInv, HandInv, InHand
  <2>4. hWork' = hWork \cup {target[s]} /\ lpParam' = lpParam
    BY <1>6, <2>3 DEF SetWork
  <2>5. CASE t = call[s].task
    BY <2>3, <2>4, <2>5 DEF Waiting
  <2>6. CASE t # call[s].task
    <3>1. Waiting(t)
      BY <1>0, <1>2, <1>6, <2>6 DEF SetWork, Return, TypeOK, TaskTypes
    <3>2. \A r \in Submitter : r # s => submitPc'[r] = submitPc[r] /\ call'[r] = call[r]
      BY <1>0, <1>6 DEF SetWork, Return, TypeOK, SubmitTypes
    <3> QED
      BY <1>6, <2>4, <2>6, <3>1, <3>2 DEF Waiting, SetWork
  <2> QED
    BY <2>5, <2>6
<1>7. ASSUME NEW s \in Submitter, NEW p \in Pool, Enqueue(s, p) PROVE Waiting(t)'
  <2>1. call[s].task \in Task
    BY <1>0, <1>7, CallTypes DEF Enqueue
  <2>2. /\ m_PendingList'[p] = Append(m_PendingList[p], call[s].task)
        /\ \A q \in Pool : q # p => m_PendingList'[q] = m_PendingList[q]
    BY <1>0, <1>7 DEF Enqueue, TypeOK, ListTypes
  <2>3. Members(m_PendingList'[p]) = Members(m_PendingList[p]) \cup {call[s].task}
    BY <1>0, <2>1, <2>2, PushBack DEF TypeOK, ListTypes
  <2>4. CASE t = call[s].task
    BY <2>3, <2>4 DEF Waiting
  <2>5. CASE t # call[s].task
    <3>1. Waiting(t)
      BY <1>0, <1>2, <1>7, <2>5 DEF Enqueue, Return, TypeOK, TaskTypes
    <3>2. \A r \in Submitter : r # s => submitPc'[r] = submitPc[r] /\ call'[r] = call[r]
      BY <1>0, <1>7 DEF Enqueue, Return, TypeOK, SubmitTypes
    <3> QED
      BY <1>7, <2>2, <2>3, <2>5, <3>1, <3>2 DEF Waiting, Enqueue
  <2> QED
    BY <2>4, <2>5
<1>8. ASSUME NEW w \in Worker, Wake(w) PROVE Waiting(t)'
  <2>1. lpParam[w] \in Task /\ lpParam[w] # t
    BY <1>0, <1>8 DEF Wake, TypeOK, WorkTypes, TaskTypes
  <2>2. Waiting(t)
    BY <1>0, <1>2, <1>8, <2>1 DEF Wake, TypeOK, TaskTypes
  <2> QED
    BY <1>8, <2>1, <2>2 DEF Waiting, Wake
<1>9. ASSUME NEW w \in Worker, TakePending(w) PROVE Waiting(t)'
  <2>1. Waiting(t)
    BY <1>2, <1>9 DEF TakePending
  <2>2. pTaskPool \in Pool /\ m_PendingList[pTaskPool] # <<>>
    BY <1>9, PoolAssumption DEF TakePending, pTaskPool
  <2>3. m_PendingList[pTaskPool] \in Seq(Task)
    BY <1>0, <2>2 DEF TypeOK, ListTypes
  <2>4. /\ m_PendingList'[pTaskPool] = PopFront(m_PendingList[pTaskPool])
        /\ \A q \in Pool : q # pTaskPool => m_PendingList'[q] = m_PendingList[q]
    BY <1>0, <1>9, <2>2 DEF TakePending, TypeOK, ListTypes
  <2>5. Members(m_PendingList[pTaskPool]) =
          Members(m_PendingList'[pTaskPool]) \cup {Head(m_PendingList[pTaskPool])}
    BY <2>2, <2>3, <2>4, PopsFront
  <2>6. /\ lpParam'[w] = Head(m_PendingList[pTaskPool])
        /\ hWork' = hWork \cup {w} /\ w \notin hWork
        /\ \A v \in hWork : lpParam'[v] = lpParam[v]
    BY <1>0, <1>9 DEF TakePending, TypeOK, WorkTypes, PoolInv, RestInv, AtRest
  <2> QED
    BY <1>9, <2>1, <2>4, <2>5, <2>6 DEF Waiting, TakePending
<1>10. ASSUME NEW w \in Worker,
              Finish(w) \/ SeeNoPending(w) \/ Park(w) \/ SeeExit(w) \/ Quit(w)
       PROVE  Waiting(t)'
  <2>1. UNCHANGED <<submitPc, call, m_PendingList, hWork, lpParam, stopPc, started, iRet>>
    BY <1>10 DEF Finish, SeeNoPending, Park, SeeExit, Quit
  <2> QED
    BY <1>2, <2>1, WaitingFrame
<1>11. CASE UNCHANGED vars
  BY <1>2, <1>11, WaitingFrame DEF vars
<1> QED
  BY <1>1, <1>3, <1>4, <1>5, <1>6, <1>7, <1>8, <1>9, <1>10, <1>11
     DEF Next, SubmitStep, WorkStep, Quiescent

\* Until some StopAll begins, no item that SubmitTaskItem took is dropped,
\* whatever the interleaving: it waits somewhere until it has run.
THEOREM NoTaskLostHolds == Spec => []NoTaskLost
<1>1. Init => NobodyLeaves
  BY DEF Init, NobodyLeaves
<1>2. Init => NoTaskLost
  BY DEF Init, NoTaskLost, Accepted
<1>3. PoolInv => TypeOK
  BY DEF PoolInv
<1> QED
  BY <1>1, <1>2, <1>3, NobodyLeavesStep, NoTaskLostStep, PoolCorrect, PTL DEF Spec

-----------------------------------------------------------------------------
(* What a stopped pool leaves behind.                                      *)

\* One pool at most is ever stopped.
OneStops == \A p, q \in Stoppable : p = q

\* Only threads of the pool that is stopped leave, only pTaskPool has its exit
\* events signalled, and while that is the pool which is stopped, by nobody
\* but the thread whose slot it is.
LeaveInv ==
  /\ \A p \in Pool : stopPc[p] \notin {"built", "running"} => p \in Stoppable
  /\ \A w \in Worker : w \in hExit \/ workPc[w] \in {"exit", "gone"} => Home[w] \in Stoppable
  /\ \A p \in Pool \ {pTaskPool} : m_vEvent[p] = {}
  /\ pTaskPool \in Stoppable =>
       \A i \in m_vEvent[pTaskPool] : workPc[Threads[pTaskPool][i]] = "gone"

\* A step that moves no pool, sets no exit event and lets nobody leave.
LEMMA LeaveFrame ==
  ASSUME LeaveInv, StoppedIsQuiet, TypeOK,
         stopPc' = stopPc, m_vEvent' = m_vEvent, hExit' \subseteq hExit,
         \A w \in Worker : workPc[w] = "gone" => workPc'[w] = "gone",
         \A w \in Worker : workPc'[w] \in {"exit", "gone"} =>
           workPc[w] \in {"exit", "gone"} \/ w \in hExit
  PROVE  LeaveInv' /\ StoppedIsQuiet'
<1>1. \A p \in Pool : \A i \in DOMAIN Threads[p] : Threads[p][i] \in Worker
  BY ThreadAssumption
<1>2. pTaskPool \in Pool /\ \A i \in m_vEvent[pTaskPool] : i \in DOMAIN Threads[pTaskPool]
  BY PoolAssumption DEF pTaskPool, TypeOK, StopTypes
<1>3. LeaveInv'
  BY <1>1, <1>2 DEF LeaveInv, pTaskPool
<1>4. \A p \in Pool : \A w \in Members(Threads[p]) : w \in Worker
  BY <1>1 DEF Members
<1> QED
  BY <1>3, <1>4 DEF StoppedIsQuiet

\* StopAll waits for as many exit events as the pool has threads; each of them
\* comes from a thread of the pool that has left.
LEMMA LeaveStep ==
  ASSUME OneStops, PoolInv, LeaveInv, StoppedIsQuiet, [Next]_vars
  PROVE  LeaveInv' /\ StoppedIsQuiet'
<1> USE DEF poolVars, stopVars, workVars, submitVars, taskVars
<1>0. TypeOK /\ pTaskPool \in Pool
  BY PoolAssumption DEF PoolInv, pTaskPool
<1>1. ASSUME NEW p \in Pool, PoolInit(p) \/ StopFlag(p) \/ ClearPending(p)
      PROVE  LeaveInv' /\ StoppedIsQuiet'
  <2>1. /\ UNCHANGED <<m_vEvent, hExit, workPc>>
        /\ stopPc' \in {[stopPc EXCEPT ![p] = "running"], [stopPc EXCEPT ![p] = "clear"],
                        [stopPc EXCEPT ![p] = "signal"]}
    BY <1>1 DEF PoolInit, StopFlag, ClearPending
  <2>2. stopPc'[p] \notin {"built", "running"} => p \in Stoppable
    BY <1>0, <1>1 DEF PoolInit, StopFlag, ClearPending, LeaveInv, TypeOK, StopTypes
  <2>3. \A q \in Pool : q # p => stopPc'[q] = stopPc[q]
    BY <1>0, <2>1 DEF TypeOK, StopTypes
  <2>4. stopPc'[p] # "stopped"
    BY <1>0, <2>1 DEF TypeOK, StopTypes
  <2>5. LeaveInv'
    BY <2>1, <2>2, <2>3 DEF LeaveInv, pTaskPool
  <2> QED
    BY <2>1, <2>3, <2>4, <2>5 DEF StoppedIsQuiet
<1>2. ASSUME NEW p \in Pool, SignalExit(p) PROVE LeaveInv' /\ StoppedIsQuiet'
  <2>1. /\ UNCHANGED <<m_vEvent, workPc>> /\ hExit' = hExit \cup Listed(p)
        /\ stopPc[p] = "signal" /\ stopPc' = [stopPc EXCEPT ![p] = "join"]
    BY <1>2 DEF SignalExit
  <2>2. p \in Stoppable
    BY <2>1 DEF LeaveInv
  <2>3. \A w \in Listed(p) : Home[w] \in Stoppable
    BY <2>2 DEF PoolInv, HomeInv
  <2>4. \A q \in Pool : /\ q # p => stopPc'[q] = stopPc[q]
                        /\ stopPc'[p] = "join"
    BY <1>0, <2>1 DEF TypeOK, StopTypes
  <2>5. LeaveInv'
    BY <2>1, <2>2, <2>3, <2>4 DEF LeaveInv, pTaskPool
  <2> QED
    BY <2>1, <2>4, <2>5 DEF StoppedIsQuiet
<1>3. ASSUME NEW p \in Pool, Join(p) PROVE LeaveInv' /\ StoppedIsQuiet'
  <2>1. /\ UNCHANGED <<m_vEvent, hExit, workPc>> /\ stopPc[p] = "join" /\ AllExited(p)
        /\ stopPc' = [stopPc EXCEPT ![p] = "stopped"]
    BY <1>3 DEF Join
  <2>2. p \in Stoppable
    BY <2>1 DEF LeaveInv
  <2>3. p = pTaskPool
    <3>1. 1 \in DOMAIN Threads[p]
      BY ThreadAssumption
    <3> QED
      BY <2>1, <3>1 DEF AllExited, LeaveInv
  <2>4. \A w \in Members(Threads[p]) : workPc[w] = "gone"
    BY <2>1, <2>2, <2>3 DEF AllExited, LeaveInv, Members
  <2>5. \A q \in Pool : q # p => stopPc'[q] = stopPc[q]
    BY <1>0, <2>1 DEF TypeOK, StopTypes
  <2>6. LeaveInv'
    BY <2>1, <2>2, <2>5 DEF LeaveInv, pTaskPool
  <2> QED
    BY <2>1, <2>4, <2>5, <2>6 DEF StoppedIsQuiet
<1>4. ASSUME NEW w \in Worker, Quit(w) PROVE LeaveInv' /\ StoppedIsQuiet'
  <2>1. /\ UNCHANGED <<stopPc, hExit>> /\ workPc[w] = "exit"
        /\ m_vEvent' = [m_vEvent EXCEPT ![pTaskPool] = @ \cup ExitSlot(w)]
        /\ workPc' = [workPc EXCEPT ![w] = "gone"]
    BY <1>4 DEF Quit
  <2>2. Home[w] \in Stoppable
    BY <2>1 DEF LeaveInv
  <2>3. \A v \in Worker : /\ workPc[v] = "gone" => workPc'[v] = "gone"
                          /\ workPc'[v] \in {"exit", "gone"} => workPc[v] \in {"exit", "gone"}
                          /\ workPc'[w] = "gone"
    BY <1>0, <2>1 DEF TypeOK, WorkTypes
  <2>4. \A p \in Pool : \A i \in DOMAIN Threads[p] : Threads[p][i] \in Worker
    BY ThreadAssumption
  <2>5. \A p \in Pool : p # pTaskPool => m_vEvent'[p] = m_vEvent[p]
    BY <1>0, <2>1 DEF TypeOK, StopTypes
  <2>6. m_vEvent'[pTaskPool] = m_vEvent[pTaskPool] \cup ExitSlot(w)
    BY <1>0, <2>1 DEF TypeOK, StopTypes
  <2>7. ASSUME pTaskPool \in Stoppable, NEW i \in m_vEvent'[pTaskPool]
        PROVE  workPc'[Threads[pTaskPool][i]] = "gone"
    <3>1. CASE i \in m_vEvent[pTaskPool]
      <4>1. i \in DOMAIN Threads[pTaskPool]
        BY <1>0, <3>1 DEF TypeOK, StopTypes
      <4>2. workPc[Threads[pTaskPool][i]] = "gone"
        BY <2>7, <3>1 DEF LeaveInv
      <4> QED
        BY <1>0, <2>3, <2>4, <4>1, <4>2
    <3>2. CASE i \in ExitSlot(w)
      <4>1. i = Slot[w] /\ Home[w] = pTaskPool
        BY <2>2, <2>7, <3>2 DEF ExitSlot, OneStops
      <4>2. Threads[pTaskPool][i] = w
        BY <4>1, ThreadAssumption
      <4> QED
        BY <2>3, <4>2
    <3> QED
      BY <2>6, <2>7, <3>1, <3>2
  <2>8. LeaveInv'
    BY <2>1, <2>2, <2>3, <2>5, <2>7 DEF LeaveInv, pTaskPool
  <2>9. \A p \in Pool : \A v \in Members(Threads[p]) : v \in Worker
    BY <2>4 DEF Members
  <2> QED
    BY <2>1, <2>3, <2>8, <2>9 DEF StoppedIsQuiet
<1>5. ASSUME NEW w \in Worker,
             Wake(w) \/ Finish(w) \/ TakePending(w) \/ SeeNoPending(w) \/ Park(w) \/ SeeExit(w)
      PROVE  LeaveInv' /\ StoppedIsQuiet'
  <2>1. stopPc' = stopPc /\ m_vEvent' = m_vEvent /\ hExit' \subseteq hExit
    BY <1>5 DEF Wake, Finish, TakePending, SeeNoPending, Park, SeeExit
  <2>2. PICK a : workPc' = [workPc EXCEPT ![w] = a] /\ (a = "exit" => w \in hExit) /\ a # "gone"
    BY <1>5 DEF Wake, Finish, TakePending, SeeNoPending, Park, SeeExit
  <2>3. workPc[w] # "gone"
    BY <1>5 DEF Wake, Finish, TakePending, SeeNoPending, Park, SeeExit
  <2>4. \A v \in Worker : /\ workPc[v] = "gone" => workPc'[v] = "gone"
                          /\ workPc'[v] \in {"exit", "gone"} =>
                               workPc[v] \in {"exit", "gone"} \/ v \in hExit
    BY <1>0, <2>2, <2>3 DEF TypeOK, WorkTypes
  <2> QED
    BY <1>0, <2>1, <2>4, LeaveFrame
<1>6. ASSUME UNCHANGED <<stopPc, m_vEvent, hExit, workPc>> PROVE LeaveInv' /\ StoppedIsQuiet'
  BY <1>0, <1>6, LeaveFrame
<1>7. ASSUME NEW s \in Submitter, NEW p \in Pool,
             \/ SubmitStep(s, p)
             \/ \E t \in Task, e \in EventUse : Submit(s, p, t, e)
      PROVE  LeaveInv' /\ StoppedIsQuiet'
  BY <1>6, <1>7 DEF SubmitStep, Submit, TakeIdle, MoveToBusy, SetWork, SeeNoIdle, Enqueue
<1>8. CASE UNCHANGED vars
  BY <1>6, <1>8 DEF vars
<1> QED
  BY <1>1, <1>2, <1>3, <1>4, <1>5, <1>7, <1>8 DEF Next, OwnerStep, WorkStep, Quiescent

\* When StopAll has returned, every thread of the pool has left: none runs an
\* item or touches a list afterwards.  With two pools that stop it is false, as
\* a thread of one signals the slot of a thread of the other.
THEOREM StoppedIsQuietHolds == ASSUME OneStops PROVE Spec => []StoppedIsQuiet
<1>1. Init => LeaveInv /\ StoppedIsQuiet
  BY PoolAssumption DEF Init, LeaveInv, StoppedIsQuiet, pTaskPool
<1>2. PoolInv /\ LeaveInv /\ StoppedIsQuiet /\ [Next]_vars => LeaveInv' /\ StoppedIsQuiet'
  BY LeaveStep
<1> QED
  BY <1>1, <1>2, PoolCorrect, PTL DEF Spec

-----------------------------------------------------------------------------
(* The order of the pending items.                                         *)

\* push_back puts nothing ahead of an item that is listed.
LEMMA PushedBehind ==
  ASSUME NEW S, NEW q \in Seq(S), NEW u \in S, NEW t \in Members(q), t # u
  PROVE  t \in Members(Append(q, u)) /\ Ahead(Append(q, u), t) \subseteq Ahead(q, t)
<1>1. t \in Members(Append(q, u))
  BY PushBack
<1>2. /\ Len(q) \in Nat /\ DOMAIN q = 1..Len(q) /\ DOMAIN Append(q, u) = 1..(Len(q) + 1)
      /\ \A i \in 1..Len(q) : Append(q, u)[i] = q[i]
      /\ Append(q, u)[Len(q) + 1] = u
  OBVIOUS
<1>3. ASSUME NEW j \in DOMAIN Append(q, u), NEW k \in DOMAIN Append(q, u), j < k,
             Append(q, u)[k] = t
      PROVE  j \in DOMAIN q /\ k \in DOMAIN q /\ q[k] = t /\ Append(q, u)[j] = q[j]
  <2>1. k # Len(q) + 1
    BY <1>2, <1>3
  <2> QED
    BY <1>2, <1>3, <2>1
<1> QED
  BY <1>1, <1>3 DEF Ahead

\* pop_front takes the item that has none ahead of it, and leaves the others in
\* their order.
LEMMA PoppedFirst ==
  ASSUME NEW S, NEW q \in Seq(S), q # <<>>, Distinct(q), NEW t \in Members(q)
  PROVE  \/ t = Head(q) /\ Ahead(q, t) = {}
         \/ t \in Members(PopFront(q)) /\ Ahead(PopFront(q), t) \subseteq Ahead(q, t)
<1>1. /\ Len(q) \in Nat /\ Len(q) > 0 /\ DOMAIN q = 1..Len(q) /\ Head(q) = q[1]
      /\ DOMAIN Tail(q) = 1..(Len(q) - 1)
      /\ \A i \in 1..(Len(q) - 1) : Tail(q)[i] = q[i + 1]
  OBVIOUS
<1>2. CASE t = Head(q)
  <2>1. \A k \in DOMAIN q : q[k] = t => k = 1
    BY <1>1, <1>2 DEF Distinct
  <2>2. ~\E j \in DOMAIN q : \E k \in DOMAIN q : j < k /\ q[k] = t
    BY <1>1, <2>1
  <2> QED
    BY <1>2, <2>2 DEF Ahead
<1>3. CASE t # Head(q)
  <2>1. t \in Members(PopFront(q))
    BY <1>3, PopsFront
  <2>2. ASSUME NEW j \in DOMAIN Tail(q), NEW k \in DOMAIN Tail(q), j < k, Tail(q)[k] = t
        PROVE  Tail(q)[j] \in Ahead(q, t)
    <3>1. j + 1 \in DOMAIN q /\ k + 1 \in DOMAIN q /\ j + 1 < k + 1 /\ q[k + 1] = t
          /\ Tail(q)[j] = q[j + 1]
      BY <1>1, <2>2
    <3> QED
      BY <3>1 DEF Ahead
  <2>3. Ahead(PopFront(q), t) \subseteq Ahead(q, t)
    BY <2>2 DEF Ahead, PopFront
  <2> QED
    BY <2>1, <2>3
<1> QED
  BY <1>2, <1>3

\* What a step may do to an item that waits in a pending list.
InOrder(p, t) ==
  \/ stopPc[p] = "clear"
  \/ t \in Members(m_PendingList'[p])
     /\ Ahead(m_PendingList'[p], t) \subseteq Ahead(m_PendingList[p], t)
  \/ Ahead(m_PendingList[p], t) = {} /\ \E w \in hWork' : lpParam'[w] = t

LEMMA OrderStep ==
  ASSUME PoolInv, [Next]_vars, NEW p \in Pool, NEW t \in Members(m_PendingList[p])
  PROVE  InOrder(p, t)
<1> USE DEF poolVars, stopVars, workVars, submitVars, taskVars
<1>0. m_PendingList \in [Pool -> Seq(Task)] /\ TypeOK
  BY DEF PoolInv, TypeOK, ListTypes
<1>1. CASE m_PendingList'[p] = m_PendingList[p]
  BY <1>1 DEF InOrder
<1>2. ASSUME NEW r \in Pool, ClearPending(r) PROVE InOrder(p, t)
  BY <1>0, <1>1, <1>2 DEF ClearPending, InOrder
<1>3. ASSUME NEW s \in Submitter, NEW r \in Pool, Enqueue(s, r) PROVE InOrder(p, t)
  <2>1. submitPc[s] = "queue" /\ call[s].task \in Task
        /\ m_PendingList' = [m_PendingList EXCEPT ![r] = Append(@, call[s].task)]
    BY <1>0, <1>3, CallTypes DEF Enqueue
  <2>2. t # call[s].task
    BY <2>1 DEF PoolInv, CallInv, PendingInv
  <2>3. CASE p = r
    <3>1. m_PendingList'[p] = Append(m_PendingList[p], call[s].task)
      BY <1>0, <2>1, <2>3
    <3>2. m_PendingList[p] \in Seq(Task)
      BY <1>0
    <3> QED
      BY <2>1, <2>2, <3>1, <3>2, PushedBehind DEF InOrder
  <2>4. CASE p # r
    BY <1>0, <1>1, <2>1, <2>4
  <2> QED
    BY <2>3, <2>4
<1>4. ASSUME NEW w \in Worker, TakePending(w) PROVE InOrder(p, t)
  <2>1. /\ m_PendingList[pTaskPool] # <<>> /\ w \in hWork'
        /\ lpParam' = [lpParam EXCEPT ![w] = Head(m_PendingList[pTaskPool])]
        /\ m_PendingList' = [m_PendingList EXCEPT ![pTaskPool] = PopFront(@)]
    BY <1>4 DEF TakePending
  <2>2. CASE p = pTaskPool
    <3>1. m_PendingList'[p] = PopFront(m_PendingList[p]) /\ lpParam'[w] = Head(m_PendingList[p])
      BY <1>0, <2>1, <2>2 DEF TypeOK, WorkTypes
    <3>2. m_PendingList[p] \in Seq(Task) /\ Distinct(m_PendingList[p])
      BY <1>0 DEF PoolInv, PendingInv
    <3>3. \/ t = Head(m_PendingList[p]) /\ Ahead(m_PendingList[p], t) = {}
          \/ /\ t \in Members(PopFront(m_PendingList[p]))
             /\ Ahead(PopFront(m_PendingList[p]), t) \subseteq Ahead(m_PendingList[p], t)
      BY <2>1, <2>2, <3>2, PoppedFirst
    <3> QED
      BY <2>1, <3>1, <3>3 DEF InOrder
  <2>3. CASE p # pTaskPool
    BY <1>0, <1>1, <2>1, <2>3
  <2> QED
    BY <2>2, <2>3
<1>5. CASE UNCHANGED m_PendingList
  BY <1>1, <1>5
<1>6. ASSUME NEW r \in Pool, OwnerStep(r) PROVE InOrder(p, t)
  BY <1>2, <1>5, <1>6 DEF OwnerStep, PoolInit, StopFlag, SignalExit, Join
<1>7. ASSUME NEW s \in Submitter, NEW r \in Pool,
             SubmitStep(s, r) \/ \E u \in Task, e \in EventUse : Submit(s, r, u, e)
      PROVE  InOrder(p, t)
  BY <1>3, <1>5, <1>7 DEF SubmitStep, Submit, TakeIdle, MoveToBusy, SetWork, SeeNoIdle
<1>8. ASSUME NEW w \in Worker, WorkStep(w) PROVE InOrder(p, t)
  BY <1>4, <1>5, <1>8 DEF WorkStep, Wake, Finish, SeeNoPending, Park, SeeExit, Quit
<1> QED
  BY <1>5, <1>6, <1>7, <1>8 DEF Next, Quiescent, vars

\* Nothing gets ahead of an item that waits, and an item leaves its list, StopAll
\* apart, as the first, to be run.
THEOREM QueueOrderHolds == Spec => QueueOrder
<1>1. PoolInv /\ [Next]_vars =>
        [\A p \in Pool : \A t \in Members(m_PendingList[p]) :
           \/ stopPc[p] = "clear"
           \/ t \in Members(m_PendingList'[p])
              /\ Ahead(m_PendingList'[p], t) \subseteq Ahead(m_PendingList[p], t)
           \/ Ahead(m_PendingList[p], t) = {} /\ \E w \in hWork' : lpParam'[w] = t]_vars
  BY OrderStep DEF InOrder
<1> QED
  BY <1>1, PoolCorrect, PTL DEF Spec, QueueOrder

-----------------------------------------------------------------------------
(* The pools implement WorkQueue.                                          *)

\* How far an item has got, and what a thread runs, as WorkQueue sees them.
Status(t) == IF t \in finished THEN "done"
             ELSE IF started[t] > 0 THEN "running" ELSE Answer(t)
Runs(w) == IF workPc[w] = "run" THEN lpParam[w] ELSE None

\* A step that changes neither is a stutter of WorkQueue.
LEMMA Stutter ==
  ASSUME \A t \in Task : Status(t)' = Status(t), \A w \in Worker : Runs(w)' = Runs(w)
  PROVE  UNCHANGED Queue!queueVars
BY DEF Queue!queueVars, Status, Runs

\* Steps of a submitter after its first read, and of an owner, are stutters.
LEMMA SubmitStutters ==
  ASSUME PoolInv, NEW s \in Submitter, NEW p \in Pool, SubmitStep(s, p)
  PROVE  UNCHANGED Queue!queueVars
<1>0. TypeOK
  BY DEF PoolInv
<1> USE DEF poolVars, stopVars, workVars, submitVars, taskVars
<1>1. UNCHANGED <<started, finished, workPc>>
  BY DEF SubmitStep, TakeIdle, MoveToBusy, SetWork, SeeNoIdle, Enqueue
<1>2. \A t \in Task : Answer(t)' = Answer(t)
  <2>1. iRet' = iRet \/ \E a \in {"direct", "queued"} :
          iRet' = [iRet EXCEPT ![call[s].task] = a]
    BY DEF SubmitStep, TakeIdle, MoveToBusy, SetWork, SeeNoIdle, Enqueue, Return
  <2>2. submitPc[s] # "out"
    BY DEF SubmitStep, TakeIdle, MoveToBusy, SetWork, SeeNoIdle, Enqueue, Lock
  <2>3. iRet[call[s].task] = "called"
    BY <2>2 DEF PoolInv, CallInv
  <2> QED
    BY <1>0, <2>1, <2>3 DEF Answer, TypeOK, TaskTypes
<1>3. \A w \in Worker : Runs(w)' = Runs(w)
  <2>1. CASE lpParam' = lpParam
    BY <1>1, <2>1 DEF Runs
  <2>2. CASE TakeIdle(s, p)
    <3> DEFINE w == Head(m_IdleThreadList[p])
    <3>1. w \in Members(m_IdleThreadList[p])
      BY <1>0, <2>2, PopsFront DEF TakeIdle, TypeOK, ListTypes
    <3>2. workPc[w] # "run"
      BY <3>1 DEF PoolInv, RestInv, AtRest
    <3>3. \A v \in Worker : v # w => lpParam'[v] = lpParam[v]
      BY <1>0, <2>2 DEF TakeIdle, TypeOK, WorkTypes
    <3> QED
      BY <1>1, <3>2, <3>3 DEF Runs
  <2> QED
    BY <2>1, <2>2 DEF SubmitStep, MoveToBusy, SetWork, SeeNoIdle, Enqueue
<1> QED
  BY <1>1, <1>2, <1>3, Stutter DEF Status

\* Taking a call in, or refusing it, is Accept or Refuse.
LEMMA SubmitAccepts ==
  ASSUME PoolInv, NEW s \in Submitter, NEW p \in Pool, NEW t \in Task, NEW e \in EventUse,
         Submit(s, p, t, e)
  PROVE  Queue!Accept(t) \/ Queue!Refuse(t)
<1>0. TypeOK
  BY DEF PoolInv
<1> USE DEF poolVars, stopVars, workVars, submitVars, taskVars
<1>1. iRet[t] = "fresh" /\ UNCHANGED <<started, finished, workPc, lpParam>>
  BY DEF Submit
<1>2. started[t] = 0 /\ t \notin finished
  BY <1>0, <1>1 DEF PoolInv, RanInv, RunInv, TypeOK, TaskTypes
<1>3. PICK a \in {"rejected", "called"} : iRet' = [iRet EXCEPT ![t] = a]
  BY DEF Submit
<1>4. \A u \in Task : iRet'[u] = IF u = t THEN a ELSE iRet[u]
  BY <1>0, <1>3 DEF TypeOK, TaskTypes
<1>5. Status(t) = "new" /\ Status(t)' = IF a = "rejected" THEN "refused" ELSE "accepted"
  BY <1>1, <1>2, <1>4 DEF Status, Answer
<1>6. \A u \in Task : u # t => Status(u)' = Status(u)
  BY <1>1, <1>4 DEF Status, Answer
<1>7. \A w \in Worker : Runs(w)' = Runs(w)
  BY <1>1 DEF Runs
<1> HIDE DEF Status, Runs
<1>8. [u \in Task |-> Status(u)]' = [[u \in Task |-> Status(u)] EXCEPT ![t] = Status(t)']
  BY <1>6
<1>9. [w \in Worker |-> Runs(w)]' = [w \in Worker |-> Runs(w)]
  BY <1>7
<1> QED
  BY <1>5, <1>8, <1>9 DEF Queue!Accept, Queue!Refuse, Status, Runs

\* A thread that wakes for its item is Start.
LEMMA WakeStarts ==
  ASSUME PoolInv, NEW w \in Worker, Wake(w)
  PROVE  \E t \in Task : Queue!Start(w, t)
<1>0. TypeOK
  BY DEF PoolInv
<1> USE DEF poolVars, stopVars, workVars, submitVars, taskVars
<1>t. PICK t \in Task : t = lpParam[w]
  BY <1>0 DEF Wake, TypeOK, WorkTypes
<1>1. w \in hWork /\ workPc[w] = "wait"
  BY <1>0 DEF Wake, TypeOK, WorkTypes
<1>2. started[t] = 0 /\ iRet[t] \in {"queued", "direct"}
  BY <1>t, <1>1 DEF PoolInv, SetInv
<1>3. t \notin finished
  BY <1>t, <1>2 DEF PoolInv, RunInv
<1>4. \A u \in Task : started'[u] = IF u = t THEN 1 ELSE started[u]
  BY <1>t, <1>0, <1>1, <1>2 DEF Wake, TypeOK, TaskTypes
<1>5. UNCHANGED <<finished, iRet, lpParam>>
  BY DEF Wake
<1>6. \A v \in Worker : workPc'[v] = IF v = w THEN "run" ELSE workPc[v]
  BY <1>0 DEF Wake, TypeOK, WorkTypes
<1>7. Status(t) = "accepted" /\ Status(t)' = "running"
  BY <1>t, <1>1, <1>2, <1>3, <1>4, <1>5 DEF Status, Answer
<1>8. \A u \in Task : u # t => Status(u)' = Status(u)
  BY <1>t, <1>4, <1>5 DEF Status, Answer
<1>9. Runs(w) = None /\ Runs(w)' = t /\ \A v \in Worker : v # w => Runs(v)' = Runs(v)
  BY <1>t, <1>1, <1>5, <1>6 DEF Runs
<1> HIDE DEF Status, Runs
<1>10. [u \in Task |-> Status(u)]' = [[u \in Task |-> Status(u)] EXCEPT ![t] = "running"]
  BY <1>t, <1>7, <1>8
<1>11. [v \in Worker |-> Runs(v)]' = [[v \in Worker |-> Runs(v)] EXCEPT ![w] = t]
  BY <1>9
<1> QED
  BY <1>t, <1>1, <1>7, <1>9, <1>10, <1>11 DEF Queue!Start, Status, Runs

\* A thread whose pWorkFun returns is End.
LEMMA FinishEnds ==
  ASSUME PoolInv, NEW w \in Worker, Finish(w)
  PROVE  Queue!End(w)
<1>0. TypeOK
  BY DEF PoolInv
<1> USE DEF poolVars, stopVars, workVars, submitVars, taskVars
<1>t. PICK t \in Task : t = lpParam[w]
  BY <1>0 DEF Finish, TypeOK, WorkTypes
<1>1. workPc[w] = "run" /\ t # None
  BY <1>t, PoolAssumption DEF Finish
<1>2. finished' = finished \cup {t} /\ UNCHANGED <<started, iRet, lpParam>>
  BY <1>t DEF Finish
<1>3. \A v \in Worker : workPc'[v] = IF v = w THEN "next" ELSE workPc[v]
  BY <1>0 DEF Finish, TypeOK, WorkTypes
<1>4. Status(t)' = "done" /\ \A u \in Task : u # t => Status(u)' = Status(u)
  BY <1>t, <1>2 DEF Status, Answer
<1>5. Runs(w) = t /\ Runs(w)' = None /\ \A v \in Worker : v # w => Runs(v)' = Runs(v)
  BY <1>t, <1>1, <1>2, <1>3 DEF Runs
<1> HIDE DEF Status, Runs
<1>6. [u \in Task |-> Status(u)]' = [[u \in Task |-> Status(u)] EXCEPT ![t] = "done"]
  BY <1>t, <1>4
<1>7. [v \in Worker |-> Runs(v)]' = [[v \in Worker |-> Runs(v)] EXCEPT ![w] = None]
  BY <1>t, <1>5
<1> QED
  BY <1>t, <1>1, <1>5, <1>6, <1>7 DEF Queue!End, Status, Runs

\* Every step of the pools is a step of WorkQueue or changes nothing it shows.
LEMMA QueueStep == PoolInv /\ [Next]_vars => [Queue!Next]_Queue!queueVars
<1> SUFFICES ASSUME PoolInv, [Next]_vars PROVE [Queue!Next]_Queue!queueVars
  OBVIOUS
<1> USE DEF poolVars, stopVars, workVars, submitVars, taskVars
<1>1. ASSUME NEW p \in Pool, OwnerStep(p) PROVE UNCHANGED Queue!queueVars
  <2>1. UNCHANGED <<started, finished, workPc, iRet, lpParam>>
    BY <1>1 DEF OwnerStep, PoolInit, StopFlag, ClearPending, SignalExit, Join
  <2> QED
    BY <2>1, Stutter DEF Status, Runs, Answer
<1>2. ASSUME NEW w \in Worker, SeeNoPending(w) \/ Park(w) \/ SeeExit(w) \/ Quit(w) \/ TakePending(w)
      PROVE  UNCHANGED Queue!queueVars
  <2>1. UNCHANGED <<started, finished, iRet>>
    BY <1>2 DEF SeeNoPending, Park, SeeExit, Quit, TakePending
  <2>2. /\ workPc[w] # "run" /\ workPc'[w] # "run"
        /\ \A v \in Worker : v # w => workPc'[v] = workPc[v] /\ lpParam'[v] = lpParam[v]
    BY <1>2 DEF SeeNoPending, Park, SeeExit, Quit, TakePending, PoolInv, TypeOK, WorkTypes
  <2>3. \A v \in Worker : Runs(v)' = Runs(v)
    BY <2>2 DEF Runs
  <2> QED
    BY <2>1, <2>3, Stutter DEF Status, Answer
<1>3. ASSUME UNCHANGED vars PROVE UNCHANGED Queue!queueVars
  BY <1>3, Stutter DEF vars, Status, Runs, Answer
<1>4. ASSUME NEW s \in Submitter, NEW p \in Pool, NEW t \in Task, NEW e \in EventUse,
             Submit(s, p, t, e)
      PROVE  Queue!Next
  BY <1>4, SubmitAccepts DEF Queue!Next
<1>5. ASSUME NEW w \in Worker, Wake(w) PROVE Queue!Next
  <2>1. PICK t \in Task : Queue!Start(w, t)
    BY <1>5, WakeStarts
  <2> QED
    BY <2>1 DEF Queue!Next
<1>6. ASSUME NEW w \in Worker, Finish(w) PROVE Queue!Next
  BY <1>6, FinishEnds DEF Queue!Next
<1>7. ASSUME NEW s \in Submitter, NEW p \in Pool, SubmitStep(s, p)
      PROVE  UNCHANGED Queue!queueVars
  BY <1>7, SubmitStutters
<1> QED
  BY <1>1, <1>2, <1>3, <1>4, <1>5, <1>6, <1>7 DEF Next, Quiescent, WorkStep

\* CTaskPool keeps the promise of WorkQueue: an item is refused, or accepted
\* and then run at most once, by one thread, which runs nothing else meanwhile.
THEOREM QueueRefined == Spec => QueueSpec
<1>1. Init => Queue!Init
  BY DEF Init, Queue!Init, Answer
<1> QED
  BY <1>1, QueueStep, PoolCorrect, PTL DEF Spec, QueueSpec, Queue!Spec

=============================================================================
