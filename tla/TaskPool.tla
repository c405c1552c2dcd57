------------------------------ MODULE TaskPool ------------------------------
(***************************************************************************)
(* CTaskPool (common/TaskPool.cpp): pools of worker threads that run the   *)
(* work items other threads submit.  Every critical section of the Pending *)
(* and Swap mutexes is one action; the Submit mutex, held across several   *)
(* steps, is a variable.  SubmitTaskItem reads m_bStop and the idle list   *)
(* with neither mutex, so those reads are steps of their own.              *)
(*                                                                         *)
(* WorkThread never uses the pool that created it: it goes through the     *)
(* global pTaskPool, which every constructor overwrites.  The DBProvider   *)
(* process builds two pools, so this module has a set of them and the      *)
(* constant LastBuilt is the one pTaskPool names.                          *)
(***************************************************************************)
EXTENDS Naturals, Sequences

CONSTANTS
  Pool,       \* the CTaskPool objects of the process
  LastBuilt,  \* the pool whose constructor ran last
  Stoppable,  \* the pools the program calls StopAll on
  Worker,     \* the WORKTHREADITEMs, one per worker thread
  Home,       \* the pool whose Init created a worker
  Slot,       \* its position in the exit-event array (igroup, idx)
  Threads,    \* the workers of a pool in creation order
  Submitter,  \* threads that call SubmitTaskItem, each owning one event
  Task,       \* work items; each is submitted at most once (bounds a run)
  EventUse,   \* the values "passes hUserEvent" may have: {FALSE} or BOOLEAN
  None

ASSUME PoolAssumption ==
  /\ LastBuilt \in Pool
  /\ Stoppable \subseteq Pool
  /\ EventUse \subseteq BOOLEAN
  /\ None \notin Task \cup Submitter \cup Worker \cup Pool

\* Init creates at least one thread per pool and numbers them consecutively.
ASSUME ThreadAssumption ==
  /\ Threads \in [Pool -> Seq(Worker)]
  /\ Home \in [Worker -> Pool]
  /\ Slot \in [Worker -> Nat]
  /\ \A p \in Pool : Len(Threads[p]) > 0
  /\ \A w \in Worker : /\ Slot[w] \in DOMAIN Threads[Home[w]]
                       /\ Threads[Home[w]][Slot[w]] = w
  /\ \A p \in Pool : \A i \in DOMAIN Threads[p] :
       Home[Threads[p][i]] = p /\ Slot[Threads[p][i]] = i

VARIABLES
  m_bStop, m_IdleThreadList, m_BusyThreadList, m_PendingList, m_mutexSubmit,
  m_vEvent,    \* per pool: the slots whose exit event is signalled
  stopPc,      \* per pool: how far Init and StopAll have got
  lpParam,     \* per worker: pWorkFun and lpParam, the item it was given
  hUserEvent,  \* per worker: whose event to signal, None for NULL
  hWork,       \* workers whose hEvents[0] (run) is signalled
  hExit,       \* workers whose hEvents[1] (exit) is signalled
  workPc,      \* per worker: where WorkThread is
  call,        \* per submitter: the arguments of the call in progress
  target,      \* per submitter: pWorkItem, the idle worker it took
  submitPc,    \* per submitter: where SubmitTaskItem is
  userEvent,   \* submitters whose own event is signalled
  awaits,      \* per submitter: the item its event is to announce (history)
  iRet,        \* per task: what SubmitTaskItem answers
  started,     \* per task: how often pWorkFun was entered with it (history)
  finished,    \* tasks whose pWorkFun returned (history)
  dangling     \* a submitter has used a WORKTHREADITEM after its delete

poolVars   == <<m_bStop, m_IdleThreadList, m_BusyThreadList, m_PendingList>>
stopVars   == <<m_vEvent, stopPc>>
workVars   == <<lpParam, hUserEvent, hWork, hExit, workPc>>
submitVars == <<m_mutexSubmit, call, target, submitPc>>
taskVars   == <<userEvent, awaits, iRet, started, finished, dangling>>
vars == <<poolVars, stopVars, workVars, submitVars, taskVars>>

Members(q) == {q[i] : i \in DOMAIN q}
pTaskPool == LastBuilt
NoCall == [pool |-> None, task |-> None, event |-> FALSE]
Call == [pool : Pool, task : Task, event : BOOLEAN]

\* Faulty variants of a definition stand before it and are named after it:
\* each is a plausible slip that some property below must notice.
PopFront_Kept(list) == list
PopFront_Back(list) == SubSeq(list, 1, Len(list) - 1)
PopFront(list) == Tail(list)
Erase_Kept(list, w) == list
Erase(list, w) == list \ {w}

\* delete pWorkItem is the last thing a worker thread does.
Deleted(w) == workPc[w] = "gone"

Init ==
  /\ m_bStop = [p \in Pool |-> TRUE]
  /\ m_IdleThreadList = [p \in Pool |-> <<>>]
  /\ m_BusyThreadList = [p \in Pool |-> {}]
  /\ m_PendingList = [p \in Pool |-> <<>>]
  /\ m_mutexSubmit = [p \in Pool |-> None]
  /\ m_vEvent = [p \in Pool |-> {}]
  /\ stopPc = [p \in Pool |-> "built"]
  /\ lpParam = [w \in Worker |-> None]
  /\ hUserEvent = [w \in Worker |-> None]
  /\ hWork = {} /\ hExit = {}
  /\ workPc = [w \in Worker |-> "wait"]
  /\ call = [s \in Submitter |-> NoCall]
  /\ target = [s \in Submitter |-> None]
  /\ submitPc = [s \in Submitter |-> "out"]
  /\ userEvent = {}
  /\ awaits = [s \in Submitter |-> None]
  /\ iRet = [t \in Task |-> "fresh"]
  /\ started = [t \in Task |-> 0]
  /\ finished = {}
  /\ dangling = FALSE

-----------------------------------------------------------------------------
(* Init and StopAll, called by the thread that owns the pool.              *)

\* The new threads only wait until m_bStop is cleared, so Init is one step.
PoolInit(p) ==
  /\ stopPc[p] = "built"
  /\ m_IdleThreadList' = [m_IdleThreadList EXCEPT ![p] = Threads[p]]
  /\ m_bStop' = [m_bStop EXCEPT ![p] = FALSE]
  /\ stopPc' = [stopPc EXCEPT ![p] = "running"]
  /\ UNCHANGED <<m_BusyThreadList, m_PendingList, m_vEvent, workVars,
                 submitVars, taskVars>>

StopFlag(p) ==
  /\ stopPc[p] = "running" /\ p \in Stoppable
  /\ m_bStop' = [m_bStop EXCEPT ![p] = TRUE]
  /\ stopPc' = [stopPc EXCEPT ![p] = "clear"]
  /\ UNCHANGED <<m_IdleThreadList, m_BusyThreadList, m_PendingList, m_vEvent,
                 workVars, submitVars, taskVars>>

ClearPending(p) ==
  /\ stopPc[p] = "clear"
  /\ m_PendingList' = [m_PendingList EXCEPT ![p] = <<>>]
  /\ stopPc' = [stopPc EXCEPT ![p] = "signal"]
  /\ UNCHANGED <<m_bStop, m_IdleThreadList, m_BusyThreadList, m_vEvent,
                 workVars, submitVars, taskVars>>

Listed_IdleOnly(p) == Members(m_IdleThreadList[p])

\* Under the Swap mutex: hEvents[1] of every listed thread.
Listed(p) == Members(m_IdleThreadList[p]) \cup m_BusyThreadList[p]

SignalExit(p) ==
  /\ stopPc[p] = "signal"
  /\ hExit' = hExit \cup Listed(p)
  /\ stopPc' = [stopPc EXCEPT ![p] = "join"]
  /\ UNCHANGED <<poolVars, m_vEvent, lpParam, hUserEvent, hWork, workPc,
                 submitVars, taskVars>>

AllExited_AnyOne(p) == m_vEvent[p] # {}
AllExited(p) == m_vEvent[p] = DOMAIN Threads[p]

\* Wait for every exit event, then close them and clear the lists.
Join(p) ==
  /\ stopPc[p] = "join"
  /\ AllExited(p)
  /\ m_IdleThreadList' = [m_IdleThreadList EXCEPT ![p] = <<>>]
  /\ m_BusyThreadList' = [m_BusyThreadList EXCEPT ![p] = {}]
  /\ stopPc' = [stopPc EXCEPT ![p] = "stopped"]
  /\ UNCHANGED <<m_bStop, m_PendingList, m_vEvent, workVars, submitVars,
                 taskVars>>

-----------------------------------------------------------------------------
(* SubmitTaskItem.                                                         *)

\* A caller resets the event it passes, and passes it for one item at a time.
Submit(s, p, t, e) ==
  /\ submitPc[s] = "out" /\ iRet[t] = "fresh"
  /\ e => awaits[s] \in finished \cup {None}
  /\ userEvent' = IF e THEN userEvent \ {s} ELSE userEvent
  /\ \/ /\ m_bStop[p]
        /\ iRet' = [iRet EXCEPT ![t] = "rejected"]
        /\ UNCHANGED <<call, submitPc, awaits>>
     \/ /\ ~m_bStop[p]
        /\ call' = [call EXCEPT ![s] = [pool |-> p, task |-> t, event |-> e]]
        /\ submitPc' = [submitPc EXCEPT ![s] = "lock"]
        /\ iRet' = [iRet EXCEPT ![t] = "called"]
        /\ awaits' = IF e THEN [awaits EXCEPT ![s] = t] ELSE awaits
  /\ UNCHANGED <<poolVars, stopVars, workVars, m_mutexSubmit, target, started,
                 finished, dangling>>

Lock_Unguarded(s, p) ==
  /\ submitPc[s] = "lock" /\ p = call[s].pool
  /\ m_mutexSubmit' = [m_mutexSubmit EXCEPT ![p] = s]

Lock(s, p) ==
  /\ submitPc[s] = "lock" /\ p = call[s].pool
  /\ m_mutexSubmit[p] = None
  /\ m_mutexSubmit' = [m_mutexSubmit EXCEPT ![p] = s]

\* An idle thread is seen: fill its item.  A deleted item takes no effect.
TakeIdle(s, p) ==
  /\ Lock(s, p)
  /\ m_IdleThreadList[p] # <<>>
  /\ LET w == Head(m_IdleThreadList[p]) IN
     /\ target' = [target EXCEPT ![s] = w]
     /\ dangling' = (dangling \/ Deleted(w))
     /\ lpParam' = [lpParam EXCEPT ![w] = call[s].task]
     /\ hUserEvent' = [hUserEvent EXCEPT ![w] =
                         IF call[s].event THEN s ELSE None]
  /\ userEvent' = IF call[s].event THEN userEvent \ {s} ELSE userEvent
  /\ submitPc' = [submitPc EXCEPT ![s] = "swap"]
  /\ UNCHANGED <<poolVars, stopVars, hWork, hExit, workPc, call, awaits, iRet,
                 started, finished>>

\* pop_front of a list that StopAll cleared meanwhile is undefined: this
\* submitter faults there, still holding the mutex, and goes no further.
MoveToBusy(s, p) ==
  /\ submitPc[s] = "swap" /\ p = call[s].pool
  /\ \/ /\ m_IdleThreadList[p] # <<>>
        /\ m_IdleThreadList' = [m_IdleThreadList EXCEPT ![p] = PopFront(@)]
        /\ m_BusyThreadList' = [m_BusyThreadList EXCEPT ![p] = @ \cup {target[s]}]
        /\ submitPc' = [submitPc EXCEPT ![s] = "set"]
     \/ /\ m_IdleThreadList[p] = <<>>
        /\ submitPc' = [submitPc EXCEPT ![s] = "crashed"]
        /\ UNCHANGED <<m_IdleThreadList, m_BusyThreadList>>
  /\ UNCHANGED <<m_bStop, m_PendingList, stopVars, workVars, m_mutexSubmit,
                 call, target, taskVars>>

\* Leave SubmitTaskItem: release the Submit mutex and return.
Return(s, p, answer) ==
  /\ m_mutexSubmit' = [m_mutexSubmit EXCEPT ![p] = None]
  /\ iRet' = [iRet EXCEPT ![call[s].task] = answer]
  /\ submitPc' = [submitPc EXCEPT ![s] = "out"]
  /\ call' = [call EXCEPT ![s] = NoCall]
  /\ target' = [target EXCEPT ![s] = None]

SetWork(s, p) ==
  /\ submitPc[s] = "set" /\ p = call[s].pool
  /\ hWork' = IF Deleted(target[s]) THEN hWork ELSE hWork \cup {target[s]}
  /\ dangling' = (dangling \/ Deleted(target[s]))
  /\ Return(s, p, "direct")
  /\ UNCHANGED <<poolVars, stopVars, lpParam, hUserEvent, hExit, workPc,
                 userEvent, awaits, started, finished>>

\* No idle thread is seen: decide to queue, then queue without the event.
SeeNoIdle(s, p) ==
  /\ Lock(s, p)
  /\ m_IdleThreadList[p] = <<>>
  /\ submitPc' = [submitPc EXCEPT ![s] = "queue"]
  /\ UNCHANGED <<poolVars, stopVars, workVars, call, target, taskVars>>

Enqueue(s, p) ==
  /\ submitPc[s] = "queue" /\ p = call[s].pool
  /\ m_PendingList' = [m_PendingList EXCEPT ![p] = Append(@, call[s].task)]
  /\ Return(s, p, "queued")
  /\ UNCHANGED <<m_bStop, m_IdleThreadList, m_BusyThreadList, stopVars,
                 workVars, userEvent, awaits, started, finished, dangling>>

-----------------------------------------------------------------------------
(* WorkThread.  When both events are signalled the wait returns index 0.   *)

Wake_NoReset(w) ==
  /\ workPc[w] = "wait" /\ w \in hWork
  /\ workPc' = [workPc EXCEPT ![w] = "run"]
  /\ started' = [started EXCEPT ![lpParam[w]] = @ + 1]
  /\ UNCHANGED <<poolVars, stopVars, lpParam, hUserEvent, hWork, hExit,
                 submitVars, userEvent, awaits, iRet, finished, dangling>>

Wake(w) ==
  /\ workPc[w] = "wait" /\ w \in hWork
  /\ hWork' = hWork \ {w}
  /\ workPc' = [workPc EXCEPT ![w] = "run"]
  /\ started' = [started EXCEPT ![lpParam[w]] = @ + 1]
  /\ UNCHANGED <<poolVars, stopVars, lpParam, hUserEvent, hExit, submitVars,
                 userEvent, awaits, iRet, finished, dangling>>

\* pWorkFun returns; the event in the item, if any, is signalled.
Finish(w) ==
  /\ workPc[w] = "run"
  /\ finished' = finished \cup {lpParam[w]}
  /\ userEvent' = userEvent \cup ({hUserEvent[w]} \ {None})
  /\ workPc' = [workPc EXCEPT ![w] = "next"]
  /\ UNCHANGED <<poolVars, stopVars, lpParam, hUserEvent, hWork, hExit,
                 submitVars, awaits, iRet, started, dangling>>

\* The next item goes into lpParam; hUserEvent keeps its old value.
TakePending(w) ==
  /\ workPc[w] = "next"
  /\ m_PendingList[pTaskPool] # <<>>
  /\ lpParam' = [lpParam EXCEPT ![w] = Head(m_PendingList[pTaskPool])]
  /\ m_PendingList' = [m_PendingList EXCEPT ![pTaskPool] = PopFront(@)]
  /\ hWork' = hWork \cup {w}
  /\ workPc' = [workPc EXCEPT ![w] = "wait"]
  /\ UNCHANGED <<m_bStop, m_IdleThreadList, m_BusyThreadList, stopVars,
                 hUserEvent, hExit, submitVars, taskVars>>

SeeNoPending_Unchecked(w) ==
  /\ workPc[w] = "next"
  /\ workPc' = [workPc EXCEPT ![w] = "park"]
  /\ UNCHANGED <<poolVars, stopVars, lpParam, hUserEvent, hWork, hExit,
                 submitVars, taskVars>>

SeeNoPending_NoPark(w) ==
  /\ workPc[w] = "next"
  /\ m_PendingList[pTaskPool] = <<>>
  /\ workPc' = [workPc EXCEPT ![w] = "wait"]
  /\ UNCHANGED <<poolVars, stopVars, lpParam, hUserEvent, hWork, hExit,
                 submitVars, taskVars>>

SeeNoPending(w) ==
  /\ workPc[w] = "next"
  /\ m_PendingList[pTaskPool] = <<>>
  /\ workPc' = [workPc EXCEPT ![w] = "park"]
  /\ UNCHANGED <<poolVars, stopVars, lpParam, hUserEvent, hWork, hExit,
                 submitVars, taskVars>>

\* Under the Swap mutex: busy to idle, if the thread is on pTaskPool's list.
Park(w) ==
  /\ workPc[w] = "park"
  /\ IF w \in m_BusyThreadList[pTaskPool]
     THEN /\ m_BusyThreadList' = [m_BusyThreadList EXCEPT ![pTaskPool] = Erase(@, w)]
          /\ m_IdleThreadList' = [m_IdleThreadList EXCEPT ![pTaskPool] = Append(@, w)]
     ELSE UNCHANGED <<m_BusyThreadList, m_IdleThreadList>>
  /\ workPc' = [workPc EXCEPT ![w] = "wait"]
  /\ UNCHANGED <<m_bStop, m_PendingList, stopVars, lpParam, hUserEvent, hWork,
                 hExit, submitVars, taskVars>>

SeeExit(w) ==
  /\ workPc[w] = "wait" /\ w \notin hWork /\ w \in hExit
  /\ hExit' = hExit \ {w}
  /\ workPc' = [workPc EXCEPT ![w] = "exit"]
  /\ UNCHANGED <<poolVars, stopVars, lpParam, hUserEvent, hWork, submitVars,
                 taskVars>>

ExitSlot_OffByOne(w) == {Slot[w] + 1}

\* A slot pTaskPool never filled is a NULL handle: SetEvent does nothing.
ExitSlot(w) == {Slot[w]} \cap DOMAIN Threads[pTaskPool]

\* pClearFun, SetEvent on pTaskPool's array, delete pWorkItem.
Quit(w) ==
  /\ workPc[w] = "exit"
  /\ m_vEvent' = [m_vEvent EXCEPT ![pTaskPool] = @ \cup ExitSlot(w)]
  /\ workPc' = [workPc EXCEPT ![w] = "gone"]
  /\ UNCHANGED <<poolVars, stopPc, lpParam, hUserEvent, hWork, hExit,
                 submitVars, taskVars>>

-----------------------------------------------------------------------------
OwnerStep(p) ==
  PoolInit(p) \/ StopFlag(p) \/ ClearPending(p) \/ SignalExit(p) \/ Join(p)

SubmitStep(s, p) ==
  \/ TakeIdle(s, p) \/ MoveToBusy(s, p) \/ SetWork(s, p)
  \/ SeeNoIdle(s, p) \/ Enqueue(s, p)

WorkStep(w) ==
  \/ Wake(w) \/ Finish(w) \/ TakePending(w) \/ SeeNoPending(w) \/ Park(w)
  \/ SeeExit(w) \/ Quit(w)

Faulted == \E s \in Submitter : submitPc[s] = "crashed"

\* Nothing is left to do: the bounded set of work items has been submitted.
Quiescent ==
  /\ Faulted \/ \A t \in Task : iRet[t] # "fresh"
  /\ \A s \in Submitter : \/ submitPc[s] \in {"out", "crashed"}
                          \/ submitPc[s] = "lock" /\ Faulted
  /\ \A w \in Worker : \/ workPc[w] = "wait" /\ w \notin hWork \cup hExit
                       \/ Deleted(w)
  /\ \A p \in Pool : stopPc[p] \in {"running", "stopped"}
  /\ UNCHANGED vars

Next ==
  \/ \E p \in Pool : OwnerStep(p)
  \/ \E s \in Submitter, p \in Pool :
       \/ \E t \in Task, e \in EventUse : Submit(s, p, t, e)
       \/ SubmitStep(s, p)
  \/ \E w \in Worker : WorkStep(w)
  \/ Quiescent

Spec == Init /\ [][Next]_vars

\* Every thread keeps running and every pWorkFun returns.  Nobody is obliged
\* to call SubmitTaskItem, Init or StopAll; who has begun goes on.
Fairness ==
  /\ \A w \in Worker : WF_vars(WorkStep(w))
  /\ \A s \in Submitter : WF_vars(\E p \in Pool : SubmitStep(s, p))
  /\ \A p \in Pool : WF_vars(ClearPending(p) \/ SignalExit(p) \/ Join(p))

FairSpec == Spec /\ Fairness

-----------------------------------------------------------------------------
(* Properties.                                                             *)

ListTypes ==
  /\ m_bStop \in [Pool -> BOOLEAN]
  /\ m_IdleThreadList \in [Pool -> Seq(Worker)]
  /\ m_BusyThreadList \in [Pool -> SUBSET Worker]
  /\ m_PendingList \in [Pool -> Seq(Task)]

StopTypes ==
  /\ m_vEvent \in [Pool -> SUBSET Nat]
  /\ \A p \in Pool : m_vEvent[p] \subseteq DOMAIN Threads[p]
  /\ stopPc \in [Pool -> {"built", "running", "clear", "signal", "join", "stopped"}]

WorkTypes ==
  /\ lpParam \in [Worker -> Task \cup {None}]
  /\ hUserEvent \in [Worker -> Submitter \cup {None}]
  /\ hWork \subseteq Worker /\ hExit \subseteq Worker
  /\ workPc \in [Worker -> {"wait", "run", "next", "park", "exit", "gone"}]
  /\ \A w \in Worker : w \in hWork \/ workPc[w] = "run" => lpParam[w] \in Task

SubmitTypes ==
  /\ m_mutexSubmit \in [Pool -> Submitter \cup {None}]
  /\ call \in [Submitter -> Call \cup {NoCall}]
  /\ target \in [Submitter -> Worker \cup {None}]
  /\ submitPc \in [Submitter -> {"out", "lock", "swap", "set", "queue", "crashed"}]
  /\ \A s \in Submitter :
       /\ submitPc[s] # "out" => call[s] \in Call
       /\ submitPc[s] \in {"swap", "set"} =>
            target[s] \in Worker /\ lpParam[target[s]] \in Task

TaskTypes ==
  /\ userEvent \subseteq Submitter
  /\ awaits \in [Submitter -> Task \cup {None}]
  /\ iRet \in [Task -> {"fresh", "called", "rejected", "queued", "direct"}]
  /\ started \in [Task -> Nat]
  /\ finished \subseteq Task
  /\ dangling \in BOOLEAN

\* Every variable keeps its type: lists name threads and tasks that exist,
\* an exit event is signalled only in a slot Init filled, and a submitter
\* has its arguments while it is inside SubmitTaskItem.
TypeOK == ListTypes /\ StopTypes /\ WorkTypes /\ SubmitTypes /\ TaskTypes

\* A work item is run at most once, whatever the interleaving of submitters,
\* workers, pools and StopAll.
AtMostOnce == \A t \in Task : started[t] <= 1

\* The list handling under Swap keeps every thread of a running pool on
\* exactly one of its two lists, so StopAll can find it.
Distinct(q) == \A i, j \in DOMAIN q : q[i] = q[j] => i = j

OnOneList ==
  \A p \in Pool :
    /\ Distinct(m_IdleThreadList[p])
    /\ Members(m_IdleThreadList[p]) \cap m_BusyThreadList[p] = {}
    /\ stopPc[p] \notin {"built", "stopped"} => Listed(p) = Members(Threads[p])

\* A listed idle thread has nothing to run, and a submitter that took one
\* without the Swap mutex still finds it at the head of the list when it
\* pops: filling its item overwrites no other work.
IdleThreadsRest ==
  /\ \A p \in Pool : \A w \in Members(m_IdleThreadList[p]) :
       workPc[w] \in {"wait", "exit", "gone"} /\ w \notin hWork
  /\ \A s \in Submitter : \A p \in Pool :
       submitPc[s] = "swap" /\ p = call[s].pool /\ stopPc[p] # "stopped" =>
         m_IdleThreadList[p] # <<>> /\ Head(m_IdleThreadList[p]) = target[s]

\* Until some pool is being stopped, an item that SubmitTaskItem took is in a
\* call in progress, in a pending list, or set to run, until it runs.
Waiting(t) ==
  \/ \E s \in Submitter : submitPc[s] # "out" /\ call[s].task = t
  \/ \E p \in Pool : t \in Members(m_PendingList[p])
  \/ \E w \in hWork : lpParam[w] = t

Accepted(t) == iRet[t] \in {"called", "queued", "direct"}
NotStopping == \A p \in Pool : stopPc[p] \in {"built", "running"}

NoTaskLost ==
  NotStopping => \A t \in Task : Accepted(t) /\ started[t] = 0 => Waiting(t)

-----------------------------------------------------------------------------
(* The inductive invariant behind the four invariants above: who holds     *)
(* what at each point of SubmitTaskItem and WorkThread.                    *)

AtRest(w) == workPc[w] \in {"wait", "exit", "gone"}

\* A call past its first read holds the Submit mutex of its pool.
Inside(s) == submitPc[s] \in {"swap", "set", "queue", "crashed"}

MutexInv == \A s \in Submitter : Inside(s) => m_mutexSubmit[call[s].pool] = s

\* A list names threads of its own pool only.
HomeInv == \A p \in Pool : \A w \in Listed(p) : Home[w] = p

\* Before Init and after StopAll the lists are empty; before Init no call gets
\* past m_bStop and no thread of the pool has anything to run.
EmptyInv ==
  \A p \in Pool : stopPc[p] \in {"built", "stopped"} =>
    m_IdleThreadList[p] = <<>> /\ m_BusyThreadList[p] = {}

BuiltInv ==
  \A p \in Pool : stopPc[p] = "built" =>
    /\ m_bStop[p]
    /\ \A s \in Submitter : submitPc[s] # "out" => call[s].pool # p
    /\ \A w \in Worker : Home[w] = p => AtRest(w) /\ w \notin hWork

\* A thread is at rest on the idle list, and whenever its run event is set.
RestInv ==
  /\ \A p \in Pool : \A w \in Members(m_IdleThreadList[p]) : AtRest(w) /\ w \notin hWork
  /\ \A w \in hWork : AtRest(w)

\* The thread a submitter has in hand rests with that submitter's item in
\* it.  It heads the idle list until it is moved, then is on it no more.
InHand(s) ==
  LET w == target[s] IN
  /\ AtRest(w) /\ w \notin hWork
  /\ Home[w] = call[s].pool
  /\ lpParam[w] = call[s].task

HandInv == \A s \in Submitter : submitPc[s] \in {"swap", "set"} => InHand(s)

FrontInv ==
  \A s \in Submitter :
    LET list == m_IdleThreadList[call[s].pool] IN
    /\ submitPc[s] = "swap" =>
         /\ list # <<>> => Head(list) = target[s]
         /\ stopPc[call[s].pool] # "stopped" => list # <<>>
    /\ submitPc[s] = "set" => target[s] \notin Members(list)

\* An item that has not run is in one place only: with one submitter, in
\* one position of one pending list, or set to run in one thread.
CallInv ==
  /\ \A s \in Submitter : submitPc[s] # "out" => iRet[call[s].task] = "called"
  /\ \A r, s \in Submitter :
       submitPc[r] # "out" /\ submitPc[s] # "out" /\ call[r].task = call[s].task => r = s

PendingInv ==
  /\ \A p \in Pool : Distinct(m_PendingList[p])
  /\ \A p, q \in Pool : p # q => Members(m_PendingList[p]) \cap Members(m_PendingList[q]) = {}
  /\ \A p \in Pool : \A t \in Members(m_PendingList[p]) : iRet[t] = "queued" /\ started[t] = 0

SetInv ==
  /\ \A w \in hWork : iRet[lpParam[w]] \in {"queued", "direct"} /\ started[lpParam[w]] = 0
  /\ \A w \in hWork : \A p \in Pool : lpParam[w] \notin Members(m_PendingList[p])
  /\ \A v, w \in hWork : lpParam[v] = lpParam[w] => v = w

RanInv == \A t \in Task : started[t] > 0 => iRet[t] \in {"queued", "direct"}

\* Threads run different items, none of them finished.
RunInv ==
  /\ \A w \in Worker : workPc[w] = "run" =>
       started[lpParam[w]] > 0 /\ lpParam[w] \notin finished
  /\ \A v, w \in Worker : workPc[v] = "run" /\ workPc[w] = "run" /\ lpParam[v] = lpParam[w]
       => v = w
  /\ \A t \in finished : started[t] > 0

PoolInv ==
  /\ TypeOK /\ MutexInv /\ HomeInv /\ EmptyInv /\ BuiltInv /\ OnOneList
  /\ RestInv /\ HandInv /\ FrontInv
  /\ CallInv /\ PendingInv /\ SetInv /\ RanInv /\ RunInv /\ AtMostOnce

\* When StopAll has returned, no thread of the pool is left, so none runs a
\* work item or touches a list any more.
StoppedIsQuiet ==
  \A p \in Pool : stopPc[p] = "stopped" =>
    \A w \in Members(Threads[p]) : workPc[w] = "gone"

\* Pending items are not reordered: nothing gets ahead of an item that waits,
\* and an item leaves, StopAll apart, when none is ahead of it and it is set
\* to run.
Ahead(q, t) == {q[i] : i \in {j \in DOMAIN q : \E k \in DOMAIN q : j < k /\ q[k] = t}}

QueueOrder ==
  [][\A p \in Pool : \A t \in Members(m_PendingList[p]) :
       \/ stopPc[p] = "clear"
       \/ t \in Members(m_PendingList'[p])
          /\ Ahead(m_PendingList'[p], t) \subseteq Ahead(m_PendingList[p], t)
       \/ Ahead(m_PendingList[p], t) = {} /\ \E w \in hWork' : lpParam'[w] = t]_vars

\* The pools implement WorkQueue: every step is one of its steps or changes
\* nothing a caller of SubmitTaskItem could tell.
Answer(t) ==
  IF iRet[t] = "fresh" THEN "new"
  ELSE IF iRet[t] = "rejected" THEN "refused" ELSE "accepted"

Queue == INSTANCE WorkQueue WITH
  status <- [t \in Task |-> IF t \in finished THEN "done"
                            ELSE IF started[t] > 0 THEN "running"
                            ELSE Answer(t)],
  runner <- [w \in Worker |-> IF workPc[w] = "run" THEN lpParam[w] ELSE None]

QueueSpec == Queue!Spec

-----------------------------------------------------------------------------
(* Liveness, under FairSpec.                                               *)

\* StopAll returns once it is called (the thread leaves its wait for the
\* exit events).
StopReturns ==
  \A p \in Pool : stopPc[p] = "clear" ~> stopPc[p] = "stopped"

\* An item given to an idle thread is run, unless its pool is being stopped.
DirectRuns ==
  \A t \in Task : iRet[t] = "direct" ~> started[t] > 0 \/ ~NotStopping

\* A thread put on the busy list comes back to the idle list when it has
\* done its work, unless its pool is being stopped.
BusyReturns ==
  \A p \in Pool : \A w \in Worker :
    w \in m_BusyThreadList[p] ~> w \in Members(m_IdleThreadList[p]) \/ ~NotStopping

\* A thread that is running takes items until the pending list is empty: the
\* items that wait while some thread works are not left behind.
Queued(t) == t \in Members(m_PendingList[pTaskPool])

QueueDrains ==
  \A t \in Task :
    (Queued(t) /\ \E w \in Worker : workPc[w] = "run") ~> ~Queued(t)

-----------------------------------------------------------------------------
(* What comments of the code say and the code does not keep.               *)

\* TaskPool.cpp:162 takes the next pending item "to go on": a queued item is
\* not left in the list while every thread is idle and nobody is submitting.
NoStrandedItem ==
  ~ /\ \E p \in Pool : m_PendingList[p] # <<>> /\ stopPc[p] = "running"
    /\ \A w \in Worker : workPc[w] = "wait" /\ w \notin hWork
    /\ \A s \in Submitter : submitPc[s] = "out"
=============================================================================
