------------------------------ MODULE WorkQueue -----------------------------
(***************************************************************************)
(* What SubmitTaskItem promises its callers (common/TaskPool.h), with no   *)
(* lists, events or mutexes: an item is refused or accepted, an accepted   *)
(* item is run by one thread and run once, and a thread runs one item at a *)
(* time.  It does not promise that every accepted item runs: StopAll drops *)
(* the items that still wait.                                              *)
(***************************************************************************)
CONSTANTS Task, Worker, None

VARIABLES
  status,  \* per task: how far it has got
  runner   \* per thread: the task it is running, None if there is none

queueVars == <<status, runner>>

Init ==
  /\ status = [t \in Task |-> "new"]
  /\ runner = [w \in Worker |-> None]

Refuse(t) ==
  /\ status[t] = "new"
  /\ status' = [status EXCEPT ![t] = "refused"]
  /\ UNCHANGED runner

Accept(t) ==
  /\ status[t] = "new"
  /\ status' = [status EXCEPT ![t] = "accepted"]
  /\ UNCHANGED runner

Start(w, t) ==
  /\ status[t] = "accepted" /\ runner[w] = None
  /\ status' = [status EXCEPT ![t] = "running"]
  /\ runner' = [runner EXCEPT ![w] = t]

End(w) ==
  /\ runner[w] # None
  /\ status' = [status EXCEPT ![runner[w]] = "done"]
  /\ runner' = [runner EXCEPT ![w] = None]

Next ==
  \/ \E t \in Task : Refuse(t) \/ Accept(t) \/ \E w \in Worker : Start(w, t)
  \/ \E w \in Worker : End(w)

Spec == Init /\ [][Next]_queueVars
=============================================================================
