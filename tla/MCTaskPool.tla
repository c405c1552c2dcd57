----------------------------- MODULE MCTaskPool -----------------------------
(* Instances of TaskPool for TLC: one pool of two threads, and the two     *)
(* pools of the DBProvider process, whose ADO pool is built first.         *)
EXTENDS TaskPool, TLC

CONSTANTS adoPool, udtPool, w1, w2, w3

OneHome == [w \in {w1, w2} |-> adoPool]
OneSlot == (w1 :> 1) @@ (w2 :> 2)
OneThreads == adoPool :> <<w1, w2>>

\* Two threads for the ADO pool, one for the UDT pool.
TwoHome == (w1 :> adoPool) @@ (w2 :> adoPool) @@ (w3 :> udtPool)
TwoSlot == (w1 :> 1) @@ (w2 :> 2) @@ (w3 :> 1)
TwoThreads == (adoPool :> <<w1, w2>>) @@ (udtPool :> <<w3>>)
=============================================================================
