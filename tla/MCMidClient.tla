---------------------------- MODULE MCMidClient -----------------------------
(* Instances of MidClient for TLC.                                         *)
EXTENDS MidClient, TLC

CONSTANTS c1, c2, k1, k2, k3

\* The demo's two clients: one executes twice, the other makes a long update.
TwoClients == [k \in Pack |-> IF k = k2 THEN c2 ELSE c1]
LongUpdate == [k \in Pack |-> IF k = k2 THEN 2 ELSE 1]

\* The two executes are alike.
Executes == Permutations({k1, k3})
=============================================================================
