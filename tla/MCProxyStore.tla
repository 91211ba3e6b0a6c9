---------------------------- MODULE MCProxyStore ----------------------------
EXTENDS ProxyStore, TLC

(* RecoveryDelay(step, 1, 2) for the steps below the bound.                *)
Delays == [s \in 0 .. StepBound - 1 |-> IF s = 0 THEN 1 ELSE 2]

Sym == Permutations(Consumers)
=============================================================================
