------------------------------ MODULE MCIDSweep ------------------------------
EXTENDS IDSweep, TLC

Sym == Permutations(Daemons)
=============================================================================
