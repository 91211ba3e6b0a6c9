----------------------------- MODULE MCFillGaps -----------------------------
EXTENDS FillGaps

Sym == Permutations(Scanners)
=============================================================================
