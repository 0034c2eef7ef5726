---------------------------- MODULE MCXThreadRpc ----------------------------
EXTENDS XThreadRpc, TLC

\* Coroutines are interchangeable.
Symmetry == Permutations(Cos)
=============================================================================
