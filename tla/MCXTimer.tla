------------------------------ MODULE MCXTimer ------------------------------
EXTENDS XTimer, TLC

\* Timer nodes are interchangeable.
Symmetry == Permutations(Nodes)
=============================================================================
