--------------------------- MODULE MCXThreadQueue ---------------------------
(* Instances of XThreadQueue for TLC. *)
EXTENDS XThreadQueue, TLC

Symmetry == Permutations(Producers) \cup Permutations(Nodes)
=============================================================================
