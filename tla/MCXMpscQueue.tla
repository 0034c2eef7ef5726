---------------------------- MODULE MCXMpscQueue ----------------------------
(* Instances of XMpscQueue for TLC. *)
EXTENDS XMpscQueue

Symmetry == Permutations(Nodes) \cup Permutations(Producers)
=============================================================================
