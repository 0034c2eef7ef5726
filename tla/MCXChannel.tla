----------------------------- MODULE MCXChannel -----------------------------
(* Instances of XChannel for TLC. *)
EXTENDS XChannel, TLC
=============================================================================
