------------------------------ MODULE MCXShared -----------------------------
(* An instance of XShared for TLC: k1 and k2 share a shard, and a bucket     *)
(* until it grows; k1 gets strings whose length does not fit into vlen; k4   *)
(* is longer than the budget.                                                *)
EXTENDS XShared, TLC

CONSTANTS k1, k2, k3, k4

MCShardOf == k1 :> 0 @@ k2 :> 0 @@ k3 :> 1 @@ k4 :> 1
MCHash    == k1 :> 0 @@ k2 :> 1 @@ k3 :> 0 @@ k4 :> 1
MCKeyLen  == k1 :> 0 @@ k2 :> 1 @@ k3 :> 0 @@ k4 :> 3
MCLengths == k1 :> {2} @@ k2 :> {} @@ k3 :> {} @@ k4 :> {}
=============================================================================
