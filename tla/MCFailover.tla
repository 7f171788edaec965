----------------------------- MODULE MCFailover -----------------------------
(* A small chain for model-checking Failover. *)
EXTENDS Failover, TLC

CONSTANTS org1, blk3, blk4

\* org1 - blk3 - blk4; the names end in the slot.
Chain  == {org1, blk3, blk4}
Up     == org1 :> NoBlock @@ blk3 :> org1 @@ blk4 :> blk3
SlotOf == org1 :> 1 @@ blk3 :> 3 @@ blk4 :> 4

NoRanges  == {}
Answers  == {1, 2}
Again    == {blk4}
=============================================================================
