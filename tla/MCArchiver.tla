----------------------------- MODULE MCArchiver -----------------------------
(* Small chains for model-checking Archiver. *)
EXTENDS Archiver, TLC

CONSTANTS org1, blk3, blk4, blk5, alt5, low0

\* low0 - org1 - blk3 - blk4 - blk5 with a fork alt5 of blk3; the names end in
\* the slot, and slot 2 has no block.  The origin is org1; low0 lies below it and
\* is the chain's first block.
ForkBlocks == {low0, org1, blk3, blk4, blk5, alt5}
ForkParent == low0 :> NoBlock @@ org1 :> low0 @@ blk3 :> org1 @@ blk4 :> blk3
                @@ blk5 :> blk4 @@ alt5 :> blk3
ForkSlot   == low0 :> 0 @@ org1 :> 1 @@ blk3 :> 3 @@ blk4 :> 4 @@ blk5 :> 5
                @@ alt5 :> 5

\* low0 - org1 - blk3, with the same slots and the same origin, and one block
\* more.
ShortBlocks == {low0, org1, blk3}
ShortParent == low0 :> NoBlock @@ org1 :> low0 @@ blk3 :> org1
ShortSlot   == low0 :> 0 @@ org1 :> 1 @@ blk3 :> 3

LineBlocks == ShortBlocks \cup {blk4}
LineParent == ShortParent @@ blk4 :> blk3
LineSlot   == ShortSlot @@ blk4 :> 4

\* A range with an empty slot, one up to the largest slot, one that is the wrong
\* way round and one that cannot be parsed.
NoRanges == {}
Ranges   == {<<1, 2>>, <<3, SlotCount - 1>>, <<2, 1>>, <<Unparsed, 1>>}
OneVersion == {1}
TwoVersions == {1, 2}
NoneRevised == {}
OneRevised == {blk3}
=============================================================================
