----------------------------- MODULE MCBlobAPI -----------------------------
(* An archiver and an API process on one data store, for model-checking.  *)
EXTENDS BlobAPI, TLC

CONSTANTS o, archiver, reader, one, two, entries

\* A chain of one block: 3 is a slot without one.
ChainBlocks == {o}
ChainParent == o :> NoBlock
ChainSlot   == o :> 1

\* Two answers of the beacon node for a block, of the same size: two sidecars.
Answers  == {one, two}
ServedTo == o :> Answers
Sizes    == one :> 2 @@ two :> 2 @@ entries :> 2 @@ Nothing :> 1
Indexes  == one :> <<0, 1>> @@ two :> <<0, 1>>

AllAsked ==
  {o} \X {<<>>, <<<<2>>>>, <<<<0>>, <<0, 1>>>>}
    \cup {<<HeadId, <<<<1, 0, 1>>>>>>, <<3, <<<<0>>, <<1>>>>>>, <<Bad, <<>>>>}

SameAnswers == Permutations(Answers)
=============================================================================
