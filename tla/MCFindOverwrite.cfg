\* A rearchive request while the backfill fetches the same block.
SPECIFICATION Spec
CONSTANTS
  low0 = low0
  org1 = org1
  blk3 = blk3
  blk4 = blk4
  blk5 = blk5
  alt5 = alt5
  NoBlock = NoBlock
  HeadId = HeadId
  NoData = NoData
  Origin = org1
  Blocks <- LineBlocks
  Parent <- LineParent
  Slot <- LineSlot
  Versions <- TwoVersions
  Revised <- OneRevised
  SlotCount = 5
  Unparsed = Unparsed
  RearchiveRanges <- Ranges
  StartupMaxRetries = 1
  LiveMaxRetries = 1
  RearchiveMaxRetries = 1
  SaveEvery = 2
  UnackedWrites = FALSE
  MaxErrors = 0
  MaxRestarts = 0
PROPERTY NeverOverwrites
