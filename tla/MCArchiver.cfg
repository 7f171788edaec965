\* One run of the process, from an empty store, while the head moves and a request fails.
SPECIFICATION Spec
CONSTANTS
  low0 = low0
  org1 = org1
  blk3 = blk3
  blk4 = blk4
  blk5 = blk5
  alt5 = alt5
  NoBlock = NoBlock
  HeadId = HeadId
  NoData = NoData
  Origin = org1
  Blocks <- ForkBlocks
  Parent <- ForkParent
  Slot <- ForkSlot
  Versions <- OneVersion
  Revised <- NoneRevised
  SlotCount = 6
  Unparsed = Unparsed
  RearchiveRanges <- NoRanges
  StartupMaxRetries = 2
  LiveMaxRetries = 2
  RearchiveMaxRetries = 2
  SaveEvery = 2
  UnackedWrites = FALSE
  MaxErrors = 1
  MaxRestarts = 0
INVARIANTS KeyedByOwnRoot GapsOwed
PROPERTY ImplementsArchive
