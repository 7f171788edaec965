\* Two archivers, of which one crashes or loses its lock, and is started again.
SPECIFICATION Spec
CONSTANTS
  org1 = org1
  blk3 = blk3
  blk4 = blk4
  NoBlock = NoBlock
  HeadId = HeadId
  NoData = NoData
  Origin = org1
  Blocks <- Chain
  Parent <- Up
  Slot <- SlotOf
  Versions <- Answers
  Revised <- Again
  SlotCount = 5
  Unparsed = Unparsed
  RearchiveRanges <- NoRanges
  StartupMaxRetries = 2
  LiveMaxRetries = 2
  RearchiveMaxRetries = 1
  SaveEvery = 2
  UnackedWrites = FALSE
  MaxErrors = 0
  MaxRestarts = 1
INVARIANTS ProgressSound GapsOwed
PROPERTIES NothingDropped HandedOver
CHECK_DEADLOCK FALSE
