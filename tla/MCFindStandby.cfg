\* A standby that waits, with neither a failure nor a crash.
SPECIFICATION Spec
CONSTANTS
  org1 = org1
  blk3 = blk3
  blk4 = blk4
  NoBlock = NoBlock
  HeadId = HeadId
  NoData = NoData
  Origin = org1
  Blocks <- Chain
  Parent <- Up
  Slot <- SlotOf
  Versions <- Answers
  Revised <- Again
  SlotCount = 5
  Unparsed = Unparsed
  RearchiveRanges <- NoRanges
  StartupMaxRetries = 2
  LiveMaxRetries = 2
  RearchiveMaxRetries = 1
  SaveEvery = 2
  UnackedWrites = FALSE
  MaxErrors = 0
  MaxRestarts = 0
PROPERTY SeedsAreFollowed
