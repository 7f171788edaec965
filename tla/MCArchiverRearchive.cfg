\* An operator rearchives slots while the other threads run, and the process is restarted.
SPECIFICATION Spec
CONSTANTS
  low0 = low0
  org1 = org1
  blk3 = blk3
  blk4 = blk4
  blk5 = blk5
  alt5 = alt5
  NoBlock = NoBlock
  HeadId = HeadId
  NoData = NoData
  Origin = org1
  Blocks <- ShortBlocks
  Parent <- ShortParent
  Slot <- ShortSlot
  Versions <- OneVersion
  Revised <- NoneRevised
  SlotCount = 4
  Unparsed = Unparsed
  RearchiveRanges <- Ranges
  StartupMaxRetries = 1
  LiveMaxRetries = 1
  RearchiveMaxRetries = 2
  SaveEvery = 2
  UnackedWrites = TRUE
  MaxErrors = 2
  MaxRestarts = 1
INVARIANTS TypeOK RearchiveComplete
PROPERTY RearchiveEnds
\* The process may end, and with no restart left the system then stops.
CHECK_DEADLOCK FALSE
