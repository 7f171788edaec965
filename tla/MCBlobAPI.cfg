\* Requests while an archiver and an API start, crash and rewrite blobs.
SPECIFICATION Spec
CONSTANTS
  o = o
  archiver = archiver
  reader = reader
  one = one
  two = two
  entries = entries
  NoBlock = NoBlock
  HeadId = HeadId
  Origin = o
  Blocks <- ChainBlocks
  Parent <- ChainParent
  Slot <- ChainSlot
  Archivers = {archiver}
  Readers = {reader}
  Compressing = {archiver}
  Hashes <- ChainBlocks
  Blobs <- Answers
  Served <- ServedTo
  Progress = {entries}
  Nothing = Nothing
  Garbage = Garbage
  Missing = Missing
  Size <- Sizes
  MaxErrors = 1
  MaxCrashes = 1
  NoRoot = NoRoot
  Bad = Bad
  Asked <- AllAsked
  Index <- Indexes
SYMMETRY SameAnswers
INVARIANTS TypeOK StartsKeepObjects ReadableAtRest AnswersQuery
PROPERTY NeverForgets
CHECK_DEADLOCK FALSE
