\* Three slots, two formats, failing and refused requests, repairs and a stop.
SPECIFICATION Spec
CONSTANTS
  SlotCount = 8
  FinalizedL1Offset = 2
  NumBlocks = 2
  HeadSlots <- LateHeads
  Missed = {1}
  Formats = 2
  RetryAttempts = 2
  MaxErrors = 2
  MaxRefusals = 4
INVARIANTS TypeOK Complete Sound
PROPERTY Terminates
\* The validator ends, or waits for an answer.
CHECK_DEADLOCK FALSE
