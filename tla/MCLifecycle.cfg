\* The three commands, with flags of which one or two are wrong.
SPECIFICATION Spec
CONSTANTS
  Durations <- Signs
  Hashes <- Known
  Flags <- Tried
  Changes = 2
  MaxSignals = 3
  MaxRequests = 2
INVARIANTS TypeOK AcceptedIsUsable RepliesBeforeEnd
PROPERTY Ends
CHECK_DEADLOCK FALSE
