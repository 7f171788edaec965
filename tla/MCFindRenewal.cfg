\* One renewal fails.
SPECIFICATION Spec
CONSTANTS
  a1 = a1
  a2 = a2
  a3 = a3
  NoOne = NoOne
  Archivers <- Two
  LockTimeout = 10
  LockUpdateInterval = 5
  ObtainLockRetryInterval = 5
  MaxDelay = 0
  MaxSkew = 0
  MaxFailures = 1
INVARIANT Retained
CHECK_DEADLOCK FALSE
