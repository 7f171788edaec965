\* One archiver holds the lock, two may wait for it at once, one renewal may fail.
SPECIFICATION Spec
CONSTANTS
  a1 = a1
  a2 = a2
  a3 = a3
  NoOne = NoOne
  Archivers <- Three
  LockTimeout = 10
  LockUpdateInterval = 5
  ObtainLockRetryInterval = 5
  MaxDelay = 1
  MaxSkew = 1
  MaxFailures = 1
INVARIANTS TypeOK RetainedWhileRenewed
PROPERTY Succession
\* Every process may have ended.
CHECK_DEADLOCK FALSE
