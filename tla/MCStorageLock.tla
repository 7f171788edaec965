--------------------------- MODULE MCStorageLock ---------------------------
(* Small sets of archivers for model-checking StorageLock, with a fifth of  *)
(* LockUpdateInterval, 2 seconds, as the unit of time.                      *)
EXTENDS StorageLock, TLC

CONSTANTS a1, a2, a3

Two   == {a1, a2}
Three == {a1, a2, a3}
=============================================================================
