------------------------------ MODULE Failover ------------------------------
(***************************************************************************)
(* Two archivers on one data store, which take turns by the storage lock.  *)
(* Each is a process as in Archiver.  Both seed the store with the head as *)
(* soon as they start; the one that gets the lock goes on to archive, the  *)
(* other waits, as a standby, until the first has ended.  They share the   *)
(* blobs and backfill_processes.                                           *)
(*                                                                         *)
(* The lock is taken in one step here: the lockfile, its time stamps and   *)
(* what they guarantee are StorageLock's.                                  *)
(***************************************************************************)
EXTENDS BeaconChain

CONSTANTS
  NoData, Versions, Revised,
  StartupMaxRetries, LiveMaxRetries, RearchiveMaxRetries, SaveEvery,
  SlotCount, Unparsed, RearchiveRanges, UnackedWrites,
  MaxErrors, MaxRestarts

\* What Archiver assumes of its constants.
ASSUME RetriesAssumption ==
  {StartupMaxRetries, LiveMaxRetries, RearchiveMaxRetries, SaveEvery} \subseteq Nat \ {0}

ASSUME SlotCountAssumption ==
  /\ SlotCount \in Nat \ {0}
  /\ Unparsed \notin Nat

\* What toSlot makes of a parameter.
Params == (0 .. SlotCount - 1) \cup {Unparsed}

ASSUME EnvironmentAssumption ==
  /\ NoData \notin [of : Blocks, version : Versions]
  /\ Versions \subseteq Nat /\ 1 \in Versions
  /\ Revised \subseteq Blocks
  /\ RearchiveRanges \subseteq Params \X Params
  /\ UnackedWrites \in BOOLEAN
  /\ {MaxErrors, MaxRestarts} \subseteq Nat

VARIABLES
  head, served,                   \* the node's
  store, saved,                   \* the data store's
  mainA, bfA, memA, raA, callA,   \* the first process
  mainB, bfB, memB, raB, callB,   \* the second process
  lost,                           \* the blocks that archivers which ended would
                                  \* have stored next, and that are not stored
  errors, restarts

processA == <<mainA, bfA, memA, raA, callA>>
processB == <<mainB, bfB, memB, raB, callB>>
shared   == <<head, served, store, saved, errors, restarts>>
vars     == <<shared, lost, processA, processB>>

A == INSTANCE Archiver
     WITH main <- mainA, bf <- bfA, mem <- memA, ra <- raA, call <- callA

B == INSTANCE Archiver
     WITH main <- mainB, bf <- bfB, mem <- memB, ra <- raB, call <- callB

TypeOK ==
  /\ A!TypeOK
  /\ B!TypeOK
  /\ lost \subseteq Blocks \ A!Archived

Init ==
  /\ A!Init
  /\ B!Init
  /\ lost = {}

----------------------------------------------------------------------------
(* The lock *)

\* The process has come out of waitObtainStorageLock.
Active(main) == main.pc \in {"idle", "live"}

\* Variant, to be told apart: the lock of an archiver that ended stays taken.
ObtainableFromRunning(other) == other.pc \in {"seed", "lock"}

\* Variant, to be told apart: the lock is there for the asking.
ObtainableAlways(other) == TRUE

\* The lock is free once the other archiver has ended.
Obtainable(other) == ~Active(other)

\* An archiver that ends forgets what it was about to store.
Losses ==
  lost' = (lost \cup (IF mainA.pc # "down" /\ mainA'.pc = "down" THEN A!Targets ELSE {})
                \cup (IF mainB.pc # "down" /\ mainB'.pc = "down" THEN B!Targets ELSE {}))
          \cap (Blocks \ A!Archived')

\* One process makes a step beside the other, which has to have left the lock
\* when the step obtains it.
BesideB ==
  /\ UNCHANGED processB
  /\ ~Active(mainA) /\ Active(mainA)' => Obtainable(mainB)
  /\ Losses

BesideA ==
  /\ UNCHANGED processA
  /\ ~Active(mainB) /\ Active(mainB)' => Obtainable(mainA)
  /\ Losses

Next ==
  \/ A!Next /\ BesideB
  \/ B!Next /\ BesideA

\* As Archiver's fairness, for both processes.
Fairness ==
  /\ WF_vars((A!MainStep \/ A!Restart) /\ BesideB)
  /\ WF_vars((B!MainStep \/ B!Restart) /\ BesideA)
  /\ WF_vars(A!BackfillStep /\ BesideB)
  /\ WF_vars(B!BackfillStep /\ BesideA)
  /\ WF_vars(A!RearchiveStep /\ BesideB)
  /\ WF_vars(B!RearchiveStep /\ BesideA)

Spec == Init /\ [][Next]_vars /\ Fairness

----------------------------------------------------------------------------

\* Neither archiver's progress is ahead of what is stored, nor is the progress
\* saved for the next one: though the store that one backfills is the store that
\* the other seeds, and each goes on with what the other has saved.
ProgressSound == A!ProgressSound /\ B!ProgressSound

\* Every gap below a stored block is owed by one of the archivers, or was owed by
\* one that has ended: that of the blocks below the seed of a standby, at which
\* the active one's live walk stops, is the standby's, however long it waits and
\* wherever the head is when it gets the lock.  What may leave a gap to nobody, in
\* one archiver as in two, is not to have happened to either.
GapsOwed ==
  A!Calm /\ B!Calm =>
    \A b \in A!Archived \cap AboveOrigin :
      Parent[b] \in A!Archived \cup A!Targets \cup B!Targets \cup lost

\* A backfill process that was saved is not dropped, unless the block below its
\* start is stored, though each archiver overwrites all of backfill_processes
\* with what it knows.
NothingDropped ==
  [][\A s \in AboveOrigin :
       saved[s] # NoBlock /\ saved'[s] = NoBlock => Parent[s] \in A!Archived]_vars

\* A backfill process that was saved is taken up by whichever archiver gets the
\* lock next, and comes to an end.  (One that starts at the origin has no way to go.)
HandedOver ==
  \A s \in AboveOrigin : saved[s] # NoBlock ~> saved[s] = NoBlock \/ errors > 0

----------------------------------------------------------------------------
(* What the repository's comments say and the code does not do *)

\* "Concurrently it'll also begin a backfill process [...] to store all blobs
\* from the current head to the previously stored blocks" (Start): when an archiver
\* stores the head, while the other one tracks the chain and has nothing left to
\* backfill, the block below is stored, by one or the other.
SeedsAreFollowed ==
  \A b \in AboveOrigin :
    /\ mainB.pc = "seed" /\ callB["main"].hdr = b /\ b \notin A!Archived
    /\ Active(mainA) /\ bfA.pc = "off"
    ~> Parent[b] \in A!Archived

=============================================================================
