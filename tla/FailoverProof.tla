---------------------------- MODULE FailoverProof ---------------------------
(***************************************************************************)
(* With two archivers on one store, the progress of either, and the        *)
(* progress saved for the next one, are never ahead of what is stored, and *)
(* no gap in what is stored is forgotten.                                  *)
(*                                                                         *)
(* PA and PB are what is proved of one archiver, of the first and of the   *)
(* second.  A step of one preserves its own invariant by those theorems;   *)
(* that of the other is preserved since it reads nothing but the blobs,    *)
(* which are never removed, and backfill_processes, of which the           *)
(* invariant of the archiver that wrote it tells enough.                   *)
(***************************************************************************)
EXTENDS Failover, TLAPS

PA == INSTANCE ArchiverGapsProof
      WITH main <- mainA, bf <- bfA, mem <- memA, ra <- raA, call <- callA

PB == INSTANCE ArchiverGapsProof
      WITH main <- mainB, bf <- bfB, mem <- memB, ra <- raB, call <- callB

----------------------------------------------------------------------------
(* The two instances of Archiver are those of the proofs *)

LEMMA SameInitA == A!Init => PA!Init
BY DEF A!Init, PA!Init, A!NoEntries, PA!NoEntries, A!NoBackfill, PA!NoBackfill, A!BackfillAt,
    PA!BackfillAt, A!NoRearchive, PA!NoRearchive, A!RearchiveFrom, PA!RearchiveFrom, A!NoCall,
    PA!NoCall, A!CallFor, PA!CallFor, A!Threads, PA!Threads, A!Heads, PA!Heads, A!FromOrigin,
    PA!FromOrigin, A!AncestorsOf, PA!AncestorsOf, A!ParentClosed, PA!ParentClosed

LEMMA SameNextA ==
  ASSUME A!Next
  PROVE  PA!Next
BY DEF A!Slots, PA!Slots, A!Params, PA!Params, A!Threads, PA!Threads, A!Contents, PA!Contents,
    A!Entries, PA!Entries, A!NoEntries, PA!NoEntries, A!Stages, PA!Stages, A!Calls, PA!Calls,
    A!CallFor, PA!CallFor, A!NoCall, PA!NoCall, A!BackfillAt, PA!BackfillAt, A!NoBackfill,
    PA!NoBackfill, A!RearchiveFrom, PA!RearchiveFrom, A!NoRearchive, PA!NoRearchive, A!Archived,
    PA!Archived, A!environment, PA!environment, A!control, PA!control, A!StartCall,
    PA!StartCall, A!EndCall, PA!EndCall, A!ReturnError, PA!ReturnError, A!Fail, PA!Fail,
    A!Overwrites, PA!Overwrites, A!BeaconBlockHeader, PA!BeaconBlockHeader, A!Exists, PA!Exists,
    A!SidecarsOf, PA!SidecarsOf, A!BlobSidecars, PA!BlobSidecars, A!WriteBlob, PA!WriteBlob,
    A!Persist, PA!Persist, A!Exhausted, PA!Exhausted, A!Failed, PA!Failed, A!ProcessExit,
    PA!ProcessExit, A!Crash, PA!Crash, A!Restart, PA!Restart, A!SeedDone, PA!SeedDone,
    A!SeedRetry, PA!SeedRetry, A!SeedFail, PA!SeedFail, A!ObtainLock, PA!ObtainLock,
    A!LockFails, PA!LockFails, A!Tick, PA!Tick, A!LiveKnown, PA!LiveKnown, A!LiveWalk,
    PA!LiveWalk, A!LiveRetry, PA!LiveRetry, A!LiveGiveUp, PA!LiveGiveUp, A!SaveBackfills,
    PA!SaveBackfills, A!BackfillLoad, PA!BackfillLoad, A!BackfillLoadFails,
    PA!BackfillLoadFails, A!BackfillNext, PA!BackfillNext, A!BackfillReturns,
    PA!BackfillReturns, A!BackfillAtOrigin, PA!BackfillAtOrigin, A!BackfillWalk,
    PA!BackfillWalk, A!BackfillRetry, PA!BackfillRetry, A!NextCount, PA!NextCount,
    A!BackfillAdvance, PA!BackfillAdvance, A!BackfillFinish, PA!BackfillFinish, A!ValidRange,
    PA!ValidRange, A!RearchiveRequest, PA!RearchiveRequest, A!RearchiveRefuse,
    PA!RearchiveRefuse, A!InRange, PA!InRange, A!NextSlot, PA!NextSlot, A!RearchiveSlotDone,
    PA!RearchiveSlotDone, A!RearchiveRetry, PA!RearchiveRetry, A!RearchiveFail,
    PA!RearchiveFail, A!HeadMoves, PA!HeadMoves, A!Republish, PA!Republish, A!MainStep,
    PA!MainStep, A!BackfillStep, PA!BackfillStep, A!RearchiveStep, PA!RearchiveStep,
    A!Environment, PA!Environment, A!Next, PA!Next, A!ParentClosed, PA!ParentClosed,
    A!AncestorsOf, PA!AncestorsOf, A!FromOrigin, PA!FromOrigin, A!AboveOrigin, PA!AboveOrigin,
    A!Heads, PA!Heads, A!Idents, PA!Idents, A!Resolve, PA!Resolve

LEMMA SameProgressA == PA!ProgressSound => A!ProgressSound
BY DEF A!ProgressSound, PA!ProgressSound, A!EntriesWalked, PA!EntriesWalked, A!Walked,
    PA!Walked, A!Segment, PA!Segment, A!Archived, PA!Archived, A!AncestorsOf,
    PA!AncestorsOf, A!ParentClosed, PA!ParentClosed

LEMMA SameInitB == B!Init => PB!Init
BY DEF B!Init, PB!Init, B!NoEntries, PB!NoEntries, B!NoBackfill, PB!NoBackfill, B!BackfillAt,
    PB!BackfillAt, B!NoRearchive, PB!NoRearchive, B!RearchiveFrom, PB!RearchiveFrom, B!NoCall,
    PB!NoCall, B!CallFor, PB!CallFor, B!Threads, PB!Threads, B!Heads, PB!Heads, B!FromOrigin,
    PB!FromOrigin, B!AncestorsOf, PB!AncestorsOf, B!ParentClosed, PB!ParentClosed

LEMMA SameNextB ==
  ASSUME B!Next
  PROVE  PB!Next
BY DEF B!Slots, PB!Slots, B!Params, PB!Params, B!Threads, PB!Threads, B!Contents, PB!Contents,
    B!Entries, PB!Entries, B!NoEntries, PB!NoEntries, B!Stages, PB!Stages, B!Calls, PB!Calls,
    B!CallFor, PB!CallFor, B!NoCall, PB!NoCall, B!BackfillAt, PB!BackfillAt, B!NoBackfill,
    PB!NoBackfill, B!RearchiveFrom, PB!RearchiveFrom, B!NoRearchive, PB!NoRearchive, B!Archived,
    PB!Archived, B!environment, PB!environment, B!control, PB!control, B!StartCall,
    PB!StartCall, B!EndCall, PB!EndCall, B!ReturnError, PB!ReturnError, B!Fail, PB!Fail,
    B!Overwrites, PB!Overwrites, B!BeaconBlockHeader, PB!BeaconBlockHeader, B!Exists, PB!Exists,
    B!SidecarsOf, PB!SidecarsOf, B!BlobSidecars, PB!BlobSidecars, B!WriteBlob, PB!WriteBlob,
    B!Persist, PB!Persist, B!Exhausted, PB!Exhausted, B!Failed, PB!Failed, B!ProcessExit,
    PB!ProcessExit, B!Crash, PB!Crash, B!Restart, PB!Restart, B!SeedDone, PB!SeedDone,
    B!SeedRetry, PB!SeedRetry, B!SeedFail, PB!SeedFail, B!ObtainLock, PB!ObtainLock,
    B!LockFails, PB!LockFails, B!Tick, PB!Tick, B!LiveKnown, PB!LiveKnown, B!LiveWalk,
    PB!LiveWalk, B!LiveRetry, PB!LiveRetry, B!LiveGiveUp, PB!LiveGiveUp, B!SaveBackfills,
    PB!SaveBackfills, B!BackfillLoad, PB!BackfillLoad, B!BackfillLoadFails,
    PB!BackfillLoadFails, B!BackfillNext, PB!BackfillNext, B!BackfillReturns,
    PB!BackfillReturns, B!BackfillAtOrigin, PB!BackfillAtOrigin, B!BackfillWalk,
    PB!BackfillWalk, B!BackfillRetry, PB!BackfillRetry, B!NextCount, PB!NextCount,
    B!BackfillAdvance, PB!BackfillAdvance, B!BackfillFinish, PB!BackfillFinish, B!ValidRange,
    PB!ValidRange, B!RearchiveRequest, PB!RearchiveRequest, B!RearchiveRefuse,
    PB!RearchiveRefuse, B!InRange, PB!InRange, B!NextSlot, PB!NextSlot, B!RearchiveSlotDone,
    PB!RearchiveSlotDone, B!RearchiveRetry, PB!RearchiveRetry, B!RearchiveFail,
    PB!RearchiveFail, B!HeadMoves, PB!HeadMoves, B!Republish, PB!Republish, B!MainStep,
    PB!MainStep, B!BackfillStep, PB!BackfillStep, B!RearchiveStep, PB!RearchiveStep,
    B!Environment, PB!Environment, B!Next, PB!Next, B!ParentClosed, PB!ParentClosed,
    B!AncestorsOf, PB!AncestorsOf, B!FromOrigin, PB!FromOrigin, B!AboveOrigin, PB!AboveOrigin,
    B!Heads, PB!Heads, B!Idents, PB!Idents, B!Resolve, PB!Resolve

LEMMA SameProgressB == PB!ProgressSound => B!ProgressSound
BY DEF B!ProgressSound, PB!ProgressSound, B!EntriesWalked, PB!EntriesWalked, B!Walked,
    PB!Walked, B!Segment, PB!Segment, B!Archived, PB!Archived, B!AncestorsOf,
    PB!AncestorsOf, B!ParentClosed, PB!ParentClosed

----------------------------------------------------------------------------
(* One archiver at work *)

LEMMA InitA == A!Init => PA!ArchiverInv /\ raA.pc = "idle" /\ PA!Archived = {}
<1> USE RetriesAssumption, SlotCountAssumption, EnvironmentAssumption,
   BlocksAssumption, ParentAssumption, SlotAssumption DEF Params, PA!Params, PA!Slots
<1>1. PA!Init => PA!ArchiverInv /\ raA.pc = "idle" /\ PA!Archived = {}
  BY PA!ArchiverInit
<1> QED
  BY <1>1, SameInitA

LEMMA StepA ==
  ASSUME PA!ArchiverInv, [PA!Next]_(PA!vars)
  PROVE  /\ PA!ArchiverInv' /\ PA!SharedInv' /\ PA!HandsOn
         /\ PA!Archived \subseteq PA!Archived'
         /\ errors \in Nat /\ errors' \in Nat /\ errors <= errors'
<1> USE RetriesAssumption, SlotCountAssumption, EnvironmentAssumption,
   BlocksAssumption, ParentAssumption, SlotAssumption DEF Params, PA!Params, PA!Slots
<1> QED
  BY PA!ArchiverStep

LEMMA NoRequestsA ==
  ASSUME RearchiveRanges = {}, PA!ArchiverInv, [PA!Next]_(PA!vars), raA.pc = "idle"
  PROVE  raA'.pc = "idle"
<1> USE RetriesAssumption, SlotCountAssumption, EnvironmentAssumption,
   BlocksAssumption, ParentAssumption, SlotAssumption DEF Params, PA!Params, PA!Slots
<1> QED
  BY PA!NoRequests DEF PA!ArchiverInv

LEMMA InitB == B!Init => PB!ArchiverInv /\ raB.pc = "idle" /\ PB!Archived = {}
<1> USE RetriesAssumption, SlotCountAssumption, EnvironmentAssumption,
   BlocksAssumption, ParentAssumption, SlotAssumption DEF Params, PB!Params, PB!Slots
<1>1. PB!Init => PB!ArchiverInv /\ raB.pc = "idle" /\ PB!Archived = {}
  BY PB!ArchiverInit
<1> QED
  BY <1>1, SameInitB

LEMMA StepB ==
  ASSUME PB!ArchiverInv, [PB!Next]_(PB!vars)
  PROVE  /\ PB!ArchiverInv' /\ PB!SharedInv' /\ PB!HandsOn
         /\ PB!Archived \subseteq PB!Archived'
         /\ errors \in Nat /\ errors' \in Nat /\ errors <= errors'
<1> USE RetriesAssumption, SlotCountAssumption, EnvironmentAssumption,
   BlocksAssumption, ParentAssumption, SlotAssumption DEF Params, PB!Params, PB!Slots
<1> QED
  BY PB!ArchiverStep

LEMMA NoRequestsB ==
  ASSUME RearchiveRanges = {}, PB!ArchiverInv, [PB!Next]_(PB!vars), raB.pc = "idle"
  PROVE  raB'.pc = "idle"
<1> USE RetriesAssumption, SlotCountAssumption, EnvironmentAssumption,
   BlocksAssumption, ParentAssumption, SlotAssumption DEF Params, PB!Params, PB!Slots
<1> QED
  BY PB!NoRequests DEF PB!ArchiverInv

----------------------------------------------------------------------------
(* One archiver at rest, beside a step of the other *)

LEMMA SameShared == PA!SharedInv' <=> PB!SharedInv'
BY DEF
    PA!SharedInv, PB!SharedInv, PA!Heads, PB!Heads, PA!FromOrigin, PB!FromOrigin,
    PA!AncestorsOf, PB!AncestorsOf, PA!ParentClosed, PB!ParentClosed, PA!Contents,
    PB!Contents, PA!Entries, PB!Entries, PA!EntriesWalked, PB!EntriesWalked, PA!Walked,
    PB!Walked, PA!Segment, PB!Segment, PA!Archived, PB!Archived, PA!EntriesFromOrigin,
    PB!EntriesFromOrigin

LEMMA RestA ==
  ASSUME PA!ArchiverInv, UNCHANGED processA, PB!SharedInv',
         PA!Archived \subseteq PA!Archived',
         errors \in Nat, errors' \in Nat, errors <= errors'
  PROVE  PA!ArchiverInv'
<1> USE RetriesAssumption, SlotCountAssumption, EnvironmentAssumption,
   BlocksAssumption, ParentAssumption, SlotAssumption DEF Params, PA!Params, PA!Slots
<1>1. PA!SharedInv'
  BY SameShared
<1>2. UNCHANGED <<mainA, bfA, memA, raA, callA>>
  BY DEF processA
<1> QED
  BY <1>1, <1>2, PA!StandsBy

LEMMA RestB ==
  ASSUME PB!ArchiverInv, UNCHANGED processB, PA!SharedInv',
         PB!Archived \subseteq PB!Archived',
         errors \in Nat, errors' \in Nat, errors <= errors'
  PROVE  PB!ArchiverInv'
<1> USE RetriesAssumption, SlotCountAssumption, EnvironmentAssumption,
   BlocksAssumption, ParentAssumption, SlotAssumption DEF Params, PB!Params, PB!Slots
<1>1. PB!SharedInv'
  BY SameShared
<1>2. UNCHANGED <<mainB, bfB, memB, raB, callB>>
  BY DEF processB
<1> QED
  BY <1>1, <1>2, PB!StandsBy

----------------------------------------------------------------------------

\* Each archiver's own invariant; it speaks of the other only through store and saved.
FailoverInv == PA!ArchiverInv /\ PB!ArchiverInv

LEMMA FailoverInit == Init => FailoverInv
BY InitA, InitB DEF Init, FailoverInv

\* A step of the two is a step of one of them, beside which the other rests.
LEMMA OneSteps ==
  ASSUME FailoverInv, [Next]_vars
  PROVE  \/ [PA!Next]_(PA!vars) /\ UNCHANGED processB /\ (BesideB \/ UNCHANGED vars)
         \/ [PB!Next]_(PB!vars) /\ UNCHANGED processA /\ (BesideA \/ UNCHANGED vars)
<1>1. CASE A!Next /\ BesideB
  BY <1>1, SameNextA DEF BesideB
<1>2. CASE B!Next /\ BesideA
  BY <1>2, SameNextB DEF BesideA
<1>3. CASE UNCHANGED vars
  BY <1>3 DEF vars, shared, processA, processB, PA!vars
<1> QED
  BY <1>1, <1>2, <1>3 DEF Next

LEMMA FailoverStep == FailoverInv /\ [Next]_vars => FailoverInv'
<1> SUFFICES ASSUME FailoverInv, [Next]_vars
             PROVE  FailoverInv'
  OBVIOUS
<1> USE DEF FailoverInv
<1>1. PA!Archived = PB!Archived /\ PA!Archived' = PB!Archived'
  BY DEF PA!Archived, PB!Archived
<1>2. CASE [PA!Next]_(PA!vars) /\ UNCHANGED processB
  BY <1>1, <1>2, StepA, RestB
<1>3. CASE [PB!Next]_(PB!vars) /\ UNCHANGED processA
  BY <1>1, <1>3, StepB, RestA
<1> QED
  BY <1>2, <1>3, OneSteps

LEMMA SameTypeA == PA!TypeOK => A!TypeOK
BY DEF
    A!TypeOK, PA!TypeOK, A!Heads, PA!Heads, A!FromOrigin, PA!FromOrigin, A!AncestorsOf,
    PA!AncestorsOf, A!ParentClosed, PA!ParentClosed, A!Contents, PA!Contents, A!Entries,
    PA!Entries, A!Slots, PA!Slots, A!Threads, PA!Threads, A!Calls, PA!Calls, A!Stages,
    PA!Stages, A!Idents, PA!Idents

LEMMA SameTypeB == PB!TypeOK => B!TypeOK
BY DEF
    B!TypeOK, PB!TypeOK, B!Heads, PB!Heads, B!FromOrigin, PB!FromOrigin, B!AncestorsOf,
    PB!AncestorsOf, B!ParentClosed, PB!ParentClosed, B!Contents, PB!Contents, B!Entries,
    PB!Entries, B!Slots, PB!Slots, B!Threads, PB!Threads, B!Calls, PB!Calls, B!Stages,
    PB!Stages, B!Idents, PB!Idents

\* Every variable keeps its type, and what is counted as lost is not stored.
THEOREM TypeCorrect == Spec => []TypeOK
<1>1. Init => lost \subseteq Blocks \ A!Archived
  BY DEF Init
<1>2. [Next]_vars /\ lost \subseteq Blocks \ A!Archived
        => (lost \subseteq Blocks \ A!Archived)'
  BY DEF Next, BesideA, BesideB, Losses, vars, shared, A!Archived
<1>3. FailoverInv => A!TypeOK /\ B!TypeOK
  BY SameTypeA, SameTypeB
  DEF FailoverInv, PA!ArchiverInv, PB!ArchiverInv, PA!TypeInv, PB!TypeInv
<1> QED
  BY <1>1, <1>2, <1>3, FailoverInit, FailoverStep, PTL DEF Spec, TypeOK

\* ProgressSound for two archivers, on every chain and with any crashes, restarts and
\* failures: what either claims to have archived is stored, and so is what either
\* finds saved by the other.  Nothing here rests on the lock being exclusive.
THEOREM ProgressIsSound == Spec => []ProgressSound
<1>1. FailoverInv => ProgressSound
  BY SameProgressA, SameProgressB
  DEF FailoverInv, PA!ArchiverInv, PB!ArchiverInv, PA!ProgressInv, PB!ProgressInv, ProgressSound
<1> QED
  BY <1>1, FailoverInit, FailoverStep, PTL DEF Spec

----------------------------------------------------------------------------
(* The gaps: what each archiver hands on is its own, and what it forgets when *)
(* it ends is counted in lost.                                               *)

LEMMA SameTargetsA ==
  /\ A!Targets = PA!Targets /\ A!Targets' = PA!Targets'
  /\ A!Archived = PA!Archived /\ A!Archived' = PA!Archived'
BY DEF
    A!Targets, PA!Targets, A!MainTargets, PA!MainTargets, A!BackfillTargets,
    PA!BackfillTargets, A!PendingTargets, PA!PendingTargets, A!Archived, PA!Archived

LEMMA SameTargetsB ==
  /\ B!Targets = PB!Targets /\ B!Targets' = PB!Targets'
  /\ B!Archived = PB!Archived /\ B!Archived' = PB!Archived'
BY DEF
    B!Targets, PB!Targets, B!MainTargets, PB!MainTargets, B!BackfillTargets,
    PB!BackfillTargets, B!PendingTargets, PB!PendingTargets, B!Archived, PB!Archived

LEMMA StepGapsA ==
  ASSUME PA!ArchiverInv, raA.pc = "idle", raB.pc = "idle", GapsOwed,
         [PA!Next]_(PA!vars), UNCHANGED processB, Losses \/ UNCHANGED vars
  PROVE  GapsOwed'
<1>1. /\ PA!HandsOn
      /\ A!Archived \subseteq A!Archived' /\ A!Archived = B!Archived /\ A!Archived' = B!Archived'
      /\ errors \in Nat /\ errors' \in Nat /\ errors <= errors'
  BY StepA, SameTargetsA DEF A!Archived, B!Archived
<1>2. UNCHANGED B!Targets
  BY DEF processB, B!Targets, B!MainTargets, B!BackfillTargets, B!PendingTargets
<1> DEFINE ends == mainA.pc # "down" /\ mainA'.pc = "down"
<1>3. \A b \in lost : b \in lost' \/ b \in A!Archived' \/ b \notin Blocks
  BY DEF Losses, vars
<1>4. ends => \A b \in A!Targets : b \in lost' \/ b \in A!Archived' \/ b \notin Blocks
  BY DEF Losses, vars, processA
<1> SUFFICES ASSUME A!Calm', B!Calm', NEW b \in A!Archived' \cap AboveOrigin
             PROVE  Parent[b] \in A!Archived' \cup A!Targets' \cup B!Targets' \cup lost'
  BY DEF GapsOwed, AboveOrigin, FromOrigin, AncestorsOf, ParentClosed
<1>5. A!Calm /\ B!Calm /\ PA!Calm'
  BY <1>1, RetriesAssumption DEF A!Calm, B!Calm, PA!Calm
<1>6. Parent[b] \in PA!Needed /\ Parent[b] \in Blocks
  <2>1. b \in PA!AboveOrigin
    BY DEF AboveOrigin, FromOrigin, AncestorsOf, ParentClosed, PA!AboveOrigin, PA!FromOrigin,
       PA!AncestorsOf, PA!ParentClosed
  <2>2. PA!Needed \subseteq Blocks
    <3> USE RetriesAssumption, SlotCountAssumption, EnvironmentAssumption,
       BlocksAssumption, ParentAssumption, SlotAssumption DEF Params, PA!Params, PA!Slots
    <3> QED
      BY PA!NeededBlocks
  <2> QED
    BY <2>1, <2>2 DEF PA!Needed
<1>7. CASE b \in A!Archived
  <2>1. Parent[b] \in A!Archived \cup A!Targets \cup B!Targets \cup lost
    BY <1>5, <1>7 DEF GapsOwed
  <2>2. CASE Parent[b] \in A!Targets
    BY <1>1, <1>4, <1>5, <1>6, <2>2, SameTargetsA DEF PA!HandsOn
  <2> QED
    BY <1>1, <1>2, <1>3, <1>6, <2>1, <2>2
<1>8. CASE b \notin A!Archived
  BY <1>1, <1>5, <1>8, SameTargetsA DEF PA!HandsOn
<1> QED
  BY <1>7, <1>8

LEMMA StepGapsB ==
  ASSUME PB!ArchiverInv, raA.pc = "idle", raB.pc = "idle", GapsOwed,
         [PB!Next]_(PB!vars), UNCHANGED processA, Losses \/ UNCHANGED vars
  PROVE  GapsOwed'
<1>1. /\ PB!HandsOn
      /\ A!Archived \subseteq A!Archived' /\ A!Archived = B!Archived /\ A!Archived' = B!Archived'
      /\ errors \in Nat /\ errors' \in Nat /\ errors <= errors'
  BY StepB, SameTargetsB DEF A!Archived, B!Archived
<1>2. UNCHANGED A!Targets
  BY DEF processA, A!Targets, A!MainTargets, A!BackfillTargets, A!PendingTargets
<1> DEFINE ends == mainB.pc # "down" /\ mainB'.pc = "down"
<1>3. \A b \in lost : b \in lost' \/ b \in A!Archived' \/ b \notin Blocks
  BY DEF Losses, vars
<1>4. ends => \A b \in B!Targets : b \in lost' \/ b \in A!Archived' \/ b \notin Blocks
  BY DEF Losses, vars, processB
<1> SUFFICES ASSUME A!Calm', B!Calm', NEW b \in A!Archived' \cap AboveOrigin
             PROVE  Parent[b] \in A!Archived' \cup A!Targets' \cup B!Targets' \cup lost'
  BY DEF GapsOwed, AboveOrigin, FromOrigin, AncestorsOf, ParentClosed
<1>5. A!Calm /\ B!Calm /\ PB!Calm'
  BY <1>1, RetriesAssumption DEF A!Calm, B!Calm, PB!Calm
<1>6. Parent[b] \in PB!Needed /\ Parent[b] \in Blocks
  <2>1. b \in PB!AboveOrigin
    BY DEF AboveOrigin, FromOrigin, AncestorsOf, ParentClosed, PB!AboveOrigin, PB!FromOrigin,
       PB!AncestorsOf, PB!ParentClosed
  <2>2. PB!Needed \subseteq Blocks
    <3> USE RetriesAssumption, SlotCountAssumption, EnvironmentAssumption,
       BlocksAssumption, ParentAssumption, SlotAssumption DEF Params, PB!Params, PB!Slots
    <3> QED
      BY PB!NeededBlocks
  <2> QED
    BY <2>1, <2>2 DEF PB!Needed
<1>7. CASE b \in A!Archived
  <2>1. Parent[b] \in A!Archived \cup B!Targets \cup A!Targets \cup lost
    BY <1>5, <1>7 DEF GapsOwed
  <2>2. CASE Parent[b] \in B!Targets
    BY <1>1, <1>4, <1>5, <1>6, <2>2, SameTargetsB DEF PB!HandsOn
  <2> QED
    BY <1>1, <1>2, <1>3, <1>6, <2>1, <2>2
<1>8. CASE b \notin A!Archived
  BY <1>1, <1>5, <1>8, SameTargetsB DEF PB!HandsOn
<1> QED
  BY <1>7, <1>8

LEMMA StepGaps ==
  ASSUME RearchiveRanges = {}, FailoverInv, raA.pc = "idle", raB.pc = "idle", GapsOwed,
         [Next]_vars
  PROVE  GapsOwed' /\ raA'.pc = "idle" /\ raB'.pc = "idle"
<1>1. Losses \/ UNCHANGED vars
  BY DEF Next, BesideA, BesideB
<1>2. CASE [PA!Next]_(PA!vars) /\ UNCHANGED processB
  BY <1>1, <1>2, StepGapsA, NoRequestsA DEF FailoverInv, processB
<1>3. CASE [PB!Next]_(PB!vars) /\ UNCHANGED processA
  BY <1>1, <1>3, StepGapsB, NoRequestsB DEF FailoverInv, processA
<1> QED
  BY <1>2, <1>3, OneSteps

\* GapsOwed for two archivers that take turns, with any crashes and restarts of
\* either and fewer failures than a live walk has attempts: a gap that an operator's
\* request has not left is on the way to be filled, by the archiver that made it or
\* by the standby that it ran into, or was when its archiver ended.
THEOREM GapsAreOwed ==
  ASSUME RearchiveRanges = {}
  PROVE  Spec => []GapsOwed
<1>1. Init => GapsOwed /\ raA.pc = "idle" /\ raB.pc = "idle"
  BY InitA, InitB, SameTargetsA DEF Init, GapsOwed
<1>2. FailoverInv /\ raA.pc = "idle" /\ raB.pc = "idle" /\ GapsOwed /\ [Next]_vars
        => GapsOwed' /\ (raA.pc = "idle")' /\ (raB.pc = "idle")'
  BY StepGaps
<1> QED
  BY <1>1, <1>2, FailoverInit, FailoverStep, PTL DEF Spec

----------------------------------------------------------------------------
(* What is saved: one archiver at a time knows it, and writes it *)

LockInv == PA!MapInv /\ PB!MapInv /\ ~(Active(mainA) /\ Active(mainB))

\* An archiver that has not obtained the lock has no backfill.
LEMMA WaitsA ==
  ASSUME PA!ArchiverInv, ~Active(mainA)
  PROVE  bfA.pc = "off"
BY DEF PA!ArchiverInv, PA!OriginInv, PA!SeedPart, PA!Seeding, PA!TypeInv, PA!TypeOK, Active

LEMMA KeepsA ==
  ASSUME PA!ArchiverInv, PA!MapInv, [PA!Next]_(PA!vars)
  PROVE  PA!MapInv' /\ PA!Keeps /\ (bfA.pc = "off" => UNCHANGED saved)
<1> USE RetriesAssumption, SlotCountAssumption, EnvironmentAssumption,
   BlocksAssumption, ParentAssumption, SlotAssumption DEF Params, PA!Params, PA!Slots
<1> QED
  BY PA!StepKeeps

LEMMA WaitsB ==
  ASSUME PB!ArchiverInv, ~Active(mainB)
  PROVE  bfB.pc = "off"
BY DEF PB!ArchiverInv, PB!OriginInv, PB!SeedPart, PB!Seeding, PB!TypeInv, PB!TypeOK, Active

LEMMA KeepsB ==
  ASSUME PB!ArchiverInv, PB!MapInv, [PB!Next]_(PB!vars)
  PROVE  PB!MapInv' /\ PB!Keeps /\ (bfB.pc = "off" => UNCHANGED saved)
<1> USE RetriesAssumption, SlotCountAssumption, EnvironmentAssumption,
   BlocksAssumption, ParentAssumption, SlotAssumption DEF Params, PB!Params, PB!Slots
<1> QED
  BY PB!StepKeeps

LEMMA SameKeepsA ==
  PA!Keeps =>
    \A s \in AboveOrigin : saved[s] # NoBlock /\ saved'[s] = NoBlock => Parent[s] \in A!Archived
BY DEF PA!Keeps, PA!Archived, A!Archived, AboveOrigin, FromOrigin, AncestorsOf, ParentClosed,
    PA!AboveOrigin, PA!FromOrigin, PA!AncestorsOf, PA!ParentClosed

LEMMA SameKeepsB ==
  PB!Keeps =>
    \A s \in AboveOrigin : saved[s] # NoBlock /\ saved'[s] = NoBlock => Parent[s] \in A!Archived
BY DEF PB!Keeps, PB!Archived, A!Archived, AboveOrigin, FromOrigin, AncestorsOf, ParentClosed,
    PB!AboveOrigin, PB!FromOrigin, PB!AncestorsOf, PB!ParentClosed

LEMMA DropNothingA ==
  ASSUME FailoverInv, LockInv, [PA!Next]_(PA!vars), UNCHANGED processB,
         BesideB \/ UNCHANGED vars
  PROVE  LockInv' /\ PA!Keeps
<1>1. /\ PA!MapInv' /\ PA!Keeps /\ (bfA.pc = "off" => UNCHANGED saved)
      /\ PA!Archived \subseteq PA!Archived'
  BY KeepsA, StepA DEF FailoverInv, LockInv
<1>2. ~(Active(mainA) /\ Active(mainB))'
  BY DEF LockInv, BesideB, Obtainable, Active, vars, processA, processB
<1>3. PB!MapInv'
  <2>1. CASE Active(mainB)
    <3>1. UNCHANGED saved
      BY <1>1, <2>1, WaitsA DEF LockInv, FailoverInv
    <3>2. PB!Archived \subseteq PB!Archived'
      BY <1>1 DEF PA!Archived, PB!Archived
    <3> QED
      BY <3>1, <3>2
      DEF LockInv, PB!MapInv, PB!Known, PB!AboveOrigin, PB!FromOrigin, PB!AncestorsOf,
          PB!ParentClosed, processB
  <2>2. CASE ~Active(mainB)
    BY <2>2, WaitsB DEF FailoverInv, processB, PB!MapInv
  <2> QED
    BY <2>1, <2>2
<1> QED
  BY <1>1, <1>2, <1>3 DEF LockInv

LEMMA DropNothingB ==
  ASSUME FailoverInv, LockInv, [PB!Next]_(PB!vars), UNCHANGED processA,
         BesideA \/ UNCHANGED vars
  PROVE  LockInv' /\ PB!Keeps
<1>1. /\ PB!MapInv' /\ PB!Keeps /\ (bfB.pc = "off" => UNCHANGED saved)
      /\ PB!Archived \subseteq PB!Archived'
  BY KeepsB, StepB DEF FailoverInv, LockInv
<1>2. ~(Active(mainA) /\ Active(mainB))'
  BY DEF LockInv, BesideA, Obtainable, Active, vars, processA, processB
<1>3. PA!MapInv'
  <2>1. CASE Active(mainA)
    <3>1. UNCHANGED saved
      BY <1>1, <2>1, WaitsB DEF LockInv, FailoverInv
    <3>2. PA!Archived \subseteq PA!Archived'
      BY <1>1 DEF PA!Archived, PB!Archived
    <3> QED
      BY <3>1, <3>2
      DEF LockInv, PA!MapInv, PA!Known, PA!AboveOrigin, PA!FromOrigin, PA!AncestorsOf,
          PA!ParentClosed, processA
  <2>2. CASE ~Active(mainA)
    BY <2>2, WaitsA DEF FailoverInv, processA, PA!MapInv
  <2> QED
    BY <2>1, <2>2
<1> QED
  BY <1>1, <1>2, <1>3 DEF LockInv

\* NothingDropped, through any crashes, restarts and failures: here it does rest on
\* the lock's being exclusive, since what an archiver saves is what it read when it
\* began and what has become of it since.
THEOREM NothingIsDropped == Spec => NothingDropped
<1> DEFINE Kept ==
      [\A s \in AboveOrigin :
         saved[s] # NoBlock /\ saved'[s] = NoBlock => Parent[s] \in A!Archived]_vars
<1>1. Init => LockInv
  <2>1. PA!Init => PA!MapInv
    BY DEF PA!Init, PA!NoBackfill, PA!BackfillAt, PA!MapInv
  <2>2. PB!Init => PB!MapInv
    BY DEF PB!Init, PB!NoBackfill, PB!BackfillAt, PB!MapInv
  <2> QED
    BY <2>1, <2>2, SameInitA, SameInitB DEF Init, A!Init, LockInv, Active
<1>2. FailoverInv /\ LockInv /\ [Next]_vars => LockInv' /\ Kept
  BY OneSteps, DropNothingA, DropNothingB, SameKeepsA, SameKeepsB
<1> QED
  BY <1>1, <1>2, FailoverInit, FailoverStep, PTL DEF Spec, NothingDropped
=============================================================================
