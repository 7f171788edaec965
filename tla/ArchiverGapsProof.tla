------------------------- MODULE ArchiverGapsProof -------------------------
(***************************************************************************)
(* How the archive grows, and that no gap in it is forgotten: the safety   *)
(* of what Archive promises, with two walks that end at each other's       *)
(* blocks.                                                                 *)
(***************************************************************************)
EXTENDS ArchiverWalkProof

Walkers == {"main", "backfill"}

(***************************************************************************)
(* The two walks.  Their calls ask for the head or for a block by its      *)
(* root, and get the block they asked for; a failure has been counted,     *)
(* unless the chain has come to its end; and nothing is left over from an  *)
(* earlier walk.                                                           *)
(***************************************************************************)
CallPart ==
  \A t \in Walkers :
    /\ call[t].stage # "ok" => ~call[t].existed
    /\ call[t].id \in Blocks \cup {NoBlock, HeadId}
    /\ HasHeader(t) /\ call[t].id # HeadId => call[t].hdr = call[t].id

MainPart ==
  /\ main.pc \in {"idle", "down"} => call["main"] = NoCall
  /\ call["main"].id \in {HeadId, NoBlock} \cup {Parent[b] : b \in Archived}
  /\ main.pc = "live" /\ call["main"].id # NoBlock =>
       main.attempts + (IF Failed("main") THEN 1 ELSE 0) <= errors

BackfillIdle ==
  /\ bf.pc \in {"off", "load"} => mem = NoEntries
  /\ bf.pc \in {"off", "load", "next"} => bf.start = NoBlock

RearchiveIdle == ra.pc # "call" => call["rearchive"] = NoCall

WalkInv == CallPart /\ MainPart /\ BackfillIdle /\ RearchiveIdle

\* What one request of a walk makes of its call and of the store: it goes on
\* towards the block it is for, ends at a block that is stored, or fails.
Written(t) == store' = [store EXCEPT ![call[t].hdr] = call[t].data]

GoesOn(t, c) ==
  /\ c.stage \in {"exists", "sidecars", "write"}
  /\ ~c.existed
  /\ UNCHANGED <<store, errors>>

Ends(t, c) ==
  /\ c.stage = "ok"
  /\ HasHeader(t)
  /\ c.hdr = call[t].hdr
  /\ UNCHANGED errors
  /\ \/ c.existed /\ c.hdr \in Archived /\ UNCHANGED store
     \/ ~c.existed /\ call[t].stage = "write" /\ Written(t)

Fails(t, c) ==
  /\ c.stage \in {"error", "notFound"}
  /\ ~c.existed
  /\ c.hdr = NoBlock
  /\ \/ UNCHANGED <<store, errors>> /\ Resolve(call[t].id, head) = {}
     \/ Fail /\ UNCHANGED store
     \/ Fail /\ UnackedWrites /\ call[t].stage = "write" /\ Written(t)

Outcome(t, c) ==
  /\ call' = [call EXCEPT ![t] = c]
  /\ c.id = call[t].id
  /\ \/ HasHeader(t) /\ c.hdr = call[t].hdr
     \/ c.hdr \in Resolve(call[t].id, head)
     \/ c.hdr = NoBlock
  /\ GoesOn(t, c) \/ Ends(t, c) \/ Fails(t, c)

LEMMA PersistOutcome ==
  ASSUME TypeInv, WalkInv, NEW t \in Walkers, Persist(t)
  PROVE  \E c : Outcome(t, c)
<1>1. /\ t \in Threads /\ t # "rearchive"
      /\ call \in [Threads -> Calls] /\ call[t] \in Calls
      /\ call[t].stage # "ok" => ~call[t].existed
  BY DEF Walkers, Threads, TypeInv, TypeOK, WalkInv, CallPart
<1>2. ASSUME NEW kind \in {"error", "notFound"}, ReturnError(t, kind),
             \/ UNCHANGED <<store, errors>> /\ Resolve(call[t].id, head) = {}
             \/ Fail /\ UNCHANGED store
             \/ Fail /\ UnackedWrites /\ call[t].stage = "write" /\ Written(t)
      PROVE  Outcome(t, CallFor(kind, call[t].id))
  BY <1>2 DEF ReturnError, CallFor, Outcome, Fails
<1>3. CASE BeaconBlockHeader(t)
  <2>1. ASSUME NEW b \in Resolve(call[t].id, head), UNCHANGED <<store, errors>>,
               call' = [call EXCEPT ![t] = [@ EXCEPT !.stage = "exists", !.hdr = b]]
        PROVE  Outcome(t, [call[t] EXCEPT !.stage = "exists", !.hdr = b])
    BY <1>1, <1>3, <2>1 DEF BeaconBlockHeader, Calls, Outcome, GoesOn
  <2> QED
    BY <1>2, <1>3, <2>1 DEF BeaconBlockHeader
<1>4. CASE Exists(t)
  <2> DEFINE existed == call[t].hdr \in Archived
             stage   == IF existed /\ ~Overwrites(t) THEN "ok" ELSE "sidecars"
             c       == [call[t] EXCEPT !.existed = existed, !.stage = stage]
  <2>1. /\ c.stage = stage /\ c.hdr = call[t].hdr /\ c.id = call[t].id
        /\ c.existed = existed
    BY <1>1 DEF Calls
  <2>2. /\ stage = "ok" => existed
        /\ stage # "ok" => stage = "sidecars" /\ ~existed
    BY <1>1 DEF Overwrites
  <2>3. HasHeader(t) /\ UNCHANGED store
    BY <1>4 DEF Exists, HasHeader
  <2>4. \/ call' = [call EXCEPT ![t] = c] /\ UNCHANGED errors
        \/ Fail /\ ReturnError(t, "error")
    BY <1>4 DEF Exists
  <2>5. ASSUME call' = [call EXCEPT ![t] = c], UNCHANGED errors
        PROVE  Outcome(t, c)
    <3>1. GoesOn(t, c) \/ Ends(t, c)
      BY <2>1, <2>2, <2>3, <2>5 DEF GoesOn, Ends
    <3> QED
      BY <2>1, <2>3, <2>5, <3>1 DEF Outcome
  <2> QED
    BY <1>2, <2>3, <2>4, <2>5
<1>5. CASE BlobSidecars(t)
  <2>1. ASSUME UNCHANGED <<store, errors>>,
               call' = [call EXCEPT ![t] =
                         [@ EXCEPT !.stage = "write", !.data = SidecarsOf(call[t])]]
        PROVE  Outcome(t, [call[t] EXCEPT !.stage = "write", !.data = SidecarsOf(call[t])])
    BY <1>1, <1>5, <2>1 DEF BlobSidecars, HasHeader, Calls, Outcome, GoesOn
  <2> QED
    BY <1>2, <1>5, <2>1 DEF BlobSidecars
<1>6. CASE WriteBlob(t)
  <2>1. ASSUME Written(t), UNCHANGED errors,
               call' = [call EXCEPT ![t] = [@ EXCEPT !.stage = "ok", !.data = NoData]]
        PROVE  Outcome(t, [call[t] EXCEPT !.stage = "ok", !.data = NoData])
    BY <1>1, <1>6, <2>1 DEF WriteBlob, HasHeader, Calls, Outcome, Ends
  <2> QED
    BY <1>2, <1>6, <2>1 DEF WriteBlob, Written
<1> QED
  BY <1>3, <1>4, <1>5, <1>6 DEF Persist

\* The blocks that the identifiers of walks resolve to.
LEMMA WalkersResolve ==
  ASSUME NEW id \in Blocks \cup {NoBlock}
  PROVE  Resolve(id, head) = {id} \cap Blocks
BY BlocksAssumption DEF Resolve

\* A request of a walk keeps the invariant.
LEMMA PersistWalks ==
  ASSUME TypeInv, WalkInv, [Next]_vars, NEW t \in Walkers, Persist(t)
  PROVE  WalkInv'
<1>1. PICK c : Outcome(t, c)
  BY PersistOutcome
<1>2. /\ UNCHANGED <<main, bf, ra, mem>>
      /\ call \in [Threads -> Calls]
      /\ t \in Threads /\ t # "rearchive"
      /\ call[t].stage \notin {"idle", "ok", "error", "notFound"}
      /\ errors \in Nat /\ main.attempts \in Nat
  BY PersistTypes DEF control, Walkers, Threads, TypeInv, TypeOK
<1>3. \A u \in Threads : call'[u] = IF u = t THEN c ELSE call[u]
  BY <1>1, <1>2 DEF Outcome
<1>4. c.id = call[t].id /\ c.id \in Blocks \cup {NoBlock, HeadId}
  BY <1>1 DEF Outcome, WalkInv, CallPart
<1>5. CallPart'
  <2>1. c.stage # "ok" => ~c.existed
    BY <1>1 DEF Outcome, GoesOn, Ends, Fails
  <2>2. ASSUME c.stage \in {"exists", "sidecars", "write", "ok"}, c.id # HeadId
        PROVE  c.hdr = c.id
    <3>1. Resolve(call[t].id, head) \subseteq {c.id}
      BY <1>4, <2>2, WalkersResolve
    <3>2. c.hdr # NoBlock
      BY <1>2, <1>3, <2>2, StepTypeInv, BlocksAssumption DEF TypeInv, ControlShape, HasHeader
    <3> QED
      BY <1>1, <1>4, <2>2, <3>1, <3>2 DEF Outcome, WalkInv, CallPart
  <2> QED
    BY <1>3, <1>4, <2>1, <2>2 DEF WalkInv, CallPart, Walkers, Threads, HasHeader
<1>6. MainPart'
  <2>1. main.pc \in {"idle", "down"} => t # "main"
    BY <1>2 DEF WalkInv, MainPart, NoCall, CallFor
  <2>2. call'["main"].id \in {HeadId, NoBlock} \cup {Parent[b] : b \in Archived'}
    BY <1>3, <1>4, ArchiveGrows DEF WalkInv, MainPart, Threads
  <2>3. ASSUME t = "main", main.pc = "live", c.id # NoBlock
        PROVE  main.attempts + (IF c.stage \in {"error", "notFound"} THEN 1 ELSE 0) <= errors'
    <3>1. main.attempts <= errors
      BY <1>2, <1>4, <2>3 DEF WalkInv, MainPart, Failed
    <3>2. Resolve(call[t].id, head) # {}
      BY <1>4, <2>3, WalkersResolve DEF Resolve
    <3>3. (errors' = errors /\ c.stage \notin {"error", "notFound"}) \/ errors' = errors + 1
      BY <1>1, <3>2 DEF Outcome, GoesOn, Ends, Fails, Fail
    <3> QED
      BY <1>2, <3>1, <3>3
  <2>4. errors' \in Nat /\ errors <= errors'
    BY <1>1, <1>2 DEF Outcome, GoesOn, Ends, Fails, Fail
  <2>5. ASSUME main.pc = "live", call'["main"].id # NoBlock
        PROVE  main.attempts + (IF Failed("main")' THEN 1 ELSE 0) <= errors'
    BY <1>2, <1>3, <2>3, <2>4, <2>5 DEF WalkInv, MainPart, Failed, Threads
  <2> QED
    BY <1>2, <1>3, <2>1, <2>2, <2>5 DEF WalkInv, MainPart, Failed, Threads
<1>7. BackfillIdle' /\ RearchiveIdle'
  BY <1>2, <1>3 DEF WalkInv, BackfillIdle, RearchiveIdle, Threads
<1> QED
  BY <1>5, <1>6, <1>7 DEF WalkInv

\* So do the steps of the main thread and those of the backfill goroutine.
LEMMA MainWalks ==
  ASSUME TypeInv, ProgressInv, OriginInv, WalkInv, [Next]_vars, MainStep
  PROVE  WalkInv'
<1>1. /\ call \in [Threads -> Calls]
      /\ main \in [pc : {"down", "seed", "lock", "idle", "live"}, attempts : Nat]
      /\ errors \in Nat
  BY DEF TypeInv, TypeOK
<1>2. CASE Persist("main")
  BY <1>2, PersistWalks DEF Walkers
<1>3. ASSUME ProcessExit
      PROVE  WalkInv'
  <2>1. CallPart' /\ MainPart'
    BY <1>3 DEF ProcessExit, CallPart, MainPart, Walkers, Threads, NoCall, CallFor, HasHeader
  <2>2. BackfillIdle' /\ RearchiveIdle'
    BY <1>3 DEF ProcessExit, BackfillIdle, RearchiveIdle, NoBackfill, BackfillAt, Threads
  <2> QED
    BY <2>1, <2>2 DEF WalkInv
\* A step that begins or ends a call of the main thread.
<1>4. ASSUME NEW id \in Blocks \cup {NoBlock, HeadId},
             StartCall("main", id) \/ (EndCall("main") /\ id = NoBlock),
             UNCHANGED <<ra, mem>>
      PROVE  /\ CallPart' /\ RearchiveIdle'
             /\ call'["main"].id = id
             /\ call'["main"].stage \in {"header", "idle"}
  <2>1. PICK stage \in {"header", "idle"} : call' = [call EXCEPT !["main"] = CallFor(stage, id)]
    BY <1>4 DEF StartCall, EndCall, NoCall
  <2>2. call'["main"] = CallFor(stage, id) /\ \A u \in Threads \ {"main"} : call'[u] = call[u]
    BY <1>1, <2>1 DEF Threads
  <2>3. CallPart'
    BY <2>2 DEF WalkInv, CallPart, CallFor, Walkers, Threads, HasHeader
  <2>4. RearchiveIdle'
    BY <1>4, <2>2 DEF WalkInv, RearchiveIdle, Threads
  <2> QED
    BY <2>2, <2>3, <2>4 DEF CallFor
<1>5. EndCall("main") => call'["main"] = NoCall
  BY <1>1 DEF EndCall, Threads
<1>6. NoBlock # HeadId
  BY BlocksAssumption
<1>7. CASE SeedDone
  BY <1>7
  DEF SeedDone, WalkInv, CallPart, MainPart, BackfillIdle, RearchiveIdle, Archived, HasHeader
<1>8. CASE SeedRetry \/ Tick
  <2>1. /\ StartCall("main", HeadId) /\ UNCHANGED <<ra, mem, bf, store>>
        /\ errors' = errors
        /\ main'.pc = "seed" \/ main' = [pc |-> "live", attempts |-> 0]
    BY <1>1, <1>8 DEF SeedRetry, Tick
  <2>2. call'["main"].id = HeadId /\ call'["main"].stage = "header" /\ CallPart' /\ RearchiveIdle'
    BY <1>1, <1>4, <2>1 DEF StartCall, CallFor, Threads
  <2>3. MainPart'
    BY <1>1, <2>1, <2>2 DEF MainPart, Failed
  <2>4. BackfillIdle'
    BY <2>1 DEF WalkInv, BackfillIdle
  <2> QED
    BY <2>2, <2>3, <2>4 DEF WalkInv
<1>9. CASE SeedFail \/ LockFails
  BY <1>3, <1>9 DEF SeedFail, LockFails
<1>10. CASE ObtainLock
  <2>1. bf.pc = "off" /\ mem = NoEntries
    BY <1>10 DEF ObtainLock, OriginInv, SeedPart, Seeding, WalkInv, BackfillIdle
  <2>2. call'["main"] = NoCall /\ CallPart' /\ RearchiveIdle'
    BY <1>4, <1>5, <1>10 DEF ObtainLock
  <2>3. MainPart'
    BY <1>10, <2>2 DEF ObtainLock, MainPart, NoCall, CallFor
  <2>4. BackfillIdle'
    BY <1>10, <2>1 DEF ObtainLock, BackfillIdle, BackfillAt
  <2> QED
    BY <2>2, <2>3, <2>4 DEF WalkInv
<1>11. CASE LiveKnown \/ LiveGiveUp
  <2>1. /\ call'["main"] = NoCall /\ CallPart' /\ RearchiveIdle'
        /\ main'.pc = "idle" /\ UNCHANGED <<bf, mem>>
    BY <1>4, <1>5, <1>11 DEF LiveKnown, LiveGiveUp
  <2>2. MainPart'
    BY <2>1 DEF MainPart, NoCall, CallFor
  <2> QED
    BY <2>1, <2>2 DEF WalkInv, BackfillIdle
<1>12. CASE LiveWalk
  <2> DEFINE b == call["main"].hdr
  <2>1. b \in Archived /\ b \in Blocks /\ Parent[b] \in Blocks \cup {NoBlock}
    BY <1>12, ParentAssumption
    DEF LiveWalk, ProgressInv, TypeInv, ControlShape, HasHeader, Threads
  <2>2. /\ StartCall("main", Parent[b]) /\ main' = [pc |-> "live", attempts |-> 0]
        /\ UNCHANGED <<ra, mem, bf, store, errors>>
    BY <1>12 DEF LiveWalk
  <2>3. /\ call'["main"].id = Parent[b] /\ call'["main"].stage = "header"
        /\ CallPart' /\ RearchiveIdle'
    BY <1>1, <1>4, <2>1, <2>2 DEF StartCall, CallFor, Threads
  <2>4. Archived' = Archived
    BY <2>2 DEF Archived
  <2>5. MainPart'
    BY <1>1, <2>1, <2>2, <2>3, <2>4 DEF MainPart, Failed
  <2> QED
    BY <2>2, <2>3, <2>5 DEF WalkInv, BackfillIdle
<1>13. CASE LiveRetry
  <2> DEFINE id == call["main"].id
  <2>1. id \in Blocks \cup {NoBlock, HeadId}
    BY DEF WalkInv, CallPart, Walkers
  <2>2. /\ StartCall("main", id) /\ main' = [main EXCEPT !.attempts = @ + 1]
        /\ UNCHANGED <<ra, mem, bf, store, errors>>
        /\ main.pc = "live" /\ Failed("main")
    BY <1>13 DEF LiveRetry
  <2>3. /\ call'["main"].id = id /\ call'["main"].stage = "header"
        /\ CallPart' /\ RearchiveIdle'
    BY <1>1, <1>4, <2>1, <2>2 DEF StartCall, CallFor, Threads
  <2>4. Archived' = Archived /\ main'.pc = "live" /\ main'.attempts = main.attempts + 1
    BY <1>1, <2>2 DEF Archived
  <2>5. MainPart'
    BY <1>1, <2>2, <2>3, <2>4 DEF WalkInv, MainPart, Failed
  <2> QED
    BY <2>2, <2>3, <2>5 DEF WalkInv, BackfillIdle
<1> QED
  BY <1>2, <1>7, <1>8, <1>9, <1>10, <1>11, <1>12, <1>13 DEF MainStep

LEMMA BackfillWalks ==
  ASSUME TypeInv, ProgressInv, OriginInv, WalkInv, [Next]_vars, BackfillStep
  PROVE  WalkInv'
<1>1. call \in [Threads -> Calls] /\ errors \in Nat
  BY DEF TypeInv, TypeOK
<1>2. CASE Persist("backfill")
  BY <1>2, PersistWalks DEF Walkers
<1>3. CASE BackfillLoadFails
  <2>1. CallPart' /\ MainPart'
    BY <1>3
    DEF BackfillLoadFails, ProcessExit, CallPart, MainPart, Walkers, Threads, NoCall, CallFor,
        HasHeader
  <2>2. BackfillIdle' /\ RearchiveIdle'
    BY <1>3
    DEF BackfillLoadFails, ProcessExit, BackfillIdle, RearchiveIdle, NoBackfill, BackfillAt, Threads
  <2> QED
    BY <2>1, <2>2 DEF WalkInv
<1>4. \A entries : SaveBackfills(entries) => errors' \in Nat /\ errors <= errors'
  BY <1>1 DEF SaveBackfills, Fail
\* The steps of the goroutine itself.
<1>5. ASSUME UNCHANGED <<main, ra, store>>, errors' \in Nat, errors <= errors',
             \/ UNCHANGED call
             \/ EndCall("backfill")
             \/ bf.pc = "walk" /\ StartCall("backfill", Parent[bf.curr])
      PROVE  CallPart' /\ MainPart' /\ RearchiveIdle'
  <2>1. \A u \in Threads \ {"backfill"} : call'[u] = call[u]
    BY <1>1, <1>5 DEF StartCall, EndCall
  <2>2. \/ call'["backfill"] = call["backfill"]
        \/ call'["backfill"] = NoCall
        \/ bf.pc = "walk" /\ call'["backfill"] = CallFor("header", Parent[bf.curr])
    BY <1>1, <1>5 DEF StartCall, EndCall, Threads
  <2>3. bf.pc = "walk" => Parent[bf.curr] \in Blocks \cup {NoBlock}
    BY ParentAssumption DEF TypeInv, ControlShape
  <2>4. CallPart'
    BY <2>1, <2>2, <2>3
    DEF WalkInv, CallPart, NoCall, CallFor, Walkers, Threads, HasHeader
  <2>5. Archived' = Archived /\ main'.attempts \in Nat
    BY <1>5 DEF Archived, TypeInv, TypeOK
  <2>6. MainPart'
    BY <1>1, <1>5, <2>1, <2>5 DEF WalkInv, MainPart, Failed, Threads
  <2>7. RearchiveIdle'
    BY <1>5, <2>1 DEF WalkInv, RearchiveIdle, Threads
  <2> QED
    BY <2>4, <2>6, <2>7
<1>6. CASE BackfillLoad \/ BackfillFinish
  <2>1. CallPart' /\ MainPart' /\ RearchiveIdle'
    BY <1>4, <1>5, <1>6 DEF BackfillLoad, BackfillFinish
  <2>2. BackfillIdle'
    BY <1>6 DEF BackfillLoad, BackfillFinish, BackfillIdle, BackfillAt
  <2> QED
    BY <2>1, <2>2 DEF WalkInv
<1>7. CASE (\E s \in Blocks : BackfillNext(s)) \/ BackfillReturns
  <2>1. CallPart' /\ MainPart' /\ RearchiveIdle'
    BY <1>1, <1>5, <1>7 DEF BackfillNext, BackfillReturns
  <2>2. BackfillIdle'
    BY <1>7 DEF BackfillNext, BackfillReturns, NoBackfill, BackfillAt, BackfillIdle
  <2> QED
    BY <2>1, <2>2 DEF WalkInv
<1>8. CASE BackfillAtOrigin \/ BackfillWalk \/ BackfillRetry
  <2>1. CallPart' /\ MainPart' /\ RearchiveIdle'
    BY <1>1, <1>5, <1>8 DEF BackfillAtOrigin, BackfillWalk, BackfillRetry
  <2>2. bf'.pc \in {"finish", "call", "walk"}
    BY <1>8 DEF BackfillAtOrigin, BackfillWalk, BackfillRetry, TypeInv, TypeOK
  <2> QED
    BY <2>1, <2>2 DEF WalkInv, BackfillIdle
<1>9. CASE BackfillAdvance
  <2>1. errors' \in Nat /\ errors <= errors'
    BY <1>1, <1>4, <1>9 DEF BackfillAdvance
  <2>2. CallPart' /\ MainPart' /\ RearchiveIdle'
    BY <1>5, <1>9, <2>1 DEF BackfillAdvance
  <2>3. bf'.pc \in {"finish", "walk"}
    BY <1>9 DEF BackfillAdvance, TypeInv, TypeOK
  <2> QED
    BY <2>2, <2>3 DEF WalkInv, BackfillIdle
<1> QED
  BY <1>2, <1>3, <1>6, <1>7, <1>8, <1>9 DEF BackfillStep

LEMMA StepWalks == TypeInv /\ ProgressInv /\ OriginInv /\ WalkInv /\ [Next]_vars => WalkInv'
<1> SUFFICES ASSUME TypeInv, ProgressInv, OriginInv, WalkInv, [Next]_vars
             PROVE  WalkInv'
  OBVIOUS
<1>1. call \in [Threads -> Calls] /\ errors \in Nat /\ main.attempts \in Nat
  BY DEF TypeInv, TypeOK
\* A step beside the walks.
<1>2. ASSUME UNCHANGED <<main, bf, mem>>, errors' \in Nat, errors <= errors', RearchiveIdle',
             \A t \in Walkers : call'[t] = call[t]
      PROVE  WalkInv'
  <2>1. Archived \subseteq Archived'
    BY ArchiveGrows
  <2>2. CallPart' /\ BackfillIdle'
    BY <1>2 DEF WalkInv, CallPart, BackfillIdle, HasHeader
  <2>3. MainPart'
    BY <1>1, <1>2, <2>1 DEF WalkInv, MainPart, Walkers, Failed
  <2> QED
    BY <1>2, <2>2, <2>3 DEF WalkInv
<1>3. CASE RearchiveStep
  <2>1. CASE Persist("rearchive")
    <3>1. PICK c : call' = [call EXCEPT !["rearchive"] = c]
      BY <2>1, PersistTypes DEF Threads
    <3>2. errors' \in Nat /\ errors <= errors'
      <4>1. UNCHANGED errors \/ Fail
        BY <2>1 DEF Persist, BeaconBlockHeader, Exists, BlobSidecars, WriteBlob
      <4> QED
        BY <1>1, <4>1 DEF Fail
    <3>3. ra.pc = "call" /\ UNCHANGED <<main, bf, mem, ra>>
      BY <2>1, PersistTypes DEF Threads, WalkInv, RearchiveIdle, NoCall, CallFor, control
    <3> QED
      BY <1>1, <1>2, <3>1, <3>2, <3>3 DEF Walkers, Threads, RearchiveIdle
  <2>2. CASE RearchiveSlotDone \/ RearchiveRetry \/ RearchiveFail
    <3>1. /\ \A t \in Walkers : call'[t] = call[t]
          /\ UNCHANGED <<main, bf, mem, errors>>
      BY <1>1, <2>2
      DEF RearchiveSlotDone, RearchiveRetry, RearchiveFail, StartCall, EndCall, Walkers, Threads
    <3>2. RearchiveIdle'
      BY <1>1, <2>2
      DEF RearchiveSlotDone, RearchiveRetry, RearchiveFail, StartCall, EndCall, Threads,
          RearchiveIdle, TypeInv, TypeOK
    <3> QED
      BY <1>1, <1>2, <3>1, <3>2
  <2> QED
    BY <1>3, <2>1, <2>2 DEF RearchiveStep
<1>4. CASE \E r \in RearchiveRanges : RearchiveRequest(r[1], r[2]) \/ RearchiveRefuse(r[1], r[2])
  <2>1. RearchiveIdle' /\ \A t \in Walkers : call'[t] = call[t]
    BY <1>1, <1>4
    DEF RearchiveRequest, RearchiveRefuse, RearchiveFrom, StartCall, Walkers, Threads, WalkInv,
        RearchiveIdle
  <2> QED
    BY <1>1, <1>2, <1>4, <2>1 DEF RearchiveRequest, RearchiveRefuse
<1>5. CASE HeadMoves \/ (\E b \in Revised : Republish(b)) \/ UNCHANGED vars
  <2>1. UNCHANGED <<main, bf, mem, ra, call, errors>>
    BY <1>5 DEF HeadMoves, Republish, vars
  <2> QED
    BY <1>1, <1>2, <2>1 DEF WalkInv, RearchiveIdle
<1>6. CASE Crash
  <2>1. CallPart' /\ MainPart'
    BY <1>6
    DEF Crash, ProcessExit, CallPart, MainPart, Walkers, Threads, NoCall, CallFor, HasHeader
  <2>2. BackfillIdle' /\ RearchiveIdle'
    BY <1>6
    DEF Crash, ProcessExit, BackfillIdle, RearchiveIdle, NoBackfill, BackfillAt, Threads
  <2> QED
    BY <2>1, <2>2 DEF WalkInv
<1>7. CASE Restart
  <2>1. /\ call'["main"] = CallFor("header", HeadId)
        /\ \A u \in Threads \ {"main"} : call'[u] = call[u]
        /\ main'.pc = "seed" /\ UNCHANGED <<bf, mem, ra>>
    BY <1>1, <1>7 DEF Restart, StartCall, Threads
  <2>2. CallPart' /\ MainPart'
    BY <2>1 DEF WalkInv, CallPart, MainPart, Walkers, Threads, CallFor, HasHeader
  <2>3. BackfillIdle' /\ RearchiveIdle'
    BY <2>1 DEF WalkInv, BackfillIdle, RearchiveIdle, Threads
  <2> QED
    BY <2>2, <2>3 DEF WalkInv
<1> QED
  BY <1>3, <1>4, <1>5, <1>6, <1>7, MainWalks, BackfillWalks DEF Next, Environment

LEMMA InitWalks == Init => WalkInv
BY DEF Init, WalkInv, CallPart, MainPart, BackfillIdle, RearchiveIdle, NoBackfill, BackfillAt,
       NoRearchive, RearchiveFrom, NoCall, CallFor, Walkers, Threads, HasHeader

(***************************************************************************)
(* The gaps.  A step may drop a target only when its block is stored by    *)
(* then or is no gap, and may store a block only when the block's parent   *)
(* becomes a target.                                                       *)
(***************************************************************************)
Needed == {Parent[b] : b \in AboveOrigin}

\* What is needed are blocks, and walking past the origin is needed by nobody.
LEMMA NeededBlocks == Needed \subseteq Blocks /\ Parent[Origin] \notin Needed
<1> SUFFICES ASSUME NEW b \in AboveOrigin
             PROVE  Parent[b] \in Blocks /\ Parent[b] # Parent[Origin]
  BY DEF Needed
<1>1. Origin \in Blocks /\ Parent[b] \in FromOrigin
  BY BlocksAssumption, OriginBelow DEF AboveOrigin
<1>2. Parent[b] \in Blocks /\ Origin \in AncestorsOf[Parent[b]]
  BY <1>1 DEF FromOrigin
<1>3. Origin = Parent[b] \/ Slot[Origin] < Slot[Parent[b]]
  BY <1>2, AncestorsOlder
<1>4. ASSUME Parent[b] = Parent[Origin]
      PROVE  FALSE
  <2>1. Slot[Parent[b]] < Slot[Origin]
    BY <1>1, <1>2, <1>4, SlotAssumption
  <2> QED
    BY <1>1, <1>2, <1>3, <2>1, SlotAssumption
<1> QED
  BY <1>2, <1>4

\* What a step of a process hands on: its targets, unless they are reached, and a
\* target for every block that it stores.  A process that ends stores nothing.
HandsOn ==
  IF main.pc # "down" /\ main'.pc = "down"
  THEN Archived' = Archived
  ELSE Calm' => /\ Targets \cap Needed \subseteq Archived' \cup Targets'
                /\ \A b \in Archived' \ Archived : Parent[b] \in Archived' \cup Targets'

\* A block that a walk was on its way to is the one its call returned.
LEMMA WalkReturns ==
  ASSUME WalkInv, NEW t \in Walkers, HasHeader(t)
  PROVE  {call[t].id} \cap Needed \subseteq {call[t].hdr}
BY NeededBlocks, BlocksAssumption DEF WalkInv, CallPart

\* What a request of a walk does to its targets and to the archive.
LEMMA PersistTargets ==
  ASSUME TypeInv, ProgressInv, OriginInv, WalkInv, NEW t \in Walkers, Persist(t)
  PROVE  HandsOn
<1>1. PICK c : Outcome(t, c)
  BY PersistOutcome
<1>2. /\ UNCHANGED <<main, bf, mem>>
      /\ call \in [Threads -> Calls]
      /\ t \in Threads
      /\ call[t].stage \notin {"idle", "ok", "error", "notFound"}
      /\ store \in [Blocks -> Contents \cup {NoData}]
      /\ errors \in Nat
  BY PersistTypes DEF control, Walkers, Threads, TypeInv, TypeOK
<1>3. \A u \in Threads : call'[u] = IF u = t THEN c ELSE call[u]
  BY <1>1, <1>2 DEF Outcome
<1>4. c.id = call[t].id /\ UNCHANGED PendingTargets
  BY <1>1, <1>2 DEF Outcome, PendingTargets
<1>5. t = "main" => UNCHANGED BackfillTargets
  BY <1>2, <1>3 DEF BackfillTargets, Threads
<1>6. t = "backfill" => UNCHANGED MainTargets
  BY <1>2, <1>3 DEF MainTargets, Threads
<1>7. t = "backfill" => bf.pc = "call" /\ BackfillTargets = {Parent[bf.curr]}
  BY <1>2 DEF OriginInv, BackfillPart, NoCall, CallFor, BackfillTargets
<1>8. t = "main" => MainTargets = {call[t].id}
  BY <1>2 DEF MainTargets
\* The call goes on, or fails: the thread's target stays.
<1>9. CASE c.stage # "ok" /\ UNCHANGED store
  <2>1. t = "main" => UNCHANGED MainTargets
    BY <1>2, <1>3, <1>4, <1>8, <1>9 DEF MainTargets, Threads
  <2>2. t = "backfill" => UNCHANGED BackfillTargets
    BY <1>2, <1>3, <1>7, <1>9 DEF BackfillTargets, Threads
  <2>3. UNCHANGED Targets /\ UNCHANGED Archived
    BY <1>4, <1>5, <1>6, <1>9, <2>1, <2>2 DEF Targets, Archived, Walkers
  <2> QED
    BY <1>2, <2>3 DEF HandsOn
\* The call returns a block that is stored.
<1>10. CASE Ends(t, c)
  <2> DEFINE h == call[t].hdr
  <2>1. HasHeader(t) /\ c.hdr = h /\ h \in Blocks /\ c.stage = "ok"
    BY <1>2, <1>10 DEF Ends, TypeInv, ControlShape
  <2>2. ~c.existed => call[t].data # NoData /\ Written(t)
    BY <1>10, <1>2, EnvironmentAssumption DEF Ends, TypeInv, ControlShape, Contents
  <2>3. h \in Archived' /\ Archived' \subseteq Archived \cup {h}
    BY <1>2, <1>10, <2>1, <2>2 DEF Ends, Written, Archived
  <2>4. c.existed => Archived' = Archived
    BY <1>10, <2>2 DEF Ends, Archived
  <2>5. t = "main" => MainTargets \cap Needed \subseteq {h}
    BY <1>8, <2>1, WalkReturns
  <2>6. t = "backfill" => BackfillTargets \subseteq {h}
    BY <1>7, <2>1 DEF ProgressInv
  <2>7. t = "main" /\ ~c.existed => Parent[h] \in MainTargets'
    BY <1>3, <2>1 DEF MainTargets, Threads
  <2>8. t = "backfill" /\ ~c.existed => Parent[h] \in BackfillTargets'
    BY <1>3, <2>1 DEF BackfillTargets, Threads
  <2>9. Targets \cap Needed \subseteq {h} \cup Targets'
    BY <1>4, <1>5, <1>6, <2>5, <2>6 DEF Targets, Walkers
  <2>10. ~c.existed => Parent[h] \in Targets'
    BY <2>7, <2>8 DEF Targets, Walkers
  <2> QED
    BY <1>2, <2>3, <2>4, <2>9, <2>10 DEF HandsOn
\* A write that fails and takes effect disturbs the process.
<1>11. CASE Fail /\ UnackedWrites
  BY <1>2, <1>11 DEF Fail, Calm, HandsOn
<1> QED
  BY <1>1, <1>9, <1>10, <1>11 DEF Outcome, GoesOn, Fails

\* The steps of the main thread: only at the end of a walk does it forget where
\* it was going, and it ends at a stored block, or gives up after more failures
\* than there were.
LEMMA MainTargetsKept ==
  ASSUME TypeInv, ProgressInv, OriginInv, WalkInv, MainStep
  PROVE  HandsOn
<1>1. /\ call \in [Threads -> Calls] /\ "main" \in Threads /\ "backfill" \in Threads
      /\ errors \in Nat
      /\ HeadId \notin Needed /\ NoBlock \notin Needed
  BY NeededBlocks, BlocksAssumption DEF TypeInv, TypeOK, Threads
\* It forgets only what is stored or no gap.
<1>2. ASSUME UNCHANGED store,
             main'.pc # "down" /\ Calm' => Targets \cap Needed \subseteq Archived \cup Targets',
             main.pc # "down"
      PROVE  HandsOn
  <2>1. Archived' = Archived
    BY <1>2 DEF Archived
  <2> QED
    BY <1>2, <2>1 DEF HandsOn
\* It leaves the backfill alone.
<1>3. ASSUME UNCHANGED <<bf, mem, store>>, call'["backfill"] = call["backfill"],
             main'.pc # "down" /\ Calm' =>
               MainTargets \cap Needed \subseteq Archived \cup MainTargets',
             main.pc # "down"
      PROVE  HandsOn
  <2>1. UNCHANGED <<BackfillTargets, PendingTargets>>
    BY <1>3 DEF BackfillTargets, PendingTargets
  <2> QED
    BY <1>2, <1>3, <2>1 DEF Targets
<1>4. \A id : StartCall("main", id) => call'["backfill"] = call["backfill"]
                                       /\ call'["main"] = CallFor("header", id)
  BY <1>1 DEF StartCall
<1>5. EndCall("main") => call'["backfill"] = call["backfill"] /\ call'["main"] = NoCall
  BY <1>1 DEF EndCall
<1>6. \A id : call'["main"] = CallFor("header", id) => MainTargets' = {id}
  BY DEF MainTargets, CallFor
<1>7. CASE Persist("main")
  BY <1>7, PersistTargets DEF Walkers
<1>8. CASE SeedDone
  <2>1. MainTargets' = MainTargets
    BY <1>8 DEF SeedDone, MainTargets
  <2> QED
    BY <1>3, <1>8, <2>1 DEF SeedDone
<1>9. CASE SeedRetry
  <2>1. MainTargets = {HeadId}
    BY <1>9 DEF SeedRetry, OriginInv, SeedPart, Seeding, MainTargets, Failed
  <2> QED
    BY <1>1, <1>3, <1>4, <1>9, <2>1 DEF SeedRetry
<1>10. CASE SeedFail \/ LockFails
  BY <1>2, <1>10 DEF SeedFail, LockFails, ProcessExit
<1>11. CASE ObtainLock
  <2> DEFINE h == call["main"].hdr
  <2>1. bf.pc = "off" /\ mem = NoEntries /\ call["backfill"] = NoCall
    BY <1>11
    DEF ObtainLock, OriginInv, SeedPart, BackfillPart, Seeding, WalkInv, BackfillIdle
  <2>2. Targets = {Parent[h]}
    BY <1>11, <2>1
    DEF ObtainLock, Targets, MainTargets, BackfillTargets, PendingTargets, NoEntries, NoCall,
        CallFor, TypeInv, ControlShape
  <2>3. call'["backfill"] = NoCall /\ bf'.pc = "load" /\ bf'.curr = h
    BY <1>5, <1>11, <2>1 DEF ObtainLock, BackfillAt
  <2>4. Parent[h] \in BackfillTargets'
    BY <2>3 DEF BackfillTargets, NoCall, CallFor
  <2> QED
    BY <1>2, <1>11, <2>2, <2>4 DEF ObtainLock, Targets
<1>12. CASE Tick
  <2>1. MainTargets = {NoBlock}
    BY <1>12 DEF Tick, WalkInv, MainPart, MainTargets, NoCall, CallFor
  <2> QED
    BY <1>1, <1>3, <1>4, <1>12, <2>1 DEF Tick
<1>13. CASE LiveKnown
  <2>1. MainTargets \cap Needed \subseteq Archived
    <3>1. HasHeader("main") /\ call["main"].hdr \in Archived
      BY <1>1, <1>13 DEF LiveKnown, HasHeader, ProgressInv
    <3>2. MainTargets = {call["main"].id}
      BY <1>13 DEF LiveKnown, MainTargets
    <3> QED
      BY <3>1, <3>2, WalkReturns DEF Walkers
  <2> QED
    BY <1>3, <1>5, <1>13, <2>1 DEF LiveKnown
<1>14. CASE LiveWalk
  <2>1. MainTargets = {Parent[call["main"].hdr]}
    BY <1>14 DEF LiveWalk, MainTargets
  <2> QED
    BY <1>3, <1>4, <1>6, <1>14, <2>1 DEF LiveWalk
<1>15. CASE LiveRetry
  <2>1. MainTargets = {call["main"].id}
    BY <1>15 DEF LiveRetry, MainTargets, Failed
  <2> QED
    BY <1>3, <1>4, <1>6, <1>15, <2>1 DEF LiveRetry
<1>16. CASE LiveGiveUp
  <2>1. MainTargets = {call["main"].id}
    BY <1>16 DEF LiveGiveUp, MainTargets, Failed
  <2>2. call["main"].id # NoBlock => LiveMaxRetries <= errors
    BY <1>1, <1>16, RetriesAssumption
    DEF LiveGiveUp, WalkInv, MainPart, Exhausted, TypeInv, TypeOK
  <2>3. Calm' => errors < LiveMaxRetries
    BY <1>16 DEF LiveGiveUp, Calm
  <2>4. Calm' => MainTargets \cap Needed = {}
    BY <1>1, <2>1, <2>2, <2>3, RetriesAssumption
  <2> QED
    BY <1>3, <1>5, <1>16, <2>4 DEF LiveGiveUp
<1> QED
  BY <1>7, <1>8, <1>9, <1>10, <1>11, <1>12, <1>13, <1>14, <1>15, <1>16 DEF MainStep

\* The steps of the backfill goroutine hand the target from the entries of the
\* map to the walk, from block to block, and drop it at a stored block only.
LEMMA BackfillTargetsKept ==
  ASSUME TypeInv, ProgressInv, OriginInv, WalkInv, BackfillStep
  PROVE  HandsOn
<1>1. /\ call \in [Threads -> Calls] /\ "main" \in Threads /\ "backfill" \in Threads
      /\ errors \in Nat
      /\ mem \in Entries /\ saved \in Entries
      /\ NoBlock \notin Blocks
  BY BlocksAssumption DEF TypeInv, TypeOK, Threads
\* The goroutine leaves the main thread and the archive alone.
<1>2. ASSUME UNCHANGED <<main, store>>, call'["main"] = call["main"],
             BackfillTargets \cap Needed \subseteq Archived \cup BackfillTargets' \cup PendingTargets',
             PendingTargets \subseteq BackfillTargets' \cup PendingTargets'
      PROVE  HandsOn
  <2>1. Archived' = Archived /\ MainTargets' = MainTargets
    BY <1>2 DEF Archived, MainTargets
  <2> QED
    BY <1>2, <2>1 DEF Targets, HandsOn
<1>3. \A entries : SaveBackfills(entries) => mem' = entries
  BY DEF SaveBackfills
<1>4. EndCall("backfill") => call'["main"] = call["main"] /\ call'["backfill"] = NoCall
  BY <1>1 DEF EndCall
<1>5. bf.pc # "call" => call["backfill"] = NoCall
  BY DEF OriginInv, BackfillPart
<1>6. CASE Persist("backfill")
  BY <1>6, PersistTargets DEF Walkers
<1>7. CASE BackfillLoadFails
  BY <1>7 DEF BackfillLoadFails, ProcessExit, OriginInv, SeedPart, Archived, HandsOn
<1>8. CASE BackfillLoad
  <2>1. /\ BackfillTargets = {Parent[bf.curr]} /\ PendingTargets = {}
        /\ bf.curr \in Blocks
    BY <1>5, <1>8
    DEF BackfillLoad, BackfillTargets, PendingTargets, NoEntries, NoCall, CallFor, WalkInv,
        BackfillIdle, TypeInv, ControlShape
  <2>2. mem' = [saved EXCEPT ![bf.curr] = bf.curr] /\ bf'.start = NoBlock
    BY <1>3, <1>8 DEF BackfillLoad, BackfillAt
  <2>3. mem'[bf.curr] = bf.curr
    BY <1>1, <2>1, <2>2 DEF Entries
  <2>4. Parent[bf.curr] \in PendingTargets'
    BY <1>1, <2>1, <2>2, <2>3 DEF PendingTargets
  <2> QED
    BY <1>2, <1>3, <1>8, <2>1, <2>4 DEF BackfillLoad
<1>9. ASSUME NEW s \in Blocks, BackfillNext(s)
      PROVE  HandsOn
  <2>1. BackfillTargets = {}
    BY <1>5, <1>9 DEF BackfillNext, BackfillTargets, NoCall, CallFor
  <2>2. BackfillTargets' = {Parent[mem[s]]}
    BY <1>5, <1>9 DEF BackfillNext, BackfillTargets, NoCall, CallFor
  <2>3. PendingTargets \subseteq {Parent[mem[s]]} \cup PendingTargets'
    BY <1>9 DEF BackfillNext, PendingTargets
  <2> QED
    BY <1>1, <1>2, <1>9, <2>1, <2>2, <2>3 DEF BackfillNext
<1>10. CASE BackfillReturns
  <2>1. BackfillTargets = {} /\ PendingTargets = {}
    BY <1>5, <1>10
    DEF BackfillReturns, BackfillTargets, PendingTargets, NoEntries, NoCall, CallFor
  <2> QED
    BY <1>1, <1>2, <1>10, <2>1 DEF BackfillReturns
\* A step of the walk that leaves the map.
<1>11. (UNCHANGED mem /\ bf'.start = bf.start) => UNCHANGED PendingTargets
  BY DEF PendingTargets
<1>12. bf \in [pc : {"off", "load", "next", "walk", "call", "finish"},
               start : Blocks \cup {NoBlock}, curr : Blocks \cup {NoBlock},
               count : 0 .. SaveEvery - 1]
  BY DEF TypeInv, TypeOK
<1>13. CASE BackfillAtOrigin
  <2>1. BackfillTargets = {Parent[Origin]}
    BY <1>5, <1>13 DEF BackfillAtOrigin, BackfillTargets, NoCall, CallFor
  <2> QED
    BY <1>1, <1>2, <1>11, <1>12, <1>13, <2>1, NeededBlocks DEF BackfillAtOrigin
<1>14. CASE BackfillWalk
  <2>1. call'["backfill"] = CallFor("header", Parent[bf.curr]) /\ call'["main"] = call["main"]
    BY <1>1, <1>14 DEF BackfillWalk, StartCall
  <2>2. bf'.pc = "call" /\ bf'.curr = bf.curr /\ bf'.start = bf.start
    BY <1>12, <1>14 DEF BackfillWalk
  <2>3. BackfillTargets = {Parent[bf.curr]} /\ BackfillTargets' = {Parent[bf.curr]}
    BY <1>5, <1>14, <2>1, <2>2 DEF BackfillWalk, BackfillTargets, NoCall, CallFor
  <2> QED
    BY <1>1, <1>2, <1>11, <1>14, <2>1, <2>2, <2>3 DEF BackfillWalk
<1>15. CASE BackfillRetry
  <2>1. bf'.pc = "walk" /\ bf'.curr = bf.curr /\ bf'.start = bf.start
    BY <1>12, <1>15 DEF BackfillRetry
  <2>2. BackfillTargets = {Parent[bf.curr]} /\ BackfillTargets' = {Parent[bf.curr]}
    BY <1>4, <1>15, <2>1 DEF BackfillRetry, BackfillTargets, NoCall, CallFor, Failed
  <2> QED
    BY <1>1, <1>2, <1>4, <1>11, <1>15, <2>1, <2>2 DEF BackfillRetry
<1>16. CASE BackfillAdvance
  <2> DEFINE c == call["backfill"]
  <2>1. /\ bf'.pc = IF c.existed THEN "finish" ELSE "walk"
        /\ bf'.curr = c.hdr /\ bf'.start = bf.start
    BY <1>12, <1>16 DEF BackfillAdvance
  <2>2. BackfillTargets \subseteq BackfillTargets'
    BY <1>4, <1>16, <2>1 DEF BackfillAdvance, BackfillTargets, NoCall, CallFor
  <2>3. mem' = mem \/ mem' = [mem EXCEPT ![bf.start] = c.hdr]
    BY <1>3, <1>16 DEF BackfillAdvance
  <2>4. UNCHANGED PendingTargets
    BY <1>1, <2>1, <2>3 DEF PendingTargets, Entries
  <2> QED
    BY <1>2, <1>4, <1>16, <2>2, <2>4 DEF BackfillAdvance
<1>17. CASE BackfillFinish
  <2>1. BackfillTargets = {}
    BY <1>5, <1>17 DEF BackfillFinish, BackfillTargets, NoCall, CallFor
  <2>2. mem' = [mem EXCEPT ![bf.start] = NoBlock] /\ bf'.start = NoBlock
    BY <1>3, <1>17 DEF BackfillFinish, BackfillAt
  <2>3. PendingTargets \subseteq PendingTargets'
    BY <1>1, <2>2 DEF PendingTargets, Entries
  <2> QED
    BY <1>2, <1>3, <1>17, <2>1, <2>3 DEF BackfillFinish
<1> QED
  BY <1>6, <1>7, <1>8, <1>9, <1>10, <1>13, <1>14, <1>15, <1>16, <1>17 DEF BackfillStep

LEMMA StepHandsOn ==
  ASSUME TypeInv, ProgressInv, OriginInv, WalkInv, [Next]_vars
  PROVE  HandsOn
<1>1. ra \in [pc : {"idle", "call", "ok", "failed", "refused"},
              from : Slots, to : Slots, slot : Slots,
              attempts : 0 .. RearchiveMaxRetries - 1,
              rewritten : SUBSET Slots, skipped : SUBSET Slots]
  BY DEF TypeInv, TypeOK
\* The rearchive handler's work is not handed on.
<1>2. CASE RearchiveStep
  <2>1. CASE Persist("rearchive")
    <3>1. ra.pc = "call" /\ UNCHANGED <<main, ra>>
      BY <2>1, PersistTypes DEF Threads, WalkInv, RearchiveIdle, NoCall, CallFor, control
    <3> QED
      BY <3>1 DEF HandsOn, Calm
  <2>2. CASE RearchiveSlotDone \/ RearchiveRetry \/ RearchiveFail
    <3>1. ra'.pc # "idle" /\ UNCHANGED main
      BY <1>1, <2>2 DEF RearchiveSlotDone, RearchiveRetry, RearchiveFail
    <3> QED
      BY <3>1 DEF HandsOn, Calm
  <2> QED
    BY <1>2, <2>1, <2>2 DEF RearchiveStep
<1>3. CASE \E r \in RearchiveRanges : RearchiveRequest(r[1], r[2]) \/ RearchiveRefuse(r[1], r[2])
  BY <1>3 DEF RearchiveRequest, RearchiveRefuse, RearchiveFrom, Calm, HandsOn
\* A process that has ended has no targets to hand on.
<1>4. CASE Restart
  <2>1. /\ bf.pc = "off" /\ mem = NoEntries
        /\ call["main"] = NoCall /\ call["backfill"] = NoCall
    BY <1>4
    DEF Restart, OriginInv, SeedPart, BackfillPart, WalkInv, MainPart, BackfillIdle
  <2>2. Targets = {NoBlock}
    BY <2>1
    DEF Targets, MainTargets, BackfillTargets, PendingTargets, NoCall, CallFor, NoEntries
  <2>3. UNCHANGED Archived
    BY <1>4 DEF Restart, Archived
  <2> QED
    BY <1>4, <2>2, <2>3, NeededBlocks, BlocksAssumption DEF Restart, HandsOn
<1>5. CASE Crash
  BY <1>5 DEF Crash, ProcessExit, Archived, HandsOn
<1>6. CASE HeadMoves \/ (\E b \in Revised : Republish(b)) \/ UNCHANGED vars
  <2>1. UNCHANGED <<main, bf, mem, call, store>>
    BY <1>6 DEF HeadMoves, Republish, vars
  <2>2. UNCHANGED <<Targets, Archived>>
    BY <2>1 DEF Targets, MainTargets, BackfillTargets, PendingTargets, Archived
  <2> QED
    BY <2>1, <2>2 DEF HandsOn
<1> QED
  BY <1>2, <1>3, <1>4, <1>5, <1>6, MainTargetsKept, BackfillTargetsKept DEF Next, Environment

\* What does not disturb a process: its failures do not become fewer, and it ends
\* with the request it serves.
LEMMA ErrorsGrow ==
  ASSUME TypeInv, [Next]_vars
  PROVE  errors \in Nat /\ errors' \in Nat /\ errors <= errors'
<1>1. errors \in Nat
  BY DEF TypeInv, TypeOK
<1>2. UNCHANGED errors \/ Fail
  BY DEF Next, MainStep, BackfillStep, RearchiveStep, Environment, vars, Persist,
         BeaconBlockHeader, Exists, BlobSidecars, WriteBlob, SaveBackfills,
         SeedDone, SeedRetry, SeedFail, ObtainLock, LockFails, Tick, LiveKnown, LiveWalk, LiveRetry,
         LiveGiveUp, BackfillLoad, BackfillLoadFails, BackfillNext, BackfillReturns,
         BackfillAtOrigin, BackfillWalk, BackfillRetry, BackfillAdvance, BackfillFinish,
         RearchiveSlotDone, RearchiveRetry, RearchiveFail, RearchiveRequest, RearchiveRefuse,
         HeadMoves, Republish, Crash, Restart
<1> QED
  BY <1>1, <1>2 DEF Fail

LEMMA UndisturbedBefore ==
  ASSUME TypeInv, OriginInv, WalkInv, [Next]_vars, main'.pc # "down", Undisturbed'
  PROVE  main.pc # "down" /\ Undisturbed
<1>1. /\ restarts \in Nat /\ errors \in Nat /\ errors' \in Nat /\ errors <= errors'
      /\ LiveMaxRetries \in Nat
      /\ ra.pc \in {"idle", "call", "ok", "failed", "refused"}
  BY ErrorsGrow, RetriesAssumption DEF TypeInv, TypeOK
<1>2. main.pc # "down" /\ UNCHANGED restarts /\ ra.pc = "idle"
  <2>1. UNCHANGED <<main, restarts, ra>> => main.pc # "down" /\ ra.pc = "idle"
    BY DEF Undisturbed, Calm
  <2>2. ASSUME NEW t \in Threads, Persist(t)
        PROVE  UNCHANGED <<main, restarts, ra>>
    BY <2>2, PersistTypes DEF control, environment
  <2>3. CASE MainStep
    BY <2>1, <2>2, <2>3
    DEF MainStep, SeedDone, SeedRetry, SeedFail, ObtainLock, LockFails, Tick, LiveKnown, LiveWalk,
        LiveRetry, LiveGiveUp, ProcessExit, environment, Threads, Undisturbed, Calm
  <2>4. CASE BackfillStep
    BY <2>1, <2>2, <2>4
    DEF BackfillStep, BackfillLoad, BackfillLoadFails, BackfillNext, BackfillReturns,
        BackfillAtOrigin, BackfillWalk, BackfillRetry, BackfillAdvance, BackfillFinish,
        ProcessExit, environment, Threads
  <2>5. CASE RearchiveStep
    <3>1. CASE RearchiveSlotDone \/ RearchiveRetry \/ RearchiveFail
      <4>1. ra'.pc # "idle"
        <5>1. ra \in [pc : {"idle", "call", "ok", "failed", "refused"},
                      from : Slots, to : Slots, slot : Slots,
                      attempts : 0 .. RearchiveMaxRetries - 1,
                      rewritten : SUBSET Slots, skipped : SUBSET Slots]
          BY DEF TypeInv, TypeOK
        <5> QED
          BY <3>1, <5>1 DEF RearchiveSlotDone, RearchiveRetry, RearchiveFail
      <4> QED
        BY <4>1 DEF Undisturbed, Calm
    <3> QED
      BY <2>1, <2>2, <2>5, <3>1 DEF RearchiveStep, Threads
  <2>6. CASE Restart
    BY <1>1, <2>6 DEF Restart, Undisturbed
  <2>7. CASE Environment \/ UNCHANGED vars
    BY <2>1, <2>7
    DEF Environment, RearchiveRequest, RearchiveRefuse, RearchiveFrom, HeadMoves, Republish, Crash,
        ProcessExit, vars, Undisturbed, Calm
  <2> QED
    BY <2>3, <2>4, <2>5, <2>6, <2>7 DEF Next
<1> QED
  BY <1>1, <1>2 DEF Undisturbed, Calm

LEMMA StepGaps ==
  TypeInv /\ ProgressInv /\ OriginInv /\ WalkInv /\ GapsOwed /\ [Next]_vars => GapsOwed'
<1> SUFFICES ASSUME TypeInv, ProgressInv, OriginInv, WalkInv, GapsOwed, [Next]_vars,
                    (main.pc # "down")', Undisturbed', NEW b \in Archived' \cap AboveOrigin
             PROVE  Parent[b] \in Archived' \cup Targets'
  BY DEF GapsOwed
<1>1. main.pc # "down" /\ Undisturbed
  BY UndisturbedBefore
<1>2. /\ Targets \cap Needed \subseteq Archived' \cup Targets'
      /\ \A x \in Archived' \ Archived : Parent[x] \in Archived' \cup Targets'
  BY StepHandsOn DEF HandsOn, Undisturbed
<1>3. CASE b \in Archived
  <2>1. Parent[b] \in Archived \cup Targets
    BY <1>1, <1>3 DEF GapsOwed
  <2> QED
    BY <1>2, <2>1, ArchiveGrows DEF Needed
<1> QED
  BY <1>2, <1>3

\* No gap is forgotten while a process runs undisturbed: the backfill, its map
\* and the live walk hand on to each other, block by block, where they are going,
\* and stop at each other's blocks only, whatever fails fewer times than a live
\* walk retries, and wherever the head goes.
THEOREM GapsAreOwed == Spec => []GapsOwed
<1>1. Init => GapsOwed
  BY DEF Init, GapsOwed, Archived
<1> QED
  BY <1>1, InitTypeInv, StepTypeInv, InitProgress, StepProgress, InitOrigin, StepOrigin,
     InitWalks, StepWalks, StepGaps, PTL
  DEF Spec

(***************************************************************************)
(* How the archive grows.  Each step is one of Archive's, or leaves what   *)
(* Archive sees as it is, but for a restart and for what an operator has   *)
(* rearchived.                                                             *)
(***************************************************************************)
Promised == [Promise!Next \/ Restart \/ WriteBlob("rearchive")]_(Promise!vars)

LEMMA SameHeads == Promise!Heads = Heads
BY DEF Heads, FromOrigin, AncestorsOf, ParentClosed,
       Promise!Heads, Promise!FromOrigin, Promise!AncestorsOf, Promise!ParentClosed

\* A step that stores nothing, and gives the archiver no head but the node's.
LEMMA PromiseLearns ==
  ASSUME TypeInv, UNCHANGED Archived, main.pc = "down" <=> main'.pc = "down",
         NEW b \in Heads, Given' \subseteq Given \cup {b}
  PROVE  Promise!Next
<1>1. Promise!Learn(b)
  BY SameHeads DEF Promise!Learn
<1> QED
  BY <1>1 DEF Promise!Next, Heads, FromOrigin

\* What the steps that do not touch the main thread's call, or end it, give it.
LEMMA GivenShrinks ==
  ASSUME UNCHANGED head, call'["main"] = call["main"] \/ call'["main"].hdr = NoBlock
  PROVE  Given' \subseteq Given
BY BlocksAssumption DEF Given

LEMMA PromiseEnds ==
  ASSUME main.pc # "down", ProcessExit, UNCHANGED <<head, store>>
  PROVE  Promise!Next
<1>1. Given' \subseteq Given
  BY GivenShrinks DEF ProcessExit, NoCall, CallFor, Threads
<1>2. Promise!End
  BY <1>1 DEF Promise!End, ProcessExit, Archived
<1> QED
  BY <1>2 DEF Promise!Next

\* The requests of the walks.
LEMMA PersistPromised ==
  ASSUME TypeInv, ProgressInv, OriginInv, WalkInv, NEW t \in Walkers, Persist(t)
  PROVE  Promise!Next
<1>1. PICK c : Outcome(t, c)
  BY PersistOutcome
<1>2. /\ UNCHANGED <<head, main>>
      /\ call \in [Threads -> Calls]
      /\ t \in Threads
      /\ call[t].stage \notin {"idle", "ok", "error", "notFound"}
      /\ store \in [Blocks -> Contents \cup {NoData}]
      /\ head \in Heads /\ Heads \subseteq Blocks
  BY PersistTypes
  DEF control, environment, Walkers, Threads, TypeInv, TypeOK, Heads, FromOrigin
<1>3. \A u \in Threads : call'[u] = IF u = t THEN c ELSE call[u]
  BY <1>1, <1>2 DEF Outcome
<1>4. Given' \subseteq Given
  <2>1. CASE t = "main" /\ call[t].id = HeadId
    <3>1. c.id = HeadId /\ (c.hdr = call[t].hdr \/ c.hdr = head \/ c.hdr = NoBlock)
      BY <1>1, <2>1 DEF Outcome, Resolve
    <3> QED
      BY <1>2, <1>3, <2>1, <3>1, BlocksAssumption DEF Given
  <2>2. CASE ~(t = "main" /\ call[t].id = HeadId)
    <3>1. call'["main"] = call["main"] \/ call'["main"].id # HeadId
      BY <1>1, <1>3, <2>2 DEF Outcome, Threads, Walkers
    <3> QED
      BY <1>2, <3>1 DEF Given
  <2> QED
    BY <2>1, <2>2
<1>5. CASE UNCHANGED store
  BY <1>2, <1>4, <1>5, PromiseLearns DEF Archived
<1>6. CASE call[t].stage = "write" /\ Written(t)
  <2> DEFINE h == call[t].hdr
  <2>1. h \in Blocks /\ call[t].data # NoData /\ HasHeader(t)
    BY <1>2, <1>6, EnvironmentAssumption DEF TypeInv, ControlShape, HasHeader, Contents
  <2>2. Archived' = Archived \cup {h}
    BY <1>2, <1>6, <2>1 DEF Written, Archived
  <2>3. main.pc # "down"
    BY <1>2
    DEF Walkers, WalkInv, MainPart, OriginInv, BackfillPart, SeedPart, NoCall, CallFor
  <2>4. CASE t = "main" /\ call[t].id = HeadId
    <3>1. Promise!Follow(h)
      BY <1>2, <1>4, <2>1, <2>2, <2>3, <2>4 DEF Promise!Follow, Given
    <3> QED
      BY <2>1, <3>1 DEF Promise!Next
  <2>5. ASSUME NEW b \in Archived, h = Parent[b], UNCHANGED Given
        PROVE  Promise!Next
    <3>1. Promise!Fill(b)
      BY <1>2, <2>1, <2>2, <2>3, <2>5 DEF Promise!Fill
    <3> QED
      BY <3>1 DEF Promise!Next, Archived
  <2>6. CASE t = "main" /\ call[t].id # HeadId
    <3>1. h = call[t].id
      BY <2>1, <2>6 DEF WalkInv, CallPart
    <3>2. \E b \in Archived : h = Parent[b]
      BY <2>1, <2>6, <3>1, BlocksAssumption DEF WalkInv, MainPart
    <3>3. UNCHANGED Given
      BY <1>1, <1>2, <1>3, <2>6 DEF Given, Outcome, Threads
    <3> QED
      BY <2>5, <3>2, <3>3
  <2>7. CASE t = "backfill"
    <3>1. bf.pc = "call"
      BY <1>2, <2>7 DEF OriginInv, BackfillPart, NoCall, CallFor
    <3>2. h = Parent[bf.curr] /\ Walked(bf.start, bf.curr)
      BY <2>1, <2>7, <3>1 DEF ProgressInv, ProgressSound
    <3>3. bf.curr \in Archived
      <4>1. bf.curr \in AncestorsOf[bf.curr]
        BY <3>1, AncestorsReflexive DEF TypeInv, ControlShape
      <4> QED
        BY <3>2, <4>1 DEF Walked, Segment
    <3>4. UNCHANGED Given
      BY <1>2, <1>3, <2>7 DEF Given, Threads
    <3> QED
      BY <2>5, <3>2, <3>3, <3>4
  <2> QED
    BY <2>4, <2>6, <2>7 DEF Walkers
<1> QED
  BY <1>1, <1>5, <1>6 DEF Outcome, GoesOn, Ends, Fails

LEMMA StepPromised ==
  TypeInv /\ ProgressInv /\ OriginInv /\ WalkInv /\ [Next]_vars => Promised
<1> SUFFICES ASSUME TypeInv, ProgressInv, OriginInv, WalkInv, [Next]_vars
             PROVE  Promised
  OBVIOUS
<1>1. /\ call \in [Threads -> Calls] /\ "main" \in Threads /\ "backfill" \in Threads
      /\ "rearchive" \in Threads
      /\ head \in Heads
  BY DEF TypeInv, TypeOK, Threads
<1>2. ASSUME UNCHANGED <<head, store>>, main.pc = "down" <=> main'.pc = "down",
             call'["main"] = call["main"] \/ call'["main"].hdr = NoBlock
      PROVE  Promised
  <2>1. Given' \subseteq Given \cup {head} /\ UNCHANGED Archived
    BY <1>2, GivenShrinks DEF Archived
  <2> QED
    BY <1>1, <1>2, <2>1, PromiseLearns DEF Promised
<1>3. \A id : StartCall("main", id) => call'["main"].hdr = NoBlock
  BY <1>1 DEF StartCall, CallFor
<1>4. EndCall("main") => call'["main"].hdr = NoBlock
  BY <1>1 DEF EndCall, NoCall, CallFor
<1>5. \A t \in {"backfill", "rearchive"} : \A id :
        StartCall(t, id) \/ EndCall(t) => call'["main"] = call["main"]
  BY <1>1 DEF StartCall, EndCall
<1>6. CASE \E t \in Walkers : Persist(t)
  BY <1>6, PersistPromised DEF Promised
<1>7. CASE Persist("rearchive")
  <2>1. WriteBlob("rearchive") \/ UNCHANGED store
    BY <1>7 DEF Persist, BeaconBlockHeader, Exists, BlobSidecars
  <2>2. PICK c : call' = [call EXCEPT !["rearchive"] = c]
    BY <1>1, <1>7, PersistTypes
  <2>3. UNCHANGED <<head, main>> /\ call'["main"] = call["main"]
    BY <1>1, <1>7, <2>2, PersistTypes DEF environment, control
  <2> QED
    BY <1>2, <2>1, <2>3 DEF Promised
<1>8. CASE SeedFail \/ LockFails \/ BackfillLoadFails \/ Crash
  <2>1. main.pc # "down"
    BY <1>8
    DEF SeedFail, LockFails, BackfillLoadFails, Crash, OriginInv, SeedPart
  <2> QED
    BY <1>8, <2>1, PromiseEnds
    DEF SeedFail, LockFails, BackfillLoadFails, Crash, environment, Promised
<1>9. CASE SeedDone \/ SeedRetry \/ ObtainLock \/ Tick \/ LiveKnown \/ LiveWalk \/ LiveRetry
           \/ LiveGiveUp
  <2>1. main.pc # "down" /\ main'.pc # "down"
    BY <1>9
    DEF SeedDone, SeedRetry, ObtainLock, Tick, LiveKnown, LiveWalk, LiveRetry, LiveGiveUp,
        TypeInv, TypeOK
  <2>2. UNCHANGED <<head, store>>
    BY <1>9
    DEF SeedDone, SeedRetry, ObtainLock, Tick, LiveKnown, LiveWalk, LiveRetry, LiveGiveUp,
        environment
  <2>3. call'["main"] = call["main"] \/ call'["main"].hdr = NoBlock
    BY <1>3, <1>4, <1>9
    DEF SeedDone, SeedRetry, ObtainLock, Tick, LiveKnown, LiveWalk, LiveRetry, LiveGiveUp
  <2> QED
    BY <1>2, <2>1, <2>2, <2>3
<1>10. CASE \/ BackfillLoad \/ (\E s \in Blocks : BackfillNext(s)) \/ BackfillReturns
            \/ BackfillAtOrigin \/ BackfillWalk \/ BackfillRetry \/ BackfillAdvance
            \/ BackfillFinish
  <2>1. UNCHANGED <<head, store, main>>
    BY <1>10
    DEF BackfillLoad, BackfillNext, BackfillReturns, BackfillAtOrigin, BackfillWalk,
        BackfillRetry, BackfillAdvance, BackfillFinish, environment
  <2>2. call'["main"] = call["main"]
    BY <1>5, <1>10
    DEF BackfillLoad, BackfillNext, BackfillReturns, BackfillAtOrigin, BackfillWalk,
        BackfillRetry, BackfillAdvance, BackfillFinish
  <2> QED
    BY <1>2, <2>1, <2>2
<1>11. CASE \/ RearchiveSlotDone \/ RearchiveRetry \/ RearchiveFail
            \/ \E r \in RearchiveRanges : RearchiveRequest(r[1], r[2]) \/ RearchiveRefuse(r[1], r[2])
  <2>1. UNCHANGED <<head, store, main>>
    BY <1>11
    DEF RearchiveSlotDone, RearchiveRetry, RearchiveFail, RearchiveRequest, RearchiveRefuse,
        environment
  <2>2. call'["main"] = call["main"]
    BY <1>5, <1>11
    DEF RearchiveSlotDone, RearchiveRetry, RearchiveFail, RearchiveRequest, RearchiveRefuse
  <2> QED
    BY <1>2, <2>1, <2>2
<1>12. CASE HeadMoves
  <2>1. Given' \subseteq Given \cup {head'} /\ UNCHANGED Archived
    BY <1>12 DEF HeadMoves, Given, Archived
  <2> QED
    BY <1>12, <2>1, PromiseLearns DEF HeadMoves, Promised
<1>13. CASE (\E b \in Revised : Republish(b)) \/ UNCHANGED vars
  BY <1>2, <1>13 DEF Republish, vars
<1>14. CASE Restart
  BY <1>14 DEF Promised
<1> QED
  BY <1>6, <1>7, <1>8, <1>9, <1>10, <1>11, <1>12, <1>13, <1>14
  DEF Next, MainStep, BackfillStep, RearchiveStep, Environment, Walkers

LEMMA InitPromised == Init => Promise!Init
<1> SUFFICES ASSUME Init
             PROVE  Promise!Init
  OBVIOUS
<1>1. call["main"].hdr = NoBlock
  BY DEF Init, CallFor, Threads
<1>2. Archived = {} /\ Given = {head} /\ head \in Heads /\ main.pc # "down"
  BY <1>1, BlocksAssumption DEF Init, Archived, Given
<1> QED
  BY <1>2, SameHeads DEF Promise!Init

\* The archive starts empty and grows only by heads that the node gave and by
\* parents of stored blocks, through crashes, restarts, reorgs, failures and writes
\* that take effect though they fail: a walk skips no block.
THEOREM GrowthIsPromised == Spec => Promise!Init /\ GrowsAsPromised
<1>1. TypeInv /\ ProgressInv /\ OriginInv /\ WalkInv /\ [Next]_vars =>
        [Promise!Next \/ Restart \/ WriteBlob("rearchive")]_(Promise!vars)
  BY StepPromised DEF Promised
<1> QED
  BY <1>1, InitTypeInv, StepTypeInv, InitProgress, StepProgress, InitOrigin, StepOrigin,
     InitWalks, StepWalks, InitPromised, PTL
  DEF Spec, GrowsAsPromised

\* Without requests the handler does nothing.
LEMMA NoRequests ==
  ASSUME RearchiveRanges = {}, TypeInv, WalkInv, [Next]_vars, ra.pc = "idle"
  PROVE  (ra.pc = "idle")' /\ ~WriteBlob("rearchive")
<1>1. call["rearchive"] = NoCall
  BY DEF WalkInv, RearchiveIdle
<1>2. ~RearchiveStep /\ ~WriteBlob("rearchive")
  BY <1>1
  DEF RearchiveStep, Persist, BeaconBlockHeader, Exists, BlobSidecars, WriteBlob, NoCall, CallFor,
      RearchiveSlotDone, RearchiveRetry, RearchiveFail
<1>3. MainStep \/ BackfillStep \/ Restart => UNCHANGED ra \/ ra' = NoRearchive
  <2>1. \A t \in Walkers : Persist(t) => UNCHANGED ra
    BY PersistTypes DEF Walkers, Threads, control
  <2> QED
    BY <2>1
    DEF MainStep, BackfillStep, Walkers, ProcessExit, Restart,
        SeedDone, SeedRetry, SeedFail, ObtainLock, LockFails, Tick, LiveKnown, LiveWalk, LiveRetry,
        LiveGiveUp, BackfillLoad, BackfillLoadFails, BackfillNext, BackfillReturns,
        BackfillAtOrigin, BackfillWalk, BackfillRetry, BackfillAdvance, BackfillFinish
<1>4. Environment \/ UNCHANGED vars => UNCHANGED ra \/ ra' = NoRearchive
  BY DEF Environment, HeadMoves, Republish, Crash, ProcessExit, vars
<1>5. NoRearchive.pc = "idle"
  BY DEF NoRearchive, RearchiveFrom
<1> QED
  BY <1>2, <1>3, <1>4, <1>5 DEF Next

\* The safety of ImplementsArchive: one run of the process, with no operator's
\* requests, is an archive from its first step to its end.
THEOREM OneRunIsAnArchive ==
  ASSUME MaxRestarts = 0, RearchiveRanges = {}
  PROVE  Spec => Promise!Init /\ [][Promise!Next]_(Promise!vars)
<1>1. Init => ra.pc = "idle"
  BY DEF Init, NoRearchive, RearchiveFrom
<1>2. TypeInv /\ WalkInv /\ [Next]_vars /\ ra.pc = "idle" => (ra.pc = "idle")'
  BY NoRequests
<1>3. TypeInv /\ WalkInv /\ [Next]_vars /\ ra.pc = "idle" /\ Promised
        => [Promise!Next]_(Promise!vars)
  BY NoRequests DEF Promised, Restart, TypeInv, TypeOK
<1> QED
  BY <1>1, <1>2, <1>3, InitTypeInv, StepTypeInv, InitProgress, StepProgress, InitOrigin, StepOrigin,
     InitWalks, StepWalks, StepPromised, InitPromised, PTL
  DEF Spec

(***************************************************************************)
(* The archiver beside another one.  Its invariant, as a whole, and what   *)
(* it says of what two archivers share, which is all that a step of the    *)
(* other changes.                                                          *)
(***************************************************************************)
ArchiverInv == TypeInv /\ ProgressInv /\ OriginInv /\ WalkInv

SharedInv ==
  /\ head \in Heads
  /\ served \in [Blocks -> Versions]
  /\ store \in [Blocks -> Contents \cup {NoData}]
  /\ saved \in Entries
  /\ errors \in 0 .. MaxErrors
  /\ restarts \in 0 .. MaxRestarts
  /\ EntriesWalked(saved)
  /\ EntriesFromOrigin(saved)

LEMMA ArchiverInit ==
  Init => ArchiverInv /\ ra.pc = "idle" /\ Archived = {}
<1>1. Init => ra.pc = "idle" /\ Archived = {}
  BY DEF Init, NoRearchive, RearchiveFrom, Archived
<1> QED
  BY <1>1, InitTypeInv, InitProgress, InitOrigin, InitWalks DEF ArchiverInv

LEMMA ArchiverStep ==
  ASSUME ArchiverInv, [Next]_vars
  PROVE  /\ ArchiverInv' /\ SharedInv' /\ HandsOn
         /\ Archived \subseteq Archived'
         /\ errors \in Nat /\ errors' \in Nat /\ errors <= errors'
<1> USE DEF ArchiverInv
<1>1. ArchiverInv'
  BY StepTypeInv, StepProgress, StepOrigin, StepWalks
<1>2. SharedInv'
  BY <1>1 DEF SharedInv, TypeInv, TypeOK, ProgressInv, ProgressSound, OriginInv, BackfillPart
<1> QED
  BY <1>1, <1>2, StepHandsOn, ArchiveGrows, ErrorsGrow

\* A step of the other archiver.
LEMMA StandsBy ==
  ASSUME ArchiverInv, UNCHANGED <<main, bf, mem, ra, call>>, SharedInv',
         Archived \subseteq Archived', errors \in Nat, errors' \in Nat, errors <= errors'
  PROVE  ArchiverInv'
<1> USE DEF ArchiverInv, SharedInv
<1>1. TypeInv'
  BY DEF TypeInv, TypeOK, ControlShape, HasHeader
<1>2. ProgressInv'
  <2>1. \A s, c : Walked(s, c) => Walked(s, c)'
    BY DEF Walked, Segment
  <2>2. ProgressSound'
    BY <2>1 DEF ProgressInv, ProgressSound, EntriesWalked
  <2>3. (\A t \in Threads : call[t].stage = "ok" => call[t].hdr \in Archived)'
    BY DEF ProgressInv
  <2> QED
    BY <2>2, <2>3 DEF ProgressInv, HasHeader
<1>3. OriginInv'
  BY DEF OriginInv, BackfillPart, SeedPart, Seeding, HasHeader, EntriesFromOrigin
<1>4. WalkInv'
  <2>1. main.attempts \in Nat
    BY DEF TypeInv, TypeOK
  <2>2. CallPart' /\ BackfillIdle' /\ RearchiveIdle'
    BY DEF WalkInv, CallPart, BackfillIdle, RearchiveIdle, HasHeader
  <2>3. MainPart'
    BY <2>1 DEF WalkInv, MainPart, Failed
  <2> QED
    BY <2>2, <2>3 DEF WalkInv
<1> QED
  BY <1>1, <1>2, <1>3, <1>4

(***************************************************************************)
(* What is saved.  From its loading on, the goroutine's map holds whatever *)
(* is saved, but for the processes whose walk has come to its end, which   *)
(* is no longer where it began.                                            *)
(***************************************************************************)
Known ==
  \A s \in AboveOrigin : saved[s] # NoBlock => mem[s] # NoBlock \/ Parent[s] \in Archived

MapInv ==
  /\ bf.pc = "finish" => bf.curr = Origin \/ bf.curr # bf.start
  /\ bf.pc \in {"next", "walk", "call", "finish"} => Known

\* A saved process is dropped only when the block below its start is stored.
Keeps ==
  \A s \in AboveOrigin :
    saved[s] # NoBlock /\ saved'[s] = NoBlock => Parent[s] \in Archived

LEMMA StepKeeps ==
  ASSUME ArchiverInv, MapInv, [Next]_vars
  PROVE  MapInv' /\ Keeps /\ (bf.pc = "off" => UNCHANGED saved)
<1>1. /\ mem \in Entries /\ saved \in Entries
      /\ NoBlock \notin Blocks /\ AboveOrigin \subseteq Blocks
      /\ Archived \subseteq Archived'
      /\ bf \in [pc : {"off", "load", "next", "walk", "call", "finish"},
                start : Blocks \cup {NoBlock}, curr : Blocks \cup {NoBlock},
                count : 0 .. SaveEvery - 1]
  BY ArchiverStep, BlocksAssumption DEF ArchiverInv, TypeInv, TypeOK, AboveOrigin, FromOrigin
\* A step that leaves the goroutine and what is saved alone.
<1>2. ASSUME UNCHANGED <<bf, mem, saved>>
      PROVE  MapInv' /\ Keeps /\ (bf.pc = "off" => UNCHANGED saved)
  BY <1>1, <1>2 DEF MapInv, Known, Keeps
<1>3. ASSUME ProcessExit, UNCHANGED saved
      PROVE  MapInv' /\ Keeps /\ (bf.pc = "off" => UNCHANGED saved)
  BY <1>3 DEF ProcessExit, NoBackfill, BackfillAt, MapInv, Keeps
\* A step of the goroutine's loops that ends no walk, and saves nothing.
<1>4. ASSUME UNCHANGED <<mem, saved>>, bf'.pc # "finish",
             bf.pc \in {"next", "walk", "call", "finish"}
      PROVE  MapInv' /\ Keeps /\ (bf.pc = "off" => UNCHANGED saved)
  BY <1>1, <1>4 DEF MapInv, Known, Keeps
\* The map is changed and saved, with all that is known in it.
<1>5. ASSUME NEW entries \in Entries, SaveBackfills(entries),
             \A s \in AboveOrigin :
               saved[s] # NoBlock => entries[s] # NoBlock \/ Parent[s] \in Archived
      PROVE  Known' /\ Keeps
  BY <1>1, <1>5 DEF SaveBackfills, Known, Keeps
\* The walk has left the block where it began, or is at the origin.
<1>6. ASSUME bf.pc \in {"call", "finish"}, bf.start \in AboveOrigin,
             NEW c \in Blocks, Walked(bf.start, c), c # bf.start
      PROVE  Parent[bf.start] \in Archived
  <2>1. c \in AncestorsOf[bf.start] /\ bf.start \in Blocks
    BY <1>1, <1>6 DEF Walked
  <2>2. Parent[bf.start] \in Blocks /\ c \in AncestorsOf[Parent[bf.start]]
    BY <1>6, <2>1, AncestorsSplit
  <2>3. Parent[bf.start] \in AncestorsOf[bf.start]
    BY <2>1, <2>2, AncestorsReflexive, AncestorsClosed
  <2> QED
    BY <1>6, <2>2, <2>3 DEF Walked, Segment
<1>7. CASE BackfillLoad
  <2>1. bf.curr \in Blocks
    BY <1>7 DEF BackfillLoad, ArchiverInv, TypeInv, ControlShape
  <2>2. /\ [saved EXCEPT ![bf.curr] = bf.curr] \in Entries
        /\ \A s \in Blocks : saved[s] # NoBlock => [saved EXCEPT ![bf.curr] = bf.curr][s] # NoBlock
    BY <1>1, <2>1 DEF Entries
  <2>3. Known' /\ Keeps
    BY <1>1, <1>5, <1>7, <2>2 DEF BackfillLoad
  <2> QED
    BY <1>7, <2>3 DEF BackfillLoad, BackfillAt, MapInv
<1>8. CASE (\E s \in Blocks : BackfillNext(s)) \/ BackfillWalk \/ BackfillRetry
  BY <1>1, <1>4, <1>8 DEF BackfillNext, BackfillWalk, BackfillRetry
<1>9. CASE BackfillReturns
  BY <1>9 DEF BackfillReturns, NoBackfill, BackfillAt, MapInv, Keeps
<1>10. CASE BackfillAtOrigin
  BY <1>1, <1>10 DEF BackfillAtOrigin, MapInv, Known, Keeps
<1>11. CASE BackfillAdvance
  <2> DEFINE c == call["backfill"]
  <2>1. /\ bf'.pc \in {"finish", "walk"} /\ bf'.curr = c.hdr /\ bf'.start = bf.start
        /\ bf.pc = "call"
    BY <1>1, <1>11 DEF BackfillAdvance
  <2>2. /\ HasHeader("backfill") /\ c.hdr = Parent[bf.curr]
        /\ Walked(bf.start, bf.curr)
        /\ bf.curr \in Blocks /\ bf.start \in Blocks /\ c.hdr \in Blocks
    BY <1>11
    DEF BackfillAdvance, ArchiverInv, ProgressInv, ProgressSound, TypeInv, ControlShape, HasHeader,
        Threads
  <2>3. c.hdr # bf.start
    <3>1. bf.curr = bf.start \/ Slot[bf.curr] < Slot[bf.start]
      BY <2>2, AncestorsOlder DEF Walked
    <3>2. Slot[c.hdr] < Slot[bf.curr]
      BY <2>2, SlotAssumption
    <3> QED
      BY <2>2, <3>1, <3>2, SlotAssumption
  <2>4. Known'
    <3>1. CASE UNCHANGED <<mem, saved>>
      BY <1>1, <2>1, <3>1 DEF MapInv, Known
    <3>2. CASE SaveBackfills([mem EXCEPT ![bf.start] = c.hdr])
      <4>1. /\ [mem EXCEPT ![bf.start] = c.hdr] \in Entries
            /\ \A s \in Blocks : mem[s] # NoBlock => [mem EXCEPT ![bf.start] = c.hdr][s] # NoBlock
        BY <1>1, <2>2 DEF Entries
      <4> QED
        BY <1>1, <1>5, <2>1, <3>2, <4>1 DEF MapInv, Known
    <3> QED
      BY <1>11, <3>1, <3>2 DEF BackfillAdvance
  <2>5. Keeps
    <3>1. CASE UNCHANGED <<mem, saved>>
      BY <3>1 DEF Keeps
    <3>2. CASE SaveBackfills([mem EXCEPT ![bf.start] = c.hdr])
      <4>1. /\ [mem EXCEPT ![bf.start] = c.hdr] \in Entries
            /\ \A s \in Blocks : mem[s] # NoBlock => [mem EXCEPT ![bf.start] = c.hdr][s] # NoBlock
        BY <1>1, <2>2 DEF Entries
      <4> QED
        BY <1>1, <1>5, <2>1, <3>2, <4>1 DEF MapInv, Known
    <3> QED
      BY <1>11, <3>1, <3>2 DEF BackfillAdvance
  <2> QED
    BY <2>1, <2>3, <2>4, <2>5 DEF MapInv
<1>12. CASE BackfillFinish
  <2>1. /\ bf.pc = "finish" /\ bf'.pc = "next"
        /\ SaveBackfills([mem EXCEPT ![bf.start] = NoBlock])
    BY <1>12 DEF BackfillFinish, BackfillAt
  <2>2. bf.start \in AboveOrigin => Parent[bf.start] \in Archived
    <3>1. bf.curr \in Blocks /\ Walked(bf.start, bf.curr)
      BY <2>1 DEF ArchiverInv, ProgressInv, ProgressSound, TypeInv, ControlShape
    <3>2. bf.start \in AboveOrigin => bf.curr # bf.start
      BY <2>1 DEF MapInv, AboveOrigin
    <3> QED
      BY <1>6, <2>1, <3>1, <3>2
  <2>3. [mem EXCEPT ![bf.start] = NoBlock] \in Entries
    BY <1>1 DEF Entries
  <2>4. \A s \in AboveOrigin :
          saved[s] # NoBlock => [mem EXCEPT ![bf.start] = NoBlock][s] # NoBlock
                                \/ Parent[s] \in Archived
    BY <1>1, <2>1, <2>2 DEF MapInv, Known, Entries
  <2>5. Known' /\ Keeps
    BY <1>5, <2>1, <2>3, <2>4
  <2> QED
    BY <2>1, <2>5 DEF MapInv
<1>13. CASE SeedFail \/ LockFails \/ BackfillLoadFails \/ Crash
  BY <1>3, <1>13 DEF SeedFail, LockFails, BackfillLoadFails, Crash
<1>14. CASE ObtainLock
  BY <1>14 DEF ObtainLock, BackfillAt, MapInv, Keeps
<1>15. CASE \E t \in Threads : Persist(t)
  BY <1>2, <1>15, PersistTypes DEF ArchiverInv, control
<1>16. CASE \/ SeedDone \/ SeedRetry \/ Tick \/ LiveKnown \/ LiveWalk \/ LiveRetry \/ LiveGiveUp
            \/ RearchiveSlotDone \/ RearchiveRetry \/ RearchiveFail \/ Restart
            \/ (\E r \in RearchiveRanges : RearchiveRequest(r[1], r[2]) \/ RearchiveRefuse(r[1], r[2]))
            \/ HeadMoves \/ (\E b \in Revised : Republish(b)) \/ UNCHANGED vars
  BY <1>2, <1>16
  DEF SeedDone, SeedRetry, Tick, LiveKnown, LiveWalk, LiveRetry, LiveGiveUp,
      RearchiveSlotDone, RearchiveRetry, RearchiveFail, Restart, RearchiveRequest, RearchiveRefuse,
      HeadMoves, Republish, vars
<1> QED
  BY <1>7, <1>8, <1>9, <1>10, <1>11, <1>12, <1>13, <1>14, <1>15, <1>16
  DEF Next, MainStep, BackfillStep, RearchiveStep, Environment, Threads

LEMMA MapInit == Init => MapInv
BY DEF Init, NoBackfill, BackfillAt, MapInv
=============================================================================
