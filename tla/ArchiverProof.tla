--------------------------- MODULE ArchiverProof ---------------------------
(***************************************************************************)
(* Theorems about Archiver, for every chain, every number of retries,      *)
(* failing requests, restarts and rearchive requests.                      *)
(***************************************************************************)
EXTENDS Archiver, TLAPS

(***************************************************************************)
(* The chain.  The ancestors of a block form a line back to the chain's    *)
(* first block.  AncestorsOf is a least closed set, so every fact about it *)
(* comes from showing one set to be parent-closed.                         *)
(***************************************************************************)

\* A parent-closed set that has s in it has all of s's ancestors in it.
LEMMA AncestorsLeast ==
  ASSUME NEW s \in Blocks, NEW S \in SUBSET Blocks, s \in S, ParentClosed(S)
  PROVE  AncestorsOf[s] \subseteq S
BY DEF AncestorsOf

\* A block is one of its own ancestors.
LEMMA AncestorsReflexive ==
  ASSUME NEW s \in Blocks
  PROVE  s \in AncestorsOf[s] /\ AncestorsOf[s] \subseteq Blocks
BY DEF AncestorsOf

\* The parent of an ancestor is an ancestor.
LEMMA AncestorsClosed ==
  ASSUME NEW s \in Blocks, NEW b \in AncestorsOf[s], Parent[b] \in Blocks
  PROVE  Parent[b] \in AncestorsOf[s]
<1>1. \A S \in SUBSET Blocks : s \in S /\ ParentClosed(S) => b \in S
  BY DEF AncestorsOf
<1>2. \A S \in SUBSET Blocks : s \in S /\ ParentClosed(S) => Parent[b] \in S
  BY <1>1 DEF ParentClosed
<1> QED
  BY <1>2 DEF AncestorsOf

\* The ancestors of an ancestor are ancestors.
LEMMA AncestorsTransitive ==
  ASSUME NEW s \in Blocks, NEW b \in AncestorsOf[s]
  PROVE  AncestorsOf[b] \subseteq AncestorsOf[s]
<1>1. ParentClosed(AncestorsOf[s])
  BY AncestorsClosed DEF ParentClosed
<1> QED
  BY <1>1, AncestorsReflexive, AncestorsLeast

\* An ancestor of a block is the block or an ancestor of its parent.
LEMMA AncestorsSplit ==
  ASSUME NEW s \in Blocks, NEW b \in AncestorsOf[s], b # s
  PROVE  Parent[s] \in Blocks /\ b \in AncestorsOf[Parent[s]]
<1> DEFINE S == {s} \cup (IF Parent[s] \in Blocks THEN AncestorsOf[Parent[s]] ELSE {})
<1>1. S \in SUBSET Blocks /\ s \in S
  BY AncestorsReflexive
<1>2. ParentClosed(S)
  <2> SUFFICES ASSUME NEW x \in S, Parent[x] \in Blocks
               PROVE  Parent[x] \in S
    BY DEF ParentClosed
  <2>1. CASE x = s
    BY <2>1, AncestorsReflexive
  <2>2. CASE x # s
    BY <2>2, AncestorsClosed
  <2> QED
    BY <2>1, <2>2
<1>3. b \in S
  BY <1>1, <1>2, AncestorsLeast
<1> QED
  BY <1>3

\* A proper ancestor has a lower slot.
LEMMA AncestorsOlder ==
  ASSUME NEW s \in Blocks, NEW b \in AncestorsOf[s]
  PROVE  b = s \/ Slot[b] < Slot[s]
<1> DEFINE S == {x \in Blocks : x = s \/ Slot[x] < Slot[s]}
<1>1. ParentClosed(S)
  BY SlotAssumption DEF ParentClosed
<1> HIDE DEF S
<1>2. b \in S
  BY <1>1, AncestorsLeast DEF S
<1> QED
  BY <1>2 DEF S

\* Of two ancestors of a block, one is an ancestor of the other.
LEMMA AncestorsLinear ==
  ASSUME NEW s \in Blocks, NEW x \in AncestorsOf[s], NEW y \in AncestorsOf[s]
  PROVE  x \in AncestorsOf[y] \/ y \in AncestorsOf[x]
<1> DEFINE S == {u \in AncestorsOf[s] :
                   \A v \in AncestorsOf[s] : u \in AncestorsOf[v] \/ v \in AncestorsOf[u]}
<1>1. S \in SUBSET Blocks /\ s \in S
  BY AncestorsReflexive
<1>2. ParentClosed(S)
  <2> SUFFICES ASSUME NEW u \in S, Parent[u] \in Blocks, NEW v \in AncestorsOf[s]
               PROVE  /\ Parent[u] \in AncestorsOf[s]
                      /\ Parent[u] \in AncestorsOf[v] \/ v \in AncestorsOf[Parent[u]]
    BY DEF ParentClosed
  <2>1. u \in Blocks /\ v \in Blocks
    BY AncestorsReflexive
  <2>2. Parent[u] \in AncestorsOf[s]
    BY AncestorsClosed
  <2>3. CASE u \in AncestorsOf[v]
    BY <2>1, <2>2, <2>3, AncestorsClosed
  <2>4. CASE v \in AncestorsOf[u] /\ v # u
    BY <2>1, <2>2, <2>4, AncestorsSplit
  <2>5. u \in AncestorsOf[u]
    BY <2>1, AncestorsReflexive
  <2> QED
    BY <2>3, <2>4, <2>5
<1>3. x \in S
  BY <1>1, <1>2, AncestorsLeast
<1> QED
  BY <1>3

\* A block above the origin has a parent, and the origin is below that too.
LEMMA OriginBelow ==
  ASSUME NEW b \in FromOrigin, b # Origin
  PROVE  Parent[b] \in FromOrigin
BY AncestorsSplit DEF FromOrigin

(***************************************************************************)
(* Types.  TypeOK is not inductive by itself: that a walk has a block to   *)
(* take the parent of depends on how far its call has come.                *)
(***************************************************************************)
HasHeader(t) == call[t].stage \in {"exists", "sidecars", "write", "ok"}

ControlShape ==
  /\ \A t \in Threads : HasHeader(t) => call[t].hdr \in Blocks
  /\ \A t \in Threads : call[t].stage = "write" => call[t].data \in Contents
  /\ main.pc = "lock" => call["main"].stage = "ok"
  /\ bf.pc \in {"load", "walk", "call", "finish"} => bf.curr \in Blocks
  /\ bf.pc \in {"walk", "call", "finish"} => bf.start \in Blocks

TypeInv == TypeOK /\ ControlShape

\* Slots are numbers, and the counter of the rearchive loop stays among them.
LEMMA SlotFacts ==
  /\ 0 \in Slots
  /\ \A n \in Slots : n \in Nat /\ n \in Params /\ (n + 1) % SlotCount \in Slots
BY SlotCountAssumption DEF Slots, Params

LEMMA InitTypeInv == Init => TypeInv
BY SlotFacts, RetriesAssumption, EnvironmentAssumption, BlocksAssumption
DEF Init, TypeInv, TypeOK, ControlShape, HasHeader, NoEntries, NoBackfill, BackfillAt,
    NoRearchive, RearchiveFrom, NoCall, CallFor, Calls, Stages, Idents, Threads, Entries

\* A call that begins, ends or fails is well typed.
LEMMA CallForTypes ==
  ASSUME NEW stage \in Stages, NEW id \in Idents
  PROVE  /\ CallFor(stage, id) \in Calls
         /\ CallFor(stage, id).stage = stage
         /\ CallFor(stage, id).id = id
BY DEF CallFor, Calls

GoodCall(c) ==
  /\ c \in Calls
  /\ c.stage \in {"exists", "sidecars", "write", "ok"} => c.hdr \in Blocks
  /\ c.stage = "write" => c.data \in Contents

\* What the requests of persistBlobsForBlockToS3 change: their call, the store
\* and the number of errors.
LEMMA PersistTypes ==
  ASSUME TypeInv, NEW t \in Threads, Persist(t)
  PROVE  /\ call[t].stage \in {"header", "exists", "sidecars", "write"}
         /\ \E c \in Calls : GoodCall(c) /\ call' = [call EXCEPT ![t] = c]
         /\ store' \in [Blocks -> Contents \cup {NoData}]
         /\ errors' \in 0 .. MaxErrors
         /\ UNCHANGED <<environment, control>>
<1>1. /\ call[t] \in Calls
      /\ call \in [Threads -> Calls]
      /\ HasHeader(t) => call[t].hdr \in Blocks
      /\ call[t].stage = "write" => call[t].data \in Contents
      /\ store \in [Blocks -> Contents \cup {NoData}]
      /\ errors \in 0 .. MaxErrors
  BY DEF TypeInv, TypeOK, ControlShape
<1>2. ASSUME NEW kind \in {"error", "notFound"}
      PROVE  GoodCall(CallFor(kind, call[t].id))
  BY <1>1, CallForTypes DEF Calls, Stages, GoodCall
<1>3. Fail => errors' \in 0 .. MaxErrors
  BY <1>1, EnvironmentAssumption DEF Fail
<1>4. CASE BeaconBlockHeader(t)
  <2>1. ASSUME NEW b \in Resolve(call[t].id, head)
        PROVE  GoodCall([call[t] EXCEPT !.stage = "exists", !.hdr = b])
    <3>1. b \in Blocks
      BY AncestorsReflexive DEF Resolve, Heads, FromOrigin, TypeInv, TypeOK
    <3> QED
      BY <1>1, <3>1 DEF GoodCall, Calls, Stages
  <2> QED
    BY <1>1, <1>2, <1>3, <1>4, <2>1 DEF BeaconBlockHeader, ReturnError, GoodCall
<1>5. CASE Exists(t)
  <2> DEFINE existed == call[t].hdr \in Archived
             stage   == IF existed /\ ~Overwrites(t) THEN "ok" ELSE "sidecars"
             c       == [call[t] EXCEPT !.existed = existed, !.stage = stage]
  <2>1. existed \in BOOLEAN /\ stage \in {"ok", "sidecars"}
    OBVIOUS
  <2> HIDE DEF existed, stage
  <2>2. GoodCall(c)
    BY <1>1, <1>5, <2>1 DEF GoodCall, Calls, Stages, HasHeader, Exists
  <2> HIDE DEF c
  <2>3. \/ call' = [call EXCEPT ![t] = c] /\ UNCHANGED errors
        \/ Fail /\ ReturnError(t, "error")
    BY <1>5 DEF Exists, c, existed, stage
  <2> QED
    BY <1>1, <1>2, <1>3, <1>5, <2>2, <2>3 DEF Exists, ReturnError, GoodCall
<1>6. CASE BlobSidecars(t)
  <2>1. SidecarsOf(call[t]) \in Contents
    BY <1>1, <1>6 DEF BlobSidecars, HasHeader, SidecarsOf, Contents, TypeInv, TypeOK
  <2>2. GoodCall([call[t] EXCEPT !.stage = "write", !.data = SidecarsOf(call[t])])
    BY <1>1, <1>6, <2>1 DEF BlobSidecars, HasHeader, GoodCall, Calls, Stages
  <2> QED
    BY <1>1, <1>2, <1>3, <1>6, <2>2 DEF BlobSidecars, ReturnError, GoodCall
<1>7. CASE WriteBlob(t)
  <2>1. GoodCall([call[t] EXCEPT !.stage = "ok", !.data = NoData])
    BY <1>1, <1>7 DEF WriteBlob, HasHeader, GoodCall, Calls, Stages
  <2>2. [store EXCEPT ![call[t].hdr] = call[t].data] \in [Blocks -> Contents \cup {NoData}]
    BY <1>1, <1>7 DEF WriteBlob
  <2> QED
    BY <1>1, <1>2, <1>3, <1>7, <2>1, <2>2 DEF WriteBlob, ReturnError, GoodCall
<1> QED
  BY <1>4, <1>5, <1>6, <1>7 DEF Persist

LEMMA PersistTypeInv ==
  ASSUME TypeInv, NEW t \in Threads, Persist(t)
  PROVE  TypeInv'
<1>1. PICK c \in Calls : GoodCall(c) /\ call' = [call EXCEPT ![t] = c]
  BY PersistTypes
<1>2. TypeOK'
  BY <1>1, PersistTypes DEF TypeInv, TypeOK, environment, control
<1>3. ControlShape'
  <2>1. main.pc = "lock" => call["main"].stage = "ok" /\ t # "main"
    BY PersistTypes DEF TypeInv, ControlShape
  <2> QED
    BY <1>1, <2>1, PersistTypes
    DEF TypeInv, TypeOK, ControlShape, HasHeader, GoodCall, environment, control
<1> QED
  BY <1>2, <1>3 DEF TypeInv

\* A call that a thread begins or ends is a good one.
LEMMA ControlCallTypes ==
  ASSUME TypeInv, NEW t \in Threads, NEW id \in Idents
  PROVE  /\ GoodCall(CallFor("header", id))
         /\ GoodCall(NoCall)
         /\ \A c : GoodCall(c) => [call EXCEPT ![t] = c] \in [Threads -> Calls]
<1>1. CallFor("header", id) \in Calls /\ CallFor("header", id).stage = "header"
  BY CallForTypes DEF Stages
<1>2. NoCall \in Calls /\ NoCall.stage = "idle"
  BY CallForTypes DEF NoCall, Stages, Idents
<1> QED
  BY <1>1, <1>2 DEF GoodCall, TypeInv, TypeOK

\* The end of the process leaves well typed what it resets.
LEMMA ExitTypeInv ==
  ASSUME TypeInv, ProcessExit,
         UNCHANGED <<environment, store, saved>>, errors' \in 0 .. MaxErrors
  PROVE  TypeInv'
<1>1. NoCall \in Calls /\ NoCall.stage = "idle"
  BY CallForTypes DEF NoCall, Stages, Idents
<1>2. call' \in [Threads -> Calls] /\ \A t \in Threads : call'[t].stage = "idle"
  BY <1>1 DEF ProcessExit
<1>3. mem' \in Entries
  BY DEF ProcessExit, NoEntries, Entries
<1>4. TypeOK'
  BY <1>2, <1>3, SlotFacts, RetriesAssumption
  DEF ProcessExit, TypeInv, TypeOK, environment, NoBackfill, BackfillAt, NoRearchive,
      RearchiveFrom
<1>5. ControlShape'
  BY <1>2 DEF ProcessExit, ControlShape, HasHeader, NoBackfill, BackfillAt
<1> QED
  BY <1>4, <1>5 DEF TypeInv

\* A step that sets thread t's call to c keeps the calls' part of the invariant.
LEMMA SetCallTypes ==
  ASSUME TypeInv, NEW t \in Threads, NEW c, GoodCall(c), call' = [call EXCEPT ![t] = c]
  PROVE  /\ call' \in [Threads -> Calls]
         /\ call'[t] = c
         /\ \A u \in Threads : u # t => call'[u] = call[u]
         /\ \A u \in Threads : HasHeader(u)' => call'[u].hdr \in Blocks
         /\ \A u \in Threads : call'[u].stage = "write" => call'[u].data \in Contents
BY DEF TypeInv, TypeOK, ControlShape, HasHeader, GoodCall

LEMMA MainTypeInv ==
  ASSUME TypeInv, MainStep
  PROVE  TypeInv'
<1> USE RetriesAssumption, EnvironmentAssumption
<1>1. ASSUME NEW id \in Idents, StartCall("main", id)
      PROVE  \E c : GoodCall(c) /\ call' = [call EXCEPT !["main"] = c]
  BY <1>1, ControlCallTypes DEF StartCall, Threads
<1>2. ASSUME EndCall("main")
      PROVE  \E c : GoodCall(c) /\ call' = [call EXCEPT !["main"] = c]
  BY <1>2, ControlCallTypes DEF EndCall, Threads, Idents
<1>3. HeadId \in Idents
  BY DEF Idents
<1>4. \A c : GoodCall(c) /\ call' = [call EXCEPT !["main"] = c] =>
               /\ call' \in [Threads -> Calls]
               /\ \A u \in Threads : HasHeader(u)' => call'[u].hdr \in Blocks
               /\ \A u \in Threads : call'[u].stage = "write" => call'[u].data \in Contents
  BY SetCallTypes DEF Threads
<1>5. CASE Persist("main")
  BY <1>5, PersistTypeInv DEF Threads
<1>6. CASE SeedDone
  BY <1>6 DEF SeedDone, TypeInv, TypeOK, ControlShape, HasHeader, environment
<1>7. CASE SeedRetry
  BY <1>1, <1>3, <1>4, <1>7
  DEF SeedRetry, Exhausted, TypeInv, TypeOK, ControlShape, environment
<1>8. CASE SeedFail
  BY <1>8, ExitTypeInv DEF SeedFail, TypeInv, TypeOK
<1>9. CASE ObtainLock
  <2>1. call["main"].hdr \in Blocks
    BY <1>9 DEF ObtainLock, TypeInv, ControlShape, HasHeader, Threads
  <2> QED
    BY <1>2, <1>4, <1>9, <2>1
    DEF ObtainLock, BackfillAt, TypeInv, TypeOK, ControlShape, environment
<1>10. CASE LockFails
  BY <1>10, ExitTypeInv DEF LockFails, Fail, TypeInv, TypeOK
<1>11. CASE Tick
  BY <1>1, <1>3, <1>4, <1>11 DEF Tick, TypeInv, TypeOK, ControlShape, environment
<1>12. CASE LiveKnown
  BY <1>2, <1>4, <1>12 DEF LiveKnown, TypeInv, TypeOK, ControlShape, environment
<1>13. CASE LiveWalk
  <2>1. Parent[call["main"].hdr] \in Idents
    BY <1>13, ParentAssumption
    DEF LiveWalk, TypeInv, ControlShape, HasHeader, Threads, Idents
  <2> QED
    BY <1>1, <1>4, <1>13, <2>1 DEF LiveWalk, TypeInv, TypeOK, ControlShape, environment
<1>14. CASE LiveRetry
  <2>1. call["main"].id \in Idents
    BY DEF TypeInv, TypeOK, Calls, Threads
  <2> QED
    BY <1>1, <1>4, <1>14, <2>1
    DEF LiveRetry, Exhausted, TypeInv, TypeOK, ControlShape, environment
<1>15. CASE LiveGiveUp
  BY <1>2, <1>4, <1>15 DEF LiveGiveUp, TypeInv, TypeOK, ControlShape, environment
<1> QED
  BY <1>5, <1>6, <1>7, <1>8, <1>9, <1>10, <1>11, <1>12, <1>13, <1>14, <1>15 DEF MainStep

LEMMA BackfillTypeInv ==
  ASSUME TypeInv, BackfillStep
  PROVE  TypeInv'
<1> USE RetriesAssumption, EnvironmentAssumption
<1>1. ASSUME NEW id \in Idents, StartCall("backfill", id)
      PROVE  \E c : GoodCall(c) /\ call' = [call EXCEPT !["backfill"] = c]
  BY <1>1, ControlCallTypes DEF StartCall, Threads
<1>2. ASSUME EndCall("backfill")
      PROVE  \E c : GoodCall(c) /\ call' = [call EXCEPT !["backfill"] = c]
  BY <1>2, ControlCallTypes DEF EndCall, Threads, Idents
<1>3. \A c : GoodCall(c) /\ call' = [call EXCEPT !["backfill"] = c] =>
               /\ call' \in [Threads -> Calls]
               /\ call'["main"] = call["main"]
               /\ \A u \in Threads : HasHeader(u)' => call'[u].hdr \in Blocks
               /\ \A u \in Threads : call'[u].stage = "write" => call'[u].data \in Contents
  BY SetCallTypes DEF Threads
<1>4. ASSUME NEW entries \in Entries, SaveBackfills(entries)
      PROVE  mem' \in Entries /\ saved' \in Entries /\ errors' \in 0 .. MaxErrors
  BY <1>4 DEF SaveBackfills, Fail, TypeInv, TypeOK
<1>5. CASE Persist("backfill")
  BY <1>5, PersistTypeInv DEF Threads
<1>6. CASE BackfillLoad
  <2>1. [saved EXCEPT ![bf.curr] = bf.curr] \in Entries
    BY DEF TypeInv, TypeOK, Entries
  <2> QED
    BY <1>4, <1>6, <2>1
    DEF BackfillLoad, BackfillAt, TypeInv, TypeOK, ControlShape, HasHeader, environment
<1>7. CASE BackfillLoadFails
  BY <1>7, ExitTypeInv DEF BackfillLoadFails, Fail, TypeInv, TypeOK
<1>8. ASSUME NEW s \in Blocks, BackfillNext(s)
      PROVE  TypeInv'
  BY <1>8 DEF BackfillNext, TypeInv, TypeOK, ControlShape, HasHeader, Entries, environment
<1>9. CASE BackfillReturns
  BY <1>9 DEF BackfillReturns, NoBackfill, BackfillAt, TypeInv, TypeOK, ControlShape, HasHeader,
              environment
<1>10. CASE BackfillAtOrigin
  BY <1>10 DEF BackfillAtOrigin, TypeInv, TypeOK, ControlShape, HasHeader, environment
<1>11. CASE BackfillWalk
  <2>1. Parent[bf.curr] \in Idents
    BY <1>11, ParentAssumption DEF BackfillWalk, TypeInv, ControlShape, Idents
  <2> QED
    BY <1>1, <1>3, <1>11, <2>1 DEF BackfillWalk, TypeInv, TypeOK, ControlShape, environment
<1>12. CASE BackfillRetry
  BY <1>2, <1>3, <1>12 DEF BackfillRetry, TypeInv, TypeOK, ControlShape, environment
<1>13. CASE BackfillAdvance
  <2> DEFINE c == call["backfill"]
  <2>1. NextCount \in 0 .. SaveEvery - 1
    BY DEF NextCount, TypeInv, TypeOK
  <2>2. c.hdr \in Blocks /\ bf.start \in Blocks
    BY <1>13 DEF BackfillAdvance, TypeInv, ControlShape, HasHeader, Threads
  <2>3. [mem EXCEPT ![bf.start] = c.hdr] \in Entries
    BY <2>2 DEF TypeInv, TypeOK, Entries
  <2>4. mem' \in Entries /\ saved' \in Entries /\ errors' \in 0 .. MaxErrors
    BY <1>4, <1>13, <2>3 DEF BackfillAdvance, TypeInv, TypeOK
  <2>5. bf' = [bf EXCEPT !.pc = IF c.existed THEN "finish" ELSE "walk",
                         !.curr = c.hdr, !.count = NextCount]
    BY <1>13 DEF BackfillAdvance
  <2>6. /\ call' \in [Threads -> Calls]
        /\ call'["main"] = call["main"]
        /\ \A u \in Threads : HasHeader(u)' => call'[u].hdr \in Blocks
        /\ \A u \in Threads : call'[u].stage = "write" => call'[u].data \in Contents
    BY <1>2, <1>3, <1>13 DEF BackfillAdvance
  <2> QED
    BY <1>13, <2>1, <2>2, <2>4, <2>5, <2>6
    DEF BackfillAdvance, TypeInv, TypeOK, ControlShape, environment
<1>14. CASE BackfillFinish
  <2>1. [mem EXCEPT ![bf.start] = NoBlock] \in Entries
    BY DEF TypeInv, TypeOK, Entries
  <2> QED
    BY <1>4, <1>14, <2>1
    DEF BackfillFinish, BackfillAt, TypeInv, TypeOK, ControlShape, HasHeader, environment
<1> QED
  BY <1>5, <1>6, <1>7, <1>8, <1>9, <1>10, <1>11, <1>12, <1>13, <1>14 DEF BackfillStep

LEMMA RearchiveTypeInv ==
  ASSUME TypeInv,
         \/ RearchiveStep
         \/ \E r \in RearchiveRanges : RearchiveRequest(r[1], r[2]) \/ RearchiveRefuse(r[1], r[2])
  PROVE  TypeInv'
<1> USE RetriesAssumption, EnvironmentAssumption
<1>1. ASSUME NEW id \in Idents, StartCall("rearchive", id)
      PROVE  \E c : GoodCall(c) /\ call' = [call EXCEPT !["rearchive"] = c]
  BY <1>1, ControlCallTypes DEF StartCall, Threads
<1>2. ASSUME EndCall("rearchive")
      PROVE  \E c : GoodCall(c) /\ call' = [call EXCEPT !["rearchive"] = c]
  BY <1>2, ControlCallTypes DEF EndCall, Threads, Idents
<1>3. \A c : GoodCall(c) /\ call' = [call EXCEPT !["rearchive"] = c] =>
               /\ call' \in [Threads -> Calls]
               /\ call'["main"] = call["main"]
               /\ \A u \in Threads : HasHeader(u)' => call'[u].hdr \in Blocks
               /\ \A u \in Threads : call'[u].stage = "write" => call'[u].data \in Contents
  BY SetCallTypes DEF Threads
<1>4. \A n \in Slots : n \in Idents
  BY SlotFacts DEF Idents
<1> DEFINE Requests == [pc : {"idle", "call", "ok", "failed", "refused"},
                        from : Slots, to : Slots, slot : Slots,
                        attempts : 0 .. RearchiveMaxRetries - 1,
                        rewritten : SUBSET Slots, skipped : SUBSET Slots]
           Called   == \E c : GoodCall(c) /\ call' = [call EXCEPT !["rearchive"] = c]
<1>10. ra \in Requests /\ 0 \in 0 .. RearchiveMaxRetries - 1
  BY DEF TypeInv, TypeOK
<1>11. ASSUME ra' \in Requests, Called,
              UNCHANGED <<environment, store, saved, mem, main, bf, errors>>
       PROVE  TypeInv'
  <2> HIDE DEF Requests, Called
  <2>1. /\ call' \in [Threads -> Calls]
        /\ call'["main"] = call["main"]
        /\ \A u \in Threads : HasHeader(u)' => call'[u].hdr \in Blocks
        /\ \A u \in Threads : call'[u].stage = "write" => call'[u].data \in Contents
    BY <1>3, <1>11 DEF Called
  <2> QED
    BY <1>11, <2>1 DEF TypeInv, TypeOK, ControlShape, environment, Requests
<1>5. CASE Persist("rearchive")
  BY <1>5, PersistTypeInv DEF Threads
<1>6. CASE RearchiveSlotDone
  <2>1. NextSlot \in Slots /\ NextSlot \in Idents
    BY <1>4, <1>10, SlotFacts DEF NextSlot
  <2> DEFINE rewritten == ra.rewritten \cup
                            (IF call["rearchive"].stage = "ok" THEN {ra.slot} ELSE {})
             skipped   == ra.skipped \cup
                            (IF call["rearchive"].stage = "notFound" THEN {ra.slot} ELSE {})
  <2>4. rewritten \in SUBSET Slots /\ skipped \in SUBSET Slots
    BY <1>10
  <2> DEFINE record == [ra EXCEPT !.rewritten = rewritten, !.skipped = skipped, !.attempts = 0]
  <2>5. \/ ra' = [record EXCEPT !.slot = NextSlot]
        \/ ra' = [record EXCEPT !.pc = "ok"]
    BY <1>6 DEF RearchiveSlotDone
  <2> HIDE DEF rewritten, skipped
  <2>6. record \in Requests
    BY <1>10, <2>4
  <2> HIDE DEF record
  <2>7. ASSUME NEW r \in Requests
        PROVE  /\ \A n \in Slots : [r EXCEPT !.slot = n] \in Requests
               /\ [r EXCEPT !.pc = "ok"] \in Requests
    OBVIOUS
  <2>2. ra' \in Requests
    <3> HIDE DEF Requests
    <3> QED
      BY <2>1, <2>5, <2>6, <2>7
  <2>3. Called
    BY <1>1, <1>2, <1>6, <2>1 DEF RearchiveSlotDone
  <2> HIDE DEF Requests, Called
  <2> QED
    BY <1>6, <1>11, <2>2, <2>3 DEF RearchiveSlotDone
<1>7. CASE RearchiveRetry
  <2>1. ra.slot \in Idents
    BY <1>4, <1>10
  <2>2. ra' \in Requests
    BY <1>7, <1>10 DEF RearchiveRetry, Exhausted
  <2>3. Called
    BY <1>1, <1>7, <2>1 DEF RearchiveRetry
  <2> HIDE DEF Requests, Called
  <2> QED
    BY <1>7, <1>11, <2>2, <2>3 DEF RearchiveRetry
<1>8. CASE RearchiveFail
  <2>1. ra' \in Requests
    BY <1>8, <1>10 DEF RearchiveFail
  <2>2. Called
    BY <1>2, <1>8 DEF RearchiveFail
  <2> HIDE DEF Requests, Called
  <2> QED
    BY <1>8, <1>11, <2>1, <2>2 DEF RearchiveFail
<1>9. ASSUME NEW r \in RearchiveRanges, RearchiveRequest(r[1], r[2])
      PROVE  TypeInv'
  <2>1. r[1] \in Slots /\ r[2] \in Slots /\ r[1] \in Idents
    BY <1>4, <1>9 DEF RearchiveRequest, ValidRange
  <2>2. ra' \in Requests
    BY <1>9, <2>1 DEF RearchiveRequest, RearchiveFrom
  <2>3. Called
    BY <1>1, <1>9, <2>1 DEF RearchiveRequest
  <2> HIDE DEF Requests, Called
  <2> QED
    BY <1>9, <1>11, <2>2, <2>3 DEF RearchiveRequest
<1>12. ASSUME NEW r \in RearchiveRanges, RearchiveRefuse(r[1], r[2])
       PROVE  TypeInv'
  <2>1. ra' \in Requests
    BY <1>10, <1>12, SlotFacts DEF RearchiveRefuse, RearchiveFrom
  <2> HIDE DEF Requests, Called
  <2> QED
    BY <1>12, <2>1
    DEF RearchiveRefuse, Requests, TypeInv, TypeOK, ControlShape, HasHeader, environment
<1> QED
  BY <1>5, <1>6, <1>7, <1>8, <1>9, <1>12 DEF RearchiveStep

LEMMA StepTypeInv == TypeInv /\ [Next]_vars => TypeInv'
<1> SUFFICES ASSUME TypeInv, [Next]_vars
             PROVE  TypeInv'
  OBVIOUS
<1>1. CASE MainStep
  BY <1>1, MainTypeInv
<1>2. CASE BackfillStep
  BY <1>2, BackfillTypeInv
<1>3. CASE \/ RearchiveStep
           \/ \E r \in RearchiveRanges : RearchiveRequest(r[1], r[2]) \/ RearchiveRefuse(r[1], r[2])
  BY <1>3, RearchiveTypeInv
<1>4. CASE Restart
  <2>1. GoodCall(CallFor("header", HeadId))
    BY ControlCallTypes DEF Threads, Idents
  <2>2. /\ call' \in [Threads -> Calls]
        /\ \A u \in Threads : HasHeader(u)' => call'[u].hdr \in Blocks
        /\ \A u \in Threads : call'[u].stage = "write" => call'[u].data \in Contents
    BY <1>4, <2>1, SetCallTypes DEF Restart, StartCall, Threads
  <2> QED
    BY <1>4, <2>2, RetriesAssumption, EnvironmentAssumption
    DEF Restart, TypeInv, TypeOK, ControlShape
<1>5. CASE HeadMoves
  BY <1>5 DEF HeadMoves, TypeInv, TypeOK, ControlShape, HasHeader
<1>6. ASSUME NEW b \in Revised, Republish(b)
      PROVE  TypeInv'
  BY <1>6, EnvironmentAssumption DEF Republish, TypeInv, TypeOK, ControlShape, HasHeader
<1>7. CASE Crash
  BY <1>7, ExitTypeInv DEF Crash, TypeInv, TypeOK
<1>8. CASE UNCHANGED vars
  BY <1>8 DEF vars, TypeInv, TypeOK, ControlShape, HasHeader
<1> QED
  BY <1>1, <1>2, <1>3, <1>4, <1>5, <1>6, <1>7, <1>8 DEF Next, Environment

\* Every variable keeps its type, whatever the threads, the node, the operators
\* and the failures do: no retry counter passes its maximum, and a walk that
\* goes to a parent has a block whose parent it is.
THEOREM TypeCorrect == Spec => []TypeOK
<1>1. TypeInv => TypeOK
  BY DEF TypeInv
<1> QED
  BY <1>1, InitTypeInv, StepTypeInv, PTL DEF Spec

(***************************************************************************)
(* Progress of the backfill.  ProgressSound is kept because a walk moves   *)
(* to a block only when its call has returned, and a call returns only a   *)
(* block that is stored: the parent of the walk's current block.           *)
(***************************************************************************)
ProgressInv ==
  /\ ProgressSound
  /\ \A t \in Threads : call[t].stage = "ok" => call[t].hdr \in Archived
  /\ bf.pc = "load" => bf.curr \in Archived
  /\ bf.pc = "call" => call["backfill"].id = Parent[bf.curr]
  /\ bf.pc = "call" /\ HasHeader("backfill") => call["backfill"].hdr = Parent[bf.curr]

\* A stored block is a whole walk from itself to itself.
LEMMA WalkedSelf ==
  ASSUME NEW b \in Archived
  PROVE  Walked(b, b)
<1>1. b \in Blocks /\ b \in AncestorsOf[b]
  BY AncestorsReflexive DEF Archived
<1>2. Segment(b, b) \subseteq {b}
  <2> SUFFICES ASSUME NEW x \in AncestorsOf[b], b \in AncestorsOf[x]
               PROVE  x = b
    BY DEF Segment
  <2>1. x \in Blocks
    BY <1>1, AncestorsReflexive
  <2>2. (x = b \/ Slot[x] < Slot[b]) /\ (b = x \/ Slot[b] < Slot[x])
    BY <1>1, <2>1, AncestorsOlder
  <2> QED
    BY <1>1, <2>1, <2>2, SlotAssumption
<1> QED
  BY <1>1, <1>2 DEF Walked

\* One step back adds only the parent to the segment walked.
LEMMA WalkedExtends ==
  ASSUME NEW s, NEW c, Walked(s, c), Parent[c] \in Archived
  PROVE  Walked(s, Parent[c])
<1>1. s \in Blocks /\ c \in AncestorsOf[s] /\ c \in Blocks /\ Parent[c] \in Blocks
  BY AncestorsReflexive DEF Walked, Archived
<1>2. Parent[c] \in AncestorsOf[s]
  BY <1>1, AncestorsClosed
<1>3. Segment(s, Parent[c]) \subseteq Segment(s, c) \cup {Parent[c]}
  <2> SUFFICES ASSUME NEW x \in AncestorsOf[s], Parent[c] \in AncestorsOf[x], x # Parent[c]
               PROVE  c \in AncestorsOf[x]
    BY DEF Segment
  <2>1. x \in Blocks
    BY <1>1, AncestorsReflexive
  <2>2. CASE x \in AncestorsOf[c] /\ x # c
    <3>1. x \in AncestorsOf[Parent[c]]
      BY <1>1, <2>2, AncestorsSplit
    <3>2. Slot[x] < Slot[Parent[c]] /\ Slot[Parent[c]] < Slot[x]
      BY <1>1, <2>1, <3>1, AncestorsOlder
    <3> QED
      BY <1>1, <2>1, <3>2, SlotAssumption
  <2>3. c \in AncestorsOf[c]
    BY <1>1, AncestorsReflexive
  <2> QED
    BY <1>1, <2>2, <2>3, AncestorsLinear
<1> QED
  BY <1>1, <1>2, <1>3 DEF Walked

\* What is walked stays walked while the archive grows.
LEMMA WalkedStays ==
  ASSUME Archived \subseteq Archived'
  PROVE  \A s, c : Walked(s, c) => Walked(s, c)'
BY DEF Walked, Segment

LEMMA EntriesWalkedStay ==
  ASSUME Archived \subseteq Archived', NEW entries, EntriesWalked(entries)
  PROVE  \A s \in Blocks : entries[s] # NoBlock => Walked(s, entries[s])'
BY WalkedStays DEF EntriesWalked

\* A step that does not touch the backfill, and after which a call has returned
\* a block only if that block is stored.
LEMMA ProgressFrame ==
  ASSUME ProgressInv, UNCHANGED <<bf, mem, saved>>, Archived \subseteq Archived',
         NEW t \in Threads, NEW c, call \in [Threads -> Calls],
         call' = [call EXCEPT ![t] = c],
         c.stage = "ok" => c.hdr \in Archived',
         t = "backfill" /\ bf.pc = "call" =>
           /\ c.id = Parent[bf.curr]
           /\ c.stage \in {"exists", "sidecars", "write", "ok"} => c.hdr = Parent[bf.curr]
  PROVE  ProgressInv'
<1>1. ProgressSound'
  BY WalkedStays DEF ProgressInv, ProgressSound, EntriesWalked
<1>2. \A u \in Threads : call'[u] = IF u = t THEN c ELSE call[u]
  OBVIOUS
<1> QED
  BY <1>1, <1>2 DEF ProgressInv, HasHeader, Threads

\* A request of a call keeps the invariant: the archive only grows, and only
\* an answer that is stored is returned.
LEMMA PersistProgress ==
  ASSUME TypeInv, ProgressInv, NEW t \in Threads, Persist(t)
  PROVE  ProgressInv'
<1>1. /\ call \in [Threads -> Calls]
      /\ call[t] \in Calls
      /\ HasHeader(t) => call[t].hdr \in Blocks
      /\ call[t].stage = "write" => call[t].data \in Contents
      /\ store \in [Blocks -> Contents \cup {NoData}]
  BY DEF TypeInv, TypeOK, ControlShape
<1>2. UNCHANGED <<bf, mem, saved>>
  BY PersistTypes DEF control
<1> DEFINE Answered(c) ==
      /\ call' = [call EXCEPT ![t] = c]
      /\ c.stage = "ok" => c.hdr \in Archived'
      /\ c.id = call[t].id
      /\ c.stage \in {"exists", "sidecars", "write", "ok"} =>
           \/ HasHeader(t) /\ c.hdr = call[t].hdr
           \/ c.hdr \in Resolve(call[t].id, head)
<1>3. ASSUME NEW kind \in {"error", "notFound"}, ReturnError(t, kind)
      PROVE  Answered(CallFor(kind, call[t].id))
  BY <1>3 DEF ReturnError, CallFor
<1>4. Archived \subseteq Archived' /\ \E c : Answered(c)
  <2>1. CASE BeaconBlockHeader(t)
    <3>1. Archived' = Archived
      BY <2>1 DEF BeaconBlockHeader, Archived
    <3>2. ASSUME NEW b \in Resolve(call[t].id, head),
                 call' = [call EXCEPT ![t] = [@ EXCEPT !.stage = "exists", !.hdr = b]]
          PROVE  Answered([call[t] EXCEPT !.stage = "exists", !.hdr = b])
      BY <1>1, <3>2 DEF Calls
    <3> HIDE DEF Answered
    <3> QED
      BY <1>3, <2>1, <3>1, <3>2 DEF BeaconBlockHeader
  <2>2. CASE Exists(t)
    <3>1. Archived' = Archived
      BY <2>2 DEF Exists, Archived
    <3> DEFINE existed == call[t].hdr \in Archived
               stage   == IF existed /\ ~Overwrites(t) THEN "ok" ELSE "sidecars"
               c       == [call[t] EXCEPT !.existed = existed, !.stage = stage]
    <3>2. c.stage = stage /\ c.hdr = call[t].hdr /\ c.id = call[t].id
      BY <1>1 DEF Calls
    <3>3. stage = "ok" => call[t].hdr \in Archived
      OBVIOUS
    <3>4. \/ call' = [call EXCEPT ![t] = c]
          \/ ReturnError(t, "error")
      BY <2>2 DEF Exists
    <3> HIDE DEF existed, stage, c
    <3>5. ASSUME call' = [call EXCEPT ![t] = c]
          PROVE  Answered(c)
      BY <2>2, <3>1, <3>2, <3>3, <3>5 DEF Exists, HasHeader
    <3> HIDE DEF Answered
    <3> QED
      BY <1>3, <3>1, <3>4, <3>5
  <2>3. CASE BlobSidecars(t)
    <3>1. Archived' = Archived
      BY <2>3 DEF BlobSidecars, Archived
    <3>2. ASSUME call' = [call EXCEPT ![t] =
                           [@ EXCEPT !.stage = "write", !.data = SidecarsOf(call[t])]]
          PROVE  Answered([call[t] EXCEPT !.stage = "write", !.data = SidecarsOf(call[t])])
      BY <1>1, <2>3, <3>2 DEF BlobSidecars, HasHeader, Calls
    <3> HIDE DEF Answered
    <3> QED
      BY <1>3, <2>3, <3>1, <3>2 DEF BlobSidecars
  <2>4. CASE WriteBlob(t)
    <3> DEFINE written == [store EXCEPT ![call[t].hdr] = call[t].data]
    <3>1. call[t].data # NoData /\ call[t].hdr \in Blocks
      BY <1>1, <2>4, EnvironmentAssumption DEF WriteBlob, HasHeader, Contents
    <3>2. store' = written \/ store' = store
      BY <2>4 DEF WriteBlob
    <3>3. Archived \subseteq Archived' /\ (store' = written => call[t].hdr \in Archived')
      BY <1>1, <3>1, <3>2 DEF Archived
    <3>4. ASSUME call' = [call EXCEPT ![t] = [@ EXCEPT !.stage = "ok", !.data = NoData]],
                 store' = written
          PROVE  Answered([call[t] EXCEPT !.stage = "ok", !.data = NoData])
      BY <1>1, <2>4, <3>3, <3>4 DEF WriteBlob, HasHeader, Calls
    <3> HIDE DEF Answered, written
    <3> QED
      BY <1>3, <2>4, <3>3, <3>4 DEF WriteBlob, written
  <2> QED
    BY <2>1, <2>2, <2>3, <2>4 DEF Persist
<1>5. PICK c : Answered(c)
  BY <1>4
<1>6. ASSUME t = "backfill", bf.pc = "call",
             c.stage \in {"exists", "sidecars", "write", "ok"}
      PROVE  c.hdr = Parent[bf.curr]
  <2>1. bf.curr \in Blocks /\ call[t].id = Parent[bf.curr]
    BY <1>6 DEF TypeInv, ControlShape, ProgressInv
  <2>2. Resolve(call[t].id, head) \subseteq {Parent[bf.curr]}
    BY <2>1, ParentAssumption, BlocksAssumption DEF Resolve
  <2> QED
    BY <1>5, <1>6, <2>2 DEF ProgressInv
<1>7. t = "backfill" /\ bf.pc = "call" => c.id = Parent[bf.curr]
  BY <1>5 DEF ProgressInv
<1>8. call' = [call EXCEPT ![t] = c] /\ (c.stage = "ok" => c.hdr \in Archived')
  BY <1>5
<1> HIDE DEF Answered
<1> QED
  BY <1>1, <1>2, <1>4, <1>6, <1>7, <1>8, ProgressFrame

\* What the end of the process leaves is the saved entries.
LEMMA ExitProgress ==
  ASSUME ProgressInv, ProcessExit, UNCHANGED <<store, saved>>
  PROVE  ProgressInv'
<1>1. Archived' = Archived
  BY DEF Archived
<1>2. EntriesWalked(saved)' /\ EntriesWalked(mem)'
  BY <1>1, WalkedStays DEF ProcessExit, NoEntries, EntriesWalked, ProgressInv, ProgressSound
<1>3. bf'.pc = "off" /\ \A t \in Threads : call'[t].stage = "idle"
  BY DEF ProcessExit, NoBackfill, BackfillAt, NoCall, CallFor
<1> QED
  BY <1>2, <1>3 DEF ProgressInv, ProgressSound

\* A step of the main thread or of the rearchive handler that only begins or
\* ends a call of its own.
LEMMA CallProgress ==
  ASSUME TypeInv, ProgressInv, UNCHANGED <<store, bf, mem, saved>>,
         NEW t \in Threads \ {"backfill"}, NEW id,
         StartCall(t, id) \/ EndCall(t)
  PROVE  ProgressInv'
<1>1. CallFor("header", id).stage # "ok" /\ NoCall.stage # "ok"
  BY DEF NoCall, CallFor
<1>2. Archived' = Archived /\ call \in [Threads -> Calls]
  BY DEF Archived, TypeInv, TypeOK
<1> QED
  BY <1>1, <1>2, ProgressFrame DEF StartCall, EndCall

LEMMA MainProgress ==
  ASSUME TypeInv, ProgressInv, MainStep
  PROVE  ProgressInv'
<1>1. CASE Persist("main")
  BY <1>1, PersistProgress DEF Threads
<1>2. CASE SeedDone
  <2>1. Archived' = Archived
    BY <1>2 DEF SeedDone, Archived
  <2> QED
    BY <1>2, <2>1, WalkedStays
    DEF SeedDone, ProgressInv, ProgressSound, EntriesWalked, HasHeader
<1>3. CASE SeedFail \/ LockFails
  BY <1>3, ExitProgress DEF SeedFail, LockFails
<1>4. CASE ObtainLock
  <2>1. Archived' = Archived
    BY <1>4 DEF ObtainLock, Archived
  <2>2. call["main"].hdr \in Archived
    BY <1>4 DEF ObtainLock, TypeInv, ControlShape, ProgressInv, Threads
  <2>3. bf' = BackfillAt("load", call["main"].hdr) /\ UNCHANGED <<mem, saved>>
    BY <1>4 DEF ObtainLock
  <2>4. ProgressSound'
    BY <2>1, <2>3, WalkedStays DEF BackfillAt, ProgressInv, ProgressSound, EntriesWalked
  <2>5. \A t \in Threads : call'[t].stage = "ok" => call'[t] = call[t]
    BY <1>4 DEF ObtainLock, EndCall, NoCall, CallFor, TypeInv, TypeOK
  <2> QED
    BY <2>1, <2>2, <2>3, <2>4, <2>5 DEF BackfillAt, ProgressInv
<1>5. CASE SeedRetry \/ Tick \/ LiveKnown \/ LiveWalk \/ LiveRetry \/ LiveGiveUp
  BY <1>5, CallProgress
  DEF SeedRetry, Tick, LiveKnown, LiveWalk, LiveRetry, LiveGiveUp, Threads
<1> QED
  BY <1>1, <1>2, <1>3, <1>4, <1>5 DEF MainStep

LEMMA BackfillProgress ==
  ASSUME TypeInv, ProgressInv, BackfillStep
  PROVE  ProgressInv'
<1> DEFINE Walk == bf.pc \in {"walk", "call", "finish"} => Walked(bf.start, bf.curr)
<1>1. CASE Persist("backfill")
  BY <1>1, PersistProgress DEF Threads
<1>2. CASE BackfillLoadFails
  BY <1>2, ExitProgress DEF BackfillLoadFails
<1>4. ASSUME NEW entries, SaveBackfills(entries), EntriesWalked(entries), Archived' = Archived
      PROVE  EntriesWalked(mem)' /\ EntriesWalked(saved)'
  BY <1>4, WalkedStays DEF SaveBackfills, EntriesWalked, ProgressInv, ProgressSound
<1>5. ASSUME UNCHANGED <<mem, saved>>, Archived' = Archived
      PROVE  EntriesWalked(mem)' /\ EntriesWalked(saved)'
  BY <1>5, WalkedStays DEF EntriesWalked, ProgressInv, ProgressSound
<1>6. ASSUME BackfillLoad
      PROVE  ProgressInv'
  <2>1. /\ Archived' = Archived
        /\ \A t \in Threads : call'[t].stage = "ok" => call'[t] = call[t]
        /\ bf.curr \in Archived /\ saved \in Entries
        /\ bf'.pc = "next"
    BY <1>6 DEF BackfillLoad, BackfillAt, Archived, ProgressInv, TypeInv, TypeOK
  <2>2. EntriesWalked([saved EXCEPT ![bf.curr] = bf.curr])
    BY <2>1, WalkedSelf DEF EntriesWalked, ProgressInv, ProgressSound, Entries
  <2> QED
    BY <1>4, <1>6, <2>1, <2>2 DEF BackfillLoad, ProgressInv, ProgressSound
<1>7. ASSUME NEW s \in Blocks, BackfillNext(s)
      PROVE  ProgressInv'
  <2>1. /\ Archived' = Archived /\ UNCHANGED <<mem, saved, call>>
        /\ bf' = [pc |-> "walk", start |-> s, curr |-> mem[s], count |-> 0]
        /\ mem[s] # NoBlock
    BY <1>7 DEF BackfillNext, Archived
  <2>2. Walked(s, mem[s])
    BY <2>1 DEF ProgressInv, ProgressSound, EntriesWalked
  <2>3. Walked(bf'.start, bf'.curr)
    BY <2>1, <2>2
  <2>4. Walk'
    BY <2>1, <2>3 DEF Walked
  <2> QED
    BY <1>5, <2>1, <2>4 DEF ProgressInv, ProgressSound
<1>8. CASE BackfillReturns
  <2>1. /\ Archived' = Archived /\ UNCHANGED <<mem, saved, call>>
        /\ bf'.pc = "off"
    BY <1>8 DEF BackfillReturns, NoBackfill, BackfillAt, Archived
  <2> QED
    BY <1>5, <2>1 DEF ProgressInv, ProgressSound
<1>9. CASE BackfillAtOrigin \/ BackfillWalk \/ BackfillRetry
  <2>1. /\ Archived' = Archived /\ UNCHANGED <<mem, saved>>
        /\ bf.pc \in {"walk", "call"}
        /\ bf'.start = bf.start /\ bf'.curr = bf.curr
        /\ bf'.pc \in {"walk", "call", "finish"}
    BY <1>9 DEF BackfillAtOrigin, BackfillWalk, BackfillRetry, Archived, TypeInv, TypeOK
  <2>2. bf'.pc = "call" => /\ call'["backfill"].id = Parent[bf.curr]
                           /\ call'["backfill"].stage = "header"
    BY <1>9
    DEF BackfillAtOrigin, BackfillWalk, BackfillRetry, StartCall, CallFor, TypeInv, TypeOK,
        Threads
  <2>3. \A t \in Threads : call'[t].stage = "ok" => call'[t] = call[t]
    BY <1>9
    DEF BackfillAtOrigin, BackfillWalk, BackfillRetry, StartCall, EndCall, NoCall, CallFor,
        TypeInv, TypeOK
  <2>4. Walk'
    BY <2>1, WalkedStays DEF ProgressInv, ProgressSound
  <2> QED
    BY <1>5, <2>1, <2>2, <2>3, <2>4 DEF ProgressInv, ProgressSound, HasHeader
<1>10. CASE BackfillAdvance
  <2> DEFINE c == call["backfill"]
  <2>1. /\ Archived' = Archived
        /\ bf.pc = "call" /\ c.stage = "ok"
        /\ bf'.start = bf.start /\ bf'.curr = c.hdr /\ bf'.pc \in {"walk", "finish"}
        /\ mem \in Entries
    BY <1>10 DEF BackfillAdvance, Archived, TypeInv, TypeOK
  <2>2. c.hdr = Parent[bf.curr] /\ c.hdr \in Archived
    BY <2>1 DEF ProgressInv, HasHeader, Threads
  <2>3. Walked(bf.start, c.hdr)
    BY <2>1, <2>2, WalkedExtends DEF ProgressInv, ProgressSound
  <2>4. EntriesWalked([mem EXCEPT ![bf.start] = c.hdr])
    BY <2>1, <2>3 DEF EntriesWalked, ProgressInv, ProgressSound, Entries
  <2>5. EntriesWalked(mem)' /\ EntriesWalked(saved)'
    BY <1>4, <1>5, <1>10, <2>1, <2>4 DEF BackfillAdvance
  <2>6. \A t \in Threads : call'[t].stage = "ok" => call'[t] = call[t]
    BY <1>10 DEF BackfillAdvance, EndCall, NoCall, CallFor, TypeInv, TypeOK
  <2>7. Walk'
    BY <2>1, <2>3, WalkedStays
  <2> QED
    BY <2>1, <2>5, <2>6, <2>7 DEF ProgressInv, ProgressSound
<1>11. CASE BackfillFinish
  <2>1. /\ Archived' = Archived /\ UNCHANGED call
        /\ mem \in Entries
        /\ bf'.pc = "next"
    BY <1>11 DEF BackfillFinish, BackfillAt, Archived, TypeInv, TypeOK
  <2>2. EntriesWalked([mem EXCEPT ![bf.start] = NoBlock])
    BY <2>1 DEF EntriesWalked, ProgressInv, ProgressSound, Entries
  <2> QED
    BY <1>4, <1>11, <2>1, <2>2 DEF BackfillFinish, ProgressInv, ProgressSound
<1> QED
  BY <1>1, <1>2, <1>6, <1>7, <1>8, <1>9, <1>10, <1>11 DEF BackfillStep

LEMMA StepProgress == TypeInv /\ ProgressInv /\ [Next]_vars => ProgressInv'
<1> SUFFICES ASSUME TypeInv, ProgressInv, [Next]_vars
             PROVE  ProgressInv'
  OBVIOUS
<1>1. CASE MainStep
  BY <1>1, MainProgress
<1>2. CASE BackfillStep
  BY <1>2, BackfillProgress
<1>3. CASE RearchiveStep
  <2>1. CASE Persist("rearchive")
    BY <2>1, PersistProgress DEF Threads
  <2>2. CASE RearchiveSlotDone \/ RearchiveRetry \/ RearchiveFail
    BY <2>2, CallProgress DEF RearchiveSlotDone, RearchiveRetry, RearchiveFail, Threads
  <2> QED
    BY <1>3, <2>1, <2>2 DEF RearchiveStep
<1>4. CASE Restart
  BY <1>4, CallProgress DEF Restart, Threads
<1>5. ASSUME NEW r \in RearchiveRanges, RearchiveRequest(r[1], r[2])
      PROVE  ProgressInv'
  BY <1>5, CallProgress DEF RearchiveRequest, Threads
<1>8. ASSUME NEW r \in RearchiveRanges, RearchiveRefuse(r[1], r[2])
      PROVE  ProgressInv'
  <2>1. UNCHANGED <<store, saved, mem, bf, call>>
    BY <1>8 DEF RearchiveRefuse
  <2>2. Archived' = Archived
    BY <2>1 DEF Archived
  <2> QED
    BY <2>1, <2>2, WalkedStays DEF ProgressInv, ProgressSound, EntriesWalked, HasHeader
<1>6. CASE Crash
  BY <1>6, ExitProgress DEF Crash
<1>7. CASE HeadMoves \/ (\E b \in Revised : Republish(b)) \/ UNCHANGED vars
  <2>1. UNCHANGED <<store, saved, mem, bf, call>>
    BY <1>7 DEF HeadMoves, Republish, vars
  <2>2. Archived' = Archived
    BY <2>1 DEF Archived
  <2> QED
    BY <2>1, <2>2, WalkedStays DEF ProgressInv, ProgressSound, EntriesWalked, HasHeader
<1> QED
  BY <1>1, <1>2, <1>3, <1>4, <1>5, <1>6, <1>7, <1>8 DEF Next, Environment

LEMMA InitProgress == Init => ProgressInv
<1> SUFFICES ASSUME Init
             PROVE  ProgressInv
  OBVIOUS
<1>1. bf.pc = "off" /\ \A t \in Threads : call[t].stage \in {"idle", "header"}
  BY DEF Init, NoBackfill, BackfillAt, NoCall, CallFor
<1>2. EntriesWalked(mem) /\ EntriesWalked(saved)
  BY DEF Init, NoEntries, EntriesWalked
<1> QED
  BY <1>1, <1>2 DEF ProgressInv, ProgressSound

\* Backfill processes never claim progress they have not made, through any
\* number of crashes, restarts, failing and unacknowledged writes, reorgs and
\* rearchive requests.
THEOREM ProgressIsSound == Spec => []ProgressSound
<1>1. ProgressInv => ProgressSound
  BY DEF ProgressInv
<1> QED
  BY <1>1, InitTypeInv, StepTypeInv, InitProgress, StepProgress, PTL DEF Spec

=============================================================================
