------------------------- MODULE ArchiverWalkProof -------------------------
(***************************************************************************)
(* What Archiver stores, how far back its backfill walks, and which slots  *)
(* its rearchive handler covers: three more invariants, on top of the      *)
(* types and of the backfill's progress.                                   *)
(***************************************************************************)
EXTENDS ArchiverProof

\* What one request makes of its call: the identifier stays, and the header is
\* the one the call had, none, or a block that the identifier names.
LEMMA PersistAnswers ==
  ASSUME TypeInv, NEW t \in Threads, Persist(t)
  PROVE  \E c : /\ call' = [call EXCEPT ![t] = c]
                /\ c.id = call[t].id
                /\ \/ HasHeader(t) /\ c.hdr = call[t].hdr
                   \/ c.hdr \in Resolve(call[t].id, head)
                   \/ c.hdr = NoBlock /\ c.stage \in {"error", "notFound"}
                /\ c.stage = "write" =>
                     call[t].stage = "sidecars" /\ c.hdr = call[t].hdr /\ c.data.of = c.hdr
<1>1. call \in [Threads -> Calls] /\ call[t] \in Calls
  BY DEF TypeInv, TypeOK
<1> DEFINE Made(c) ==
      /\ call' = [call EXCEPT ![t] = c]
      /\ c.id = call[t].id
      /\ \/ HasHeader(t) /\ c.hdr = call[t].hdr
         \/ c.hdr \in Resolve(call[t].id, head)
         \/ c.hdr = NoBlock /\ c.stage \in {"error", "notFound"}
      /\ c.stage = "write" =>
           call[t].stage = "sidecars" /\ c.hdr = call[t].hdr /\ c.data.of = c.hdr
<1>2. ASSUME NEW kind \in {"error", "notFound"}, ReturnError(t, kind)
      PROVE  Made(CallFor(kind, call[t].id))
  BY <1>2 DEF ReturnError, CallFor
<1>3. CASE BeaconBlockHeader(t)
  <2>1. ASSUME NEW b \in Resolve(call[t].id, head),
               call' = [call EXCEPT ![t] = [@ EXCEPT !.stage = "exists", !.hdr = b]]
        PROVE  Made([call[t] EXCEPT !.stage = "exists", !.hdr = b])
    BY <1>1, <2>1 DEF Calls
  <2> HIDE DEF Made
  <2>2. \E c : Made(c)
    BY <1>2, <1>3, <2>1 DEF BeaconBlockHeader
  <2> QED
    BY <2>2 DEF Made
<1>4. CASE Exists(t)
  <2> DEFINE existed == call[t].hdr \in Archived
             stage   == IF existed /\ ~Overwrites(t) THEN "ok" ELSE "sidecars"
             c       == [call[t] EXCEPT !.existed = existed, !.stage = stage]
  <2>1. c.stage \in {"ok", "sidecars"} /\ c.hdr = call[t].hdr /\ c.id = call[t].id
    BY <1>1 DEF Calls
  <2>2. call' = [call EXCEPT ![t] = c] \/ ReturnError(t, "error")
    BY <1>4 DEF Exists
  <2> HIDE DEF existed, stage, c
  <2>3. ASSUME call' = [call EXCEPT ![t] = c]
        PROVE  Made(c)
    BY <1>4, <2>1, <2>3 DEF Exists, HasHeader
  <2> HIDE DEF Made
  <2>4. \E x : Made(x)
    BY <1>2, <2>2, <2>3
  <2> QED
    BY <2>4 DEF Made
<1>5. CASE BlobSidecars(t)
  <2>1. ASSUME call' = [call EXCEPT ![t] =
                         [@ EXCEPT !.stage = "write", !.data = SidecarsOf(call[t])]]
        PROVE  Made([call[t] EXCEPT !.stage = "write", !.data = SidecarsOf(call[t])])
    BY <1>1, <1>5, <2>1 DEF BlobSidecars, HasHeader, Calls, SidecarsOf
  <2> HIDE DEF Made
  <2>2. \E c : Made(c)
    BY <1>2, <1>5, <2>1 DEF BlobSidecars
  <2> QED
    BY <2>2 DEF Made
<1>6. CASE WriteBlob(t)
  <2>1. ASSUME call' = [call EXCEPT ![t] = [@ EXCEPT !.stage = "ok", !.data = NoData]]
        PROVE  Made([call[t] EXCEPT !.stage = "ok", !.data = NoData])
    BY <1>1, <1>6, <2>1 DEF WriteBlob, HasHeader, Calls
  <2> HIDE DEF Made
  <2>2. \E c : Made(c)
    BY <1>2, <1>6, <2>1 DEF WriteBlob
  <2> QED
    BY <2>2 DEF Made
<1> QED
  BY <1>3, <1>4, <1>5, <1>6 DEF Persist

\* A step changes calls by requests, by setting one thread's call to one with
\* no header, by ending them all, or not at all; and only by a request, the
\* store.
Resets(c) == c.hdr = NoBlock /\ c.stage \in {"idle", "header"}

LEMMA StepShape ==
  ASSUME TypeInv, [Next]_vars
  PROVE  \/ \E t \in Threads : Persist(t)
         \/ /\ UNCHANGED store
            /\ \A u \in Threads : call'[u] = call[u] \/ Resets(call'[u])
<1>1. /\ \A id : Resets(CallFor("header", id))
      /\ Resets(NoCall)
      /\ call \in [Threads -> Calls]
  BY DEF Resets, CallFor, NoCall, TypeInv, TypeOK
<1>2. \A t \in Threads : \A id : StartCall(t, id) \/ EndCall(t) =>
        \A u \in Threads : call'[u] = call[u] \/ Resets(call'[u])
  BY <1>1 DEF StartCall, EndCall
<1>3. ProcessExit => \A u \in Threads : Resets(call'[u])
  BY <1>1 DEF ProcessExit
<1>4. ASSUME UNCHANGED call
      PROVE  \A u \in Threads : call'[u] = call[u]
  BY <1>4
<1> HIDE DEF Resets
<1>5. CASE MainStep
  BY <1>2, <1>3, <1>4, <1>5
  DEF MainStep, SeedDone, SeedRetry, SeedFail, ObtainLock, LockFails, Tick, LiveKnown,
      LiveWalk, LiveRetry, LiveGiveUp, Threads
<1>6. CASE BackfillStep
  BY <1>2, <1>3, <1>4, <1>6
  DEF BackfillStep, BackfillLoad, BackfillLoadFails, BackfillNext, BackfillReturns,
      BackfillAtOrigin, BackfillWalk, BackfillRetry, BackfillAdvance, BackfillFinish, Threads
<1>7. CASE RearchiveStep
  BY <1>2, <1>7
  DEF RearchiveStep, RearchiveSlotDone, RearchiveRetry, RearchiveFail, Threads
<1>8. CASE Restart \/ Environment \/ UNCHANGED vars
  BY <1>2, <1>3, <1>4, <1>8
  DEF Restart, Environment, RearchiveRequest, RearchiveRefuse, HeadMoves, Republish, Crash,
      vars, Threads
<1> QED
  BY <1>5, <1>6, <1>7, <1>8 DEF Next

(***************************************************************************)
(* Keys.  What is about to be written must already be the sidecars of the  *)
(* block whose root will be its key.                                       *)
(***************************************************************************)
KeyInv ==
  /\ KeyedByOwnRoot
  /\ \A t \in Threads : call[t].stage = "write" => call[t].data.of = call[t].hdr

LEMMA StepKeys == TypeInv /\ KeyInv /\ [Next]_vars => KeyInv'
<1> SUFFICES ASSUME TypeInv, KeyInv, [Next]_vars
             PROVE  KeyInv'
  OBVIOUS
<1>1. call \in [Threads -> Calls] /\ store \in [Blocks -> Contents \cup {NoData}]
  BY DEF TypeInv, TypeOK
<1>2. ASSUME NEW t \in Threads, Persist(t)
      PROVE  KeyInv'
  <2>1. PICK c : /\ call' = [call EXCEPT ![t] = c]
                 /\ c.stage = "write" => c.data.of = c.hdr
    BY <1>2, PersistAnswers
  <2>2. \A u \in Threads : call'[u].stage = "write" => call'[u].data.of = call'[u].hdr
    BY <1>1, <2>1 DEF KeyInv
  <2>3. \/ store' = store
        \/ /\ call[t].stage = "write"
           /\ store' = [store EXCEPT ![call[t].hdr] = call[t].data]
    BY <1>2 DEF Persist, BeaconBlockHeader, Exists, BlobSidecars, WriteBlob
  <2>4. KeyedByOwnRoot'
    BY <1>1, <2>3 DEF KeyInv, KeyedByOwnRoot, Archived
  <2> QED
    BY <2>2, <2>4 DEF KeyInv
<1>3. ASSUME UNCHANGED store,
             \A u \in Threads : call'[u] = call[u] \/ Resets(call'[u])
      PROVE  KeyInv'
  <2>1. \A u \in Threads : call'[u].stage = "write" => call'[u] = call[u]
    BY <1>3 DEF Resets
  <2> QED
    BY <1>3, <2>1 DEF KeyInv, KeyedByOwnRoot, Archived
<1> QED
  BY <1>2, <1>3, StepShape

\* Whatever is stored under a root are that block's own sidecars: a call made
\* for "head" or for a slot stays with the block its first request resolved,
\* though the head moves, other threads write and the node revises its answers
\* before its last request.
THEOREM KeysAreRoots == Spec => []KeyedByOwnRoot
<1>1. Init => KeyInv
  BY DEF Init, KeyInv, KeyedByOwnRoot, Archived, NoCall, CallFor
<1>2. KeyInv => KeyedByOwnRoot
  BY DEF KeyInv
<1> QED
  BY <1>1, <1>2, InitTypeInv, StepTypeInv, StepKeys, PTL DEF Spec

(***************************************************************************)
(* The origin.  The backfill asks for parents of blocks above the origin   *)
(* only, it starts from a block that was the head, and no call is left     *)
(* over from an earlier walk.                                              *)
(***************************************************************************)
Seeding == main.pc \in {"seed", "lock"}

EntriesFromOrigin(entries) == \A s \in Blocks : entries[s] \in FromOrigin \cup {NoBlock}

\* The parts of the invariant that are about the backfill.
BackfillPart ==
  /\ bf.curr \in FromOrigin \cup {NoBlock}
  /\ call["backfill"].hdr \in FromOrigin \cup {NoBlock}
  /\ EntriesFromOrigin(mem) /\ EntriesFromOrigin(saved)
  /\ bf.pc = "call" => bf.curr # Origin
  /\ bf.pc # "call" => call["backfill"] = NoCall

SeedPart ==
  /\ Seeding \/ main.pc = "down" => bf.pc = "off"
  /\ Seeding => call["main"].id = HeadId
  /\ Seeding /\ HasHeader("main") => call["main"].hdr \in FromOrigin

OriginInv == BackfillPart /\ SeedPart

LEMMA PersistOrigin ==
  ASSUME TypeInv, ProgressInv, OriginInv, NEW t \in Threads, Persist(t)
  PROVE  OriginInv'
<1>1. PICK c : /\ call' = [call EXCEPT ![t] = c]
               /\ c.id = call[t].id
               /\ \/ HasHeader(t) /\ c.hdr = call[t].hdr
                  \/ c.hdr \in Resolve(call[t].id, head)
                  \/ c.hdr = NoBlock /\ c.stage \in {"error", "notFound"}
  BY PersistAnswers
<1>2. /\ UNCHANGED <<bf, mem, saved, main>>
      /\ call[t].stage \in {"header", "exists", "sidecars", "write"}
      /\ call \in [Threads -> Calls]
  BY PersistTypes DEF control, TypeInv, TypeOK
<1>3. ASSUME t = "backfill"
      PROVE  bf.pc = "call" /\ c.hdr \in FromOrigin \cup {NoBlock}
  <2>1. bf.pc = "call"
    BY <1>2, <1>3 DEF OriginInv, BackfillPart, NoCall, CallFor
  <2>2. bf.curr \in Blocks /\ call[t].id = Parent[bf.curr]
    BY <1>3, <2>1 DEF TypeInv, ControlShape, ProgressInv
  <2>3. Resolve(call[t].id, head) \subseteq {Parent[bf.curr]}
    BY <2>2, ParentAssumption, BlocksAssumption DEF Resolve
  <2>4. bf.curr \in FromOrigin /\ bf.curr # Origin
    BY <2>1, <2>2, BlocksAssumption DEF OriginInv, BackfillPart
  <2>5. Parent[bf.curr] \in FromOrigin
    BY <2>4, OriginBelow
  <2> QED
    BY <1>1, <1>3, <2>1, <2>3, <2>5 DEF OriginInv, BackfillPart
<1>4. ASSUME t = "main", Seeding, c.stage \in {"exists", "sidecars", "write", "ok"}
      PROVE  c.hdr \in FromOrigin
  <2>1. call[t].id = HeadId
    BY <1>4 DEF OriginInv, SeedPart
  <2>2. Resolve(call[t].id, head) \subseteq FromOrigin
    BY <2>1 DEF Resolve, Heads, TypeInv, TypeOK
  <2> QED
    BY <1>1, <1>4, <2>2 DEF OriginInv, SeedPart
<1>5. BackfillPart'
  <2>1. call'["backfill"] = IF t = "backfill" THEN c ELSE call["backfill"]
    BY <1>1, <1>2 DEF Threads
  <2> QED
    BY <1>2, <1>3, <2>1 DEF OriginInv, BackfillPart, EntriesFromOrigin
<1>6. SeedPart'
  <2>1. call'["main"] = IF t = "main" THEN c ELSE call["main"]
    BY <1>1, <1>2 DEF Threads
  <2> QED
    BY <1>1, <1>2, <1>4, <2>1 DEF OriginInv, SeedPart, Seeding, HasHeader
<1> QED
  BY <1>5, <1>6 DEF OriginInv

\* The end of the process leaves the saved entries.
LEMMA ExitOrigin ==
  ASSUME OriginInv, ProcessExit, UNCHANGED saved
  PROVE  OriginInv'
<1>1. BackfillPart'
  BY DEF OriginInv, BackfillPart, EntriesFromOrigin, ProcessExit, NoBackfill, BackfillAt, NoEntries,
      NoCall, CallFor, Threads
<1>2. SeedPart'
  BY DEF SeedPart, Seeding, ProcessExit, NoBackfill, BackfillAt
<1> QED
  BY <1>1, <1>2 DEF OriginInv

LEMMA MainOrigin ==
  ASSUME TypeInv, ProgressInv, OriginInv, MainStep
  PROVE  OriginInv'
<1>1. call \in [Threads -> Calls]
  BY DEF TypeInv, TypeOK
<1>2. ASSUME UNCHANGED <<bf, mem, saved>>, call'["backfill"] = call["backfill"]
      PROVE  BackfillPart'
  BY <1>2 DEF OriginInv, BackfillPart, EntriesFromOrigin
<1>3. \A id : StartCall("main", id) \/ EndCall("main") => call'["backfill"] = call["backfill"]
  BY <1>1 DEF StartCall, EndCall, Threads
<1>4. CASE Persist("main")
  BY <1>4, PersistOrigin DEF Threads
<1>5. CASE SeedDone
  <2>1. SeedPart'
    BY <1>5 DEF OriginInv, SeedDone, SeedPart, Seeding, HasHeader
  <2> QED
    BY <1>2, <1>5, <2>1 DEF OriginInv, SeedDone
<1>6. CASE SeedRetry
  <2>1. SeedPart'
    BY <1>1, <1>6
    DEF OriginInv, SeedRetry, SeedPart, Seeding, HasHeader, StartCall, CallFor, Threads
  <2> QED
    BY <1>2, <1>3, <1>6, <2>1 DEF OriginInv, SeedRetry
<1>7. CASE SeedFail \/ LockFails
  BY <1>7, ExitOrigin DEF SeedFail, LockFails
<1>8. CASE ObtainLock
  <2>1. call["main"].hdr \in FromOrigin
    BY <1>8 DEF ObtainLock, OriginInv, SeedPart, Seeding, HasHeader, TypeInv, ControlShape
  <2>2. bf' = BackfillAt("load", call["main"].hdr) /\ UNCHANGED <<mem, saved>>
    BY <1>8 DEF ObtainLock
  <2>3. call["backfill"] = NoCall /\ call'["backfill"] = NoCall
    BY <1>3, <1>8 DEF ObtainLock, OriginInv, BackfillPart, SeedPart, Seeding
  <2>4. BackfillPart'
    BY <2>1, <2>2, <2>3
    DEF OriginInv, BackfillPart, EntriesFromOrigin, BackfillAt, NoCall, CallFor
  <2>5. SeedPart'
    BY <1>8 DEF ObtainLock, SeedPart, Seeding
  <2> QED
    BY <2>4, <2>5 DEF OriginInv
<1>9. CASE Tick \/ LiveKnown \/ LiveWalk \/ LiveRetry \/ LiveGiveUp
  <2>1. SeedPart'
    BY <1>9
    DEF Tick, LiveKnown, LiveWalk, LiveRetry, LiveGiveUp, SeedPart, Seeding, TypeInv, TypeOK
  <2> QED
    BY <1>2, <1>3, <1>9, <2>1
    DEF OriginInv, Tick, LiveKnown, LiveWalk, LiveRetry, LiveGiveUp
<1> QED
  BY <1>4, <1>5, <1>6, <1>7, <1>8, <1>9 DEF MainStep

LEMMA BackfillOrigin ==
  ASSUME TypeInv, ProgressInv, OriginInv, BackfillStep
  PROVE  OriginInv'
<1>1. call \in [Threads -> Calls] /\ mem \in Entries /\ saved \in Entries
  BY DEF TypeInv, TypeOK
<1>2. ASSUME NEW entries, EntriesFromOrigin(entries), SaveBackfills(entries)
      PROVE  EntriesFromOrigin(mem)' /\ EntriesFromOrigin(saved)'
  BY <1>2 DEF SaveBackfills, EntriesFromOrigin, OriginInv, BackfillPart
<1>3. ASSUME NEW s \in Blocks, NEW b \in FromOrigin \cup {NoBlock},
             NEW entries \in Entries, EntriesFromOrigin(entries)
      PROVE  EntriesFromOrigin([entries EXCEPT ![s] = b])
  BY <1>3 DEF EntriesFromOrigin, Entries
<1>4. ASSUME UNCHANGED <<mem, saved>>
      PROVE  EntriesFromOrigin(mem)' /\ EntriesFromOrigin(saved)'
  BY <1>4 DEF EntriesFromOrigin, OriginInv, BackfillPart
\* The main thread is past the seeding while the backfill runs.
<1>5. ASSUME bf.pc # "off", UNCHANGED main
      PROVE  SeedPart'
  BY <1>5 DEF OriginInv, SeedPart, Seeding
<1>6. EndCall("backfill") => call'["backfill"] = NoCall
  BY <1>1 DEF EndCall, Threads
<1>7. CASE Persist("backfill")
  BY <1>7, PersistOrigin DEF Threads
<1>8. CASE BackfillLoadFails
  BY <1>8, ExitOrigin DEF BackfillLoadFails
<1>9. CASE BackfillLoad
  <2>1. bf.curr \in Blocks /\ bf.curr \in FromOrigin \cup {NoBlock}
    BY <1>9 DEF BackfillLoad, TypeInv, ControlShape, OriginInv, BackfillPart
  <2>2. EntriesFromOrigin([saved EXCEPT ![bf.curr] = bf.curr])
    BY <1>1, <1>3, <2>1 DEF OriginInv, BackfillPart
  <2>3. BackfillPart'
    BY <1>2, <1>9, <2>2 DEF BackfillLoad, BackfillAt, OriginInv, BackfillPart
  <2> QED
    BY <1>5, <1>9, <2>3 DEF BackfillLoad, OriginInv
<1>10. ASSUME NEW s \in Blocks, BackfillNext(s)
       PROVE  OriginInv'
  <2>1. mem[s] \in FromOrigin \cup {NoBlock}
    BY DEF OriginInv, BackfillPart, EntriesFromOrigin
  <2>2. BackfillPart'
    BY <1>4, <1>10, <2>1 DEF BackfillNext, OriginInv, BackfillPart
  <2> QED
    BY <1>5, <1>10, <2>2 DEF BackfillNext, OriginInv
<1>11. CASE BackfillReturns
  <2>1. BackfillPart'
    BY <1>4, <1>11 DEF BackfillReturns, NoBackfill, BackfillAt, OriginInv, BackfillPart
  <2> QED
    BY <1>5, <1>11, <2>1 DEF BackfillReturns, OriginInv
<1>12. CASE BackfillAtOrigin
  <2>1. BackfillPart'
    BY <1>4, <1>12 DEF BackfillAtOrigin, OriginInv, BackfillPart, TypeInv, TypeOK
  <2> QED
    BY <1>5, <1>12, <2>1 DEF BackfillAtOrigin, OriginInv
<1>13. CASE BackfillWalk
  <2>1. call'["backfill"].hdr = NoBlock
    BY <1>1, <1>13 DEF BackfillWalk, StartCall, CallFor, Threads
  <2>2. BackfillPart'
    BY <1>4, <1>13, <2>1 DEF BackfillWalk, OriginInv, BackfillPart, TypeInv, TypeOK
  <2> QED
    BY <1>5, <1>13, <2>2 DEF BackfillWalk, OriginInv
<1>14. CASE BackfillRetry
  <2>1. BackfillPart'
    BY <1>4, <1>6, <1>14
    DEF BackfillRetry, OriginInv, BackfillPart, NoCall, CallFor, TypeInv, TypeOK
  <2> QED
    BY <1>5, <1>14, <2>1 DEF BackfillRetry, OriginInv
<1>15. CASE BackfillAdvance
  <2> DEFINE c == call["backfill"]
  <2>1. c.hdr \in FromOrigin \cup {NoBlock} /\ bf.start \in Blocks
    BY <1>15 DEF BackfillAdvance, OriginInv, BackfillPart, TypeInv, ControlShape
  <2>2. EntriesFromOrigin([mem EXCEPT ![bf.start] = c.hdr])
    BY <1>1, <1>3, <2>1 DEF OriginInv, BackfillPart
  <2>3. EntriesFromOrigin(mem)' /\ EntriesFromOrigin(saved)'
    BY <1>2, <1>4, <1>15, <2>2 DEF BackfillAdvance
  <2>4. bf'.curr = c.hdr /\ bf'.pc \in {"walk", "finish"} /\ call'["backfill"] = NoCall
    BY <1>6, <1>15 DEF BackfillAdvance, TypeInv, TypeOK
  <2>5. BackfillPart'
    BY <2>1, <2>3, <2>4 DEF BackfillPart, NoCall, CallFor
  <2> QED
    BY <1>5, <1>15, <2>5 DEF BackfillAdvance, OriginInv
<1>16. CASE BackfillFinish
  <2>1. EntriesFromOrigin([mem EXCEPT ![bf.start] = NoBlock])
    BY <1>1, <1>3, <1>16 DEF BackfillFinish, OriginInv, BackfillPart, TypeInv, ControlShape
  <2>2. BackfillPart'
    BY <1>2, <1>16, <2>1 DEF BackfillFinish, BackfillAt, OriginInv, BackfillPart
  <2> QED
    BY <1>5, <1>16, <2>2 DEF BackfillFinish, OriginInv
<1> QED
  BY <1>7, <1>8, <1>9, <1>10, <1>11, <1>12, <1>13, <1>14, <1>15, <1>16 DEF BackfillStep

LEMMA StepOrigin == TypeInv /\ ProgressInv /\ OriginInv /\ [Next]_vars => OriginInv'
<1> SUFFICES ASSUME TypeInv, ProgressInv, OriginInv, [Next]_vars
             PROVE  OriginInv'
  OBVIOUS
<1>1. call \in [Threads -> Calls]
  BY DEF TypeInv, TypeOK
\* A step that leaves the main thread's and the backfill's own state as it is.
<1>2. ASSUME UNCHANGED <<main, bf, mem, saved>>,
             call'["main"] = call["main"], call'["backfill"] = call["backfill"]
      PROVE  OriginInv'
  BY <1>2 DEF OriginInv, BackfillPart, SeedPart, EntriesFromOrigin, Seeding, HasHeader
<1>3. \A id : StartCall("rearchive", id) \/ EndCall("rearchive") =>
               call'["main"] = call["main"] /\ call'["backfill"] = call["backfill"]
  BY <1>1 DEF StartCall, EndCall, Threads
<1>4. CASE RearchiveStep
  <2>1. CASE Persist("rearchive")
    BY <2>1, PersistOrigin DEF Threads
  <2>2. CASE RearchiveSlotDone \/ RearchiveRetry \/ RearchiveFail
    BY <1>2, <1>3, <2>2 DEF RearchiveSlotDone, RearchiveRetry, RearchiveFail
  <2> QED
    BY <1>4, <2>1, <2>2 DEF RearchiveStep
<1>5. CASE Restart
  <2>1. BackfillPart'
    BY <1>1, <1>5
    DEF Restart, StartCall, OriginInv, BackfillPart, EntriesFromOrigin, Threads
  <2>2. SeedPart'
    BY <1>1, <1>5
    DEF Restart, StartCall, CallFor, OriginInv, SeedPart, Seeding, HasHeader, Threads
  <2> QED
    BY <2>1, <2>2 DEF OriginInv
<1>6. ASSUME NEW r \in RearchiveRanges, RearchiveRequest(r[1], r[2])
      PROVE  OriginInv'
  BY <1>2, <1>3, <1>6 DEF RearchiveRequest
<1>9. ASSUME NEW r \in RearchiveRanges, RearchiveRefuse(r[1], r[2])
      PROVE  OriginInv'
  BY <1>2, <1>9 DEF RearchiveRefuse
<1>7. CASE Crash
  BY <1>7, ExitOrigin DEF Crash
<1>8. CASE HeadMoves \/ (\E b \in Revised : Republish(b)) \/ UNCHANGED vars
  BY <1>2, <1>8 DEF HeadMoves, Republish, vars
<1> QED
  BY <1>4, <1>5, <1>6, <1>7, <1>8, <1>9, MainOrigin, BackfillOrigin DEF Next, Environment

LEMMA InitOrigin == Init => OriginInv
BY DEF Init, OriginInv, BackfillPart, SeedPart, EntriesFromOrigin, NoEntries, NoBackfill, BackfillAt,
       HasHeader, NoCall, CallFor, Threads

\* A backfill never asks for, stores or leaves for a later process a block that
\* is not above the origin or the origin itself, on any fork, however often it
\* is interrupted and resumed from what it saved.
THEOREM BackfillStaysAboveOrigin == Spec => []BackfillAboveOrigin
<1>1. OriginInv => BackfillAboveOrigin
  BY DEF OriginInv, BackfillPart, EntriesFromOrigin, BackfillAboveOrigin
<1> QED
  BY <1>1, InitOrigin, InitTypeInv, StepTypeInv, InitProgress, StepProgress, StepOrigin, PTL
  DEF Spec

(***************************************************************************)
(* The reply of the rearchive handler covers its range, or all of it before *)
(* the slot at which it halted, with any other threads, reorgs, restarts   *)
(* and failures meanwhile.                                                 *)
(***************************************************************************)
Done(n) == Rewritten(n) \/ n \in ra.skipped

(***************************************************************************)
(* The slots before the one being served are done, and the call being made *)
(* is for that slot: what it finds is a block of the slot.                 *)
(***************************************************************************)
RearchiveInv ==
  /\ RearchiveComplete
  /\ ra.pc = "call" => \A n \in Nat : ra.from <= n /\ n < ra.slot => Done(n)
  /\ ra.pc = "call" => call["rearchive"].id = ra.slot
  /\ ra.pc = "call" /\ HasHeader("rearchive") => Slot[call["rearchive"].hdr] = ra.slot

\* No step removes a block from the archive.
LEMMA ArchiveGrows ==
  ASSUME TypeInv, [Next]_vars
  PROVE  Archived \subseteq Archived'
<1>1. store \in [Blocks -> Contents \cup {NoData}]
  BY DEF TypeInv, TypeOK
<1>2. ASSUME NEW t \in Threads, Persist(t)
      PROVE  Archived \subseteq Archived'
  <2>1. call[t].stage = "write" => call[t].data # NoData
    BY EnvironmentAssumption DEF TypeInv, ControlShape, Contents
  <2>2. \/ store' = store
        \/ /\ call[t].stage = "write"
           /\ store' = [store EXCEPT ![call[t].hdr] = call[t].data]
    BY <1>2 DEF Persist, BeaconBlockHeader, Exists, BlobSidecars, WriteBlob
  <2> QED
    BY <1>1, <2>1, <2>2 DEF Archived
<1> QED
  BY <1>2, StepShape DEF Archived

\* A slot that is done stays done while the request goes on.
LEMMA DoneStays ==
  ASSUME Archived \subseteq Archived', ra.rewritten \subseteq ra'.rewritten,
         ra.skipped \subseteq ra'.skipped
  PROVE  \A n : Done(n) => Done(n)'
BY DEF Done, Rewritten

\* A step that leaves the request and its call as they are.
LEMMA RearchiveFrame ==
  ASSUME TypeInv, RearchiveInv, [Next]_vars,
         UNCHANGED ra, call'["rearchive"] = call["rearchive"]
  PROVE  RearchiveInv'
<1>1. \A n : Done(n) => Done(n)'
  BY ArchiveGrows, DoneStays
<1> QED
  BY <1>1 DEF RearchiveInv, RearchiveComplete, Done, HasHeader

LEMMA PersistRearchive ==
  ASSUME TypeInv, RearchiveInv, [Next]_vars, Persist("rearchive")
  PROVE  RearchiveInv'
<1>1. PICK c : /\ call' = [call EXCEPT !["rearchive"] = c]
               /\ c.id = call["rearchive"].id
               /\ \/ HasHeader("rearchive") /\ c.hdr = call["rearchive"].hdr
                  \/ c.hdr \in Resolve(call["rearchive"].id, head)
                  \/ c.hdr = NoBlock /\ c.stage \in {"error", "notFound"}
  BY PersistAnswers DEF Threads
<1>2. UNCHANGED ra
  BY PersistTypes DEF control, Threads
<1>3. call'["rearchive"] = c
  BY <1>1 DEF TypeInv, TypeOK, Threads
<1>4. ASSUME ra.pc = "call", c.stage \in {"exists", "sidecars", "write", "ok"}
      PROVE  Slot[c.hdr] = ra.slot
  <2>1. call["rearchive"].id = ra.slot /\ ra.slot \in Nat
    BY <1>4, SlotFacts DEF RearchiveInv, TypeInv, TypeOK
  <2>2. \A b \in Resolve(call["rearchive"].id, head) : Slot[b] = ra.slot
    BY <2>1, BlocksAssumption DEF Resolve
  <2> QED
    BY <1>1, <1>4, <2>2 DEF RearchiveInv
<1>5. \A n : Done(n) => Done(n)'
  BY <1>2, ArchiveGrows, DoneStays
<1> QED
  BY <1>1, <1>2, <1>3, <1>4, <1>5 DEF RearchiveInv, RearchiveComplete, Done, HasHeader

\* The slot being served is done: its block was written and is still stored, or
\* the node answered 404.
LEMMA SlotDone ==
  ASSUME TypeInv, ProgressInv, RearchiveInv, RearchiveSlotDone, [Next]_vars
  PROVE  RearchiveInv'
<1> DEFINE outcome   == call["rearchive"].stage
           rewritten == ra.rewritten \cup (IF outcome = "ok" THEN {ra.slot} ELSE {})
           skipped   == ra.skipped \cup (IF outcome = "notFound" THEN {ra.slot} ELSE {})
\* The slot and the next one, as values that the step does not change.
<1>0. PICK slot \in Slots : slot = ra.slot
  BY DEF TypeInv, TypeOK
<1>10. PICK next \in Slots : next = NextSlot /\ (next = 0 \/ next = slot + 1)
  <2>1. /\ slot \in Nat /\ SlotCount \in Nat \ {0} /\ slot < SlotCount
        /\ NextSlot = (slot + 1) % SlotCount /\ NextSlot \in Slots
    BY <1>0, SlotFacts, SlotCountAssumption DEF NextSlot, Slots
  <2>2. (slot + 1) % SlotCount = IF slot + 1 = SlotCount THEN 0 ELSE slot + 1
    <3>1. ASSUME NEW n \in Nat \ {0}, NEW k \in Nat, k < n
          PROVE  (k + 1) % n = IF k + 1 = n THEN 0 ELSE k + 1
      BY <3>1
    <3> QED
      BY <2>1, <3>1
  <2> QED
    BY <2>1, <2>2
<1>1. /\ ra.pc = "call" /\ outcome \in {"ok", "notFound"}
      /\ ra.from \in Nat /\ ra.to \in Nat /\ slot \in Nat /\ next \in Nat
  BY SlotFacts DEF RearchiveSlotDone, TypeInv, TypeOK
<1>2. /\ ra'.rewritten = rewritten /\ ra'.skipped = skipped
      /\ ra'.from = ra.from /\ ra'.to = ra.to
      /\ \/ ra'.pc = "call" /\ ra'.slot = next /\ StartCall("rearchive", next)
         \/ ra'.pc = "ok" /\ ra.to < next
  <2> DEFINE record == [ra EXCEPT !.rewritten = rewritten, !.skipped = skipped, !.attempts = 0]
  <2>1. \/ ra' = [record EXCEPT !.slot = next] /\ StartCall("rearchive", next)
        \/ ra' = [record EXCEPT !.pc = "ok"] /\ ~(next <= ra.to)
    BY <1>10 DEF RearchiveSlotDone, InRange
  <2>2. /\ record.rewritten = rewritten /\ record.skipped = skipped
        /\ record.from = ra.from /\ record.to = ra.to /\ record.pc = "call"
        /\ DOMAIN record = DOMAIN ra
    BY <1>1 DEF TypeInv, TypeOK
  <2>3. {"pc", "slot", "from", "to", "rewritten", "skipped"} \subseteq DOMAIN ra
    BY DEF TypeInv, TypeOK
  <2> HIDE DEF rewritten, skipped, record
  <2>4. CASE ra' = [record EXCEPT !.slot = next] /\ StartCall("rearchive", next)
    BY <2>2, <2>3, <2>4
  <2>5. CASE ra' = [record EXCEPT !.pc = "ok"] /\ ~(next <= ra.to)
    BY <1>1, <2>2, <2>3, <2>5
  <2> QED
    BY <2>1, <2>4, <2>5
<1>3. \A n : Done(n) => Done(n)'
  BY <1>2, ArchiveGrows, DoneStays
<1>4. Done(slot)'
  <2>1. CASE outcome = "ok"
    <3>1. call["rearchive"].hdr \in Archived' /\ Slot[call["rearchive"].hdr] = ra.slot
      BY <1>1, <2>1, ArchiveGrows DEF ProgressInv, RearchiveInv, HasHeader, Threads
    <3>2. Rewritten(slot)'
      BY <1>0, <1>2, <2>1, <3>1 DEF Rewritten
    <3> QED
      BY <3>2 DEF Done
  <2>2. CASE outcome = "notFound"
    BY <1>0, <1>2, <2>2 DEF Done
  <2> QED
    BY <1>1, <2>1, <2>2
<1>5. \A n \in Nat : ra.from <= n /\ n < slot + 1 => Done(n)'
  BY <1>0, <1>1, <1>3, <1>4 DEF RearchiveInv
<1>6. CASE ra'.pc = "call"
  <2>1. /\ ra'.slot = next
        /\ call'["rearchive"].id = next /\ call'["rearchive"].stage = "header"
    BY <1>2, <1>6 DEF StartCall, CallFor, TypeInv, TypeOK, Threads
  <2>2. \A n \in Nat : ra.from <= n /\ n < next => Done(n)'
    BY <1>1, <1>5, <1>10
  <2> QED
    BY <1>2, <1>6, <2>1, <2>2 DEF RearchiveInv, RearchiveComplete, HasHeader
<1>7. CASE ra'.pc = "ok"
  <2>1. \A n \in ra.from .. ra.to : Done(n)'
    BY <1>1, <1>2, <1>5, <1>7, <1>10
  <2> QED
    BY <1>2, <1>7, <2>1 DEF RearchiveInv, RearchiveComplete, Done
<1> QED
  BY <1>2, <1>6, <1>7

\* Only the handler's own steps, a new request and the end of the process touch
\* the request; all others leave it and its call alone.
LEMMA StepRearchive ==
  TypeInv /\ ProgressInv /\ RearchiveInv /\ [Next]_vars => RearchiveInv'
<1> SUFFICES ASSUME TypeInv, ProgressInv, RearchiveInv, [Next]_vars
             PROVE  RearchiveInv'
  OBVIOUS
<1>1. call \in [Threads -> Calls]
  BY DEF TypeInv, TypeOK
<1>2. \A t \in Threads \ {"rearchive"} : \A c :
        call' = [call EXCEPT ![t] = c] => call'["rearchive"] = call["rearchive"]
  BY <1>1 DEF Threads
<1>3. \A t \in Threads \ {"rearchive"} : \A id :
        StartCall(t, id) \/ EndCall(t) => call'["rearchive"] = call["rearchive"]
  BY <1>2 DEF StartCall, EndCall
<1>4. ASSUME NEW t \in Threads \ {"rearchive"}, Persist(t)
      PROVE  RearchiveInv'
  <2>1. \E c : call' = [call EXCEPT ![t] = c]
    BY <1>4, PersistAnswers
  <2>2. UNCHANGED ra
    BY <1>4, PersistTypes DEF control
  <2> QED
    BY <1>2, <2>1, <2>2, RearchiveFrame
<1>5. ASSUME ProcessExit
      PROVE  RearchiveInv'
  BY <1>5
  DEF ProcessExit, NoRearchive, RearchiveFrom, RearchiveInv, RearchiveComplete
<1>6. CASE MainStep
  <2>1. CASE SeedFail \/ LockFails
    BY <1>5, <2>1 DEF SeedFail, LockFails
  <2>2. CASE SeedDone \/ SeedRetry \/ ObtainLock \/ Tick \/ LiveKnown \/ LiveWalk
               \/ LiveRetry \/ LiveGiveUp
    BY <1>3, <2>2, RearchiveFrame
    DEF SeedDone, SeedRetry, ObtainLock, Tick, LiveKnown, LiveWalk, LiveRetry, LiveGiveUp,
        Threads
  <2> QED
    BY <1>4, <1>6, <2>1, <2>2 DEF MainStep, Threads
<1>7. CASE BackfillStep
  <2>1. CASE BackfillLoadFails
    BY <1>5, <2>1 DEF BackfillLoadFails
  <2>2. CASE \/ BackfillLoad \/ (\E s \in Blocks : BackfillNext(s)) \/ BackfillReturns
             \/ BackfillAtOrigin \/ BackfillWalk \/ BackfillRetry \/ BackfillAdvance
             \/ BackfillFinish
    BY <1>3, <2>2, RearchiveFrame
    DEF BackfillLoad, BackfillNext, BackfillReturns, BackfillAtOrigin, BackfillWalk,
        BackfillRetry, BackfillAdvance, BackfillFinish, Threads
  <2> QED
    BY <1>4, <1>7, <2>1, <2>2 DEF BackfillStep, Threads
<1>8. CASE RearchiveStep
  <2>1. CASE RearchiveRetry
    <3>1. /\ ra'.pc = ra.pc /\ ra'.from = ra.from /\ ra'.to = ra.to /\ ra'.slot = ra.slot
          /\ ra'.rewritten = ra.rewritten /\ ra'.skipped = ra.skipped /\ ra.pc = "call"
      BY <2>1 DEF RearchiveRetry, TypeInv, TypeOK
    <3>2. call'["rearchive"].id = ra.slot /\ call'["rearchive"].stage = "header"
      BY <1>1, <2>1 DEF RearchiveRetry, StartCall, CallFor, Threads
    <3>3. \A n : Done(n) => Done(n)'
      BY <3>1, ArchiveGrows, DoneStays
    <3> QED
      BY <3>1, <3>2, <3>3 DEF RearchiveInv, RearchiveComplete, HasHeader
  <2>2. CASE RearchiveFail
    <3>1. /\ ra'.pc = "failed" /\ ra'.from = ra.from /\ ra'.to = ra.to /\ ra'.slot = ra.slot
          /\ ra'.rewritten = ra.rewritten /\ ra'.skipped = ra.skipped /\ ra.pc = "call"
      BY <2>2 DEF RearchiveFail, TypeInv, TypeOK
    <3>2. ra.from \in Nat /\ ra.to \in Nat /\ ra.slot \in Nat
      BY SlotFacts DEF TypeInv, TypeOK
    <3>3. \A n : Done(n) => Done(n)'
      BY <3>1, ArchiveGrows, DoneStays
    <3>4. \A n \in ra'.from .. ra'.to : n < ra'.slot => Done(n)'
      BY <3>1, <3>2, <3>3 DEF RearchiveInv
    <3> QED
      BY <3>1, <3>4 DEF RearchiveInv, RearchiveComplete, Done
  <2> QED
    BY <1>8, <2>1, <2>2, PersistRearchive, SlotDone DEF RearchiveStep
<1>9. CASE Restart
  BY <1>3, <1>9, RearchiveFrame DEF Restart, Threads
<1>10. ASSUME NEW r \in RearchiveRanges, RearchiveRequest(r[1], r[2])
       PROVE  RearchiveInv'
  <2>1. ra' = RearchiveFrom("call", r[1], r[2]) /\ r[1] \in Nat
    BY <1>10, SlotFacts DEF RearchiveRequest, ValidRange
  <2>2. call'["rearchive"].id = r[1] /\ call'["rearchive"].stage = "header"
    BY <1>1, <1>10 DEF RearchiveRequest, StartCall, CallFor, Threads
  <2> QED
    BY <2>1, <2>2 DEF RearchiveFrom, RearchiveInv, RearchiveComplete, HasHeader
<1>13. ASSUME NEW r \in RearchiveRanges, RearchiveRefuse(r[1], r[2])
       PROVE  RearchiveInv'
  BY <1>13 DEF RearchiveRefuse, RearchiveFrom, RearchiveInv, RearchiveComplete
<1>11. CASE Crash
  BY <1>5, <1>11 DEF Crash
<1>12. CASE HeadMoves \/ (\E b \in Revised : Republish(b)) \/ UNCHANGED vars
  BY <1>12, RearchiveFrame DEF HeadMoves, Republish, vars
<1> QED
  BY <1>6, <1>7, <1>8, <1>9, <1>10, <1>11, <1>12, <1>13 DEF Next, Environment

\* When the handler replies with success, every slot of the requested range,
\* the last one included, was rewritten and has a stored block, or was skipped
\* on the node's 404; when it halts on an error, every slot before the failed
\* one, though the loop's slot counter may wrap.
THEOREM RearchiveIsComplete == Spec => []RearchiveComplete
<1>1. Init => RearchiveInv
  BY DEF Init, NoRearchive, RearchiveFrom, RearchiveInv, RearchiveComplete
<1>2. RearchiveInv => RearchiveComplete
  BY DEF RearchiveInv
<1> QED
  BY <1>1, <1>2, InitTypeInv, StepTypeInv, InitProgress, StepProgress, StepRearchive, PTL
  DEF Spec
=============================================================================
