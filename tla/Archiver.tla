------------------------------ MODULE Archiver ------------------------------
(***************************************************************************)
(* One archiver process, its data store and the beacon node it follows.    *)
(*                                                                         *)
(* Three threads of the process call persistBlobsForBlockToS3:             *)
(*   "main"      Start, which seeds the store with the head, and then      *)
(*               trackLatestBlocks, which walks back from each new head to *)
(*               a block that is already stored;                           *)
(*   "backfill"  the goroutine of backfillBlobs, which walks back from the *)
(*               seeded head, and from the blocks earlier processes left   *)
(*               off at, to a stored block or to the origin;               *)
(*   "rearchive" a handler of the admin API, which rewrites a slot range.  *)
(* Every call is four remote requests (header, existence, sidecars, write) *)
(* and the requests of the three threads interleave.                       *)
(***************************************************************************)
EXTENDS BeaconChain

CONSTANTS
  NoData,              \* nothing is stored under a root
  Versions,            \* the answers the node gives, over time, for the
                       \* sidecars of one block, numbered
  Revised,             \* the blocks for which it gives more than the first
  StartupMaxRetries,   \* startupFetchBlobMaximumRetries, 3 in the code
  LiveMaxRetries,      \* liveFetchBlobMaximumRetries, 10 in the code
  RearchiveMaxRetries, \* rearchiveMaximumRetries, 3 in the code
  SaveEvery,           \* blocks between two saves of a backfill, 10 in the code
  SlotCount,           \* the number of values of a slot, 2^64 in the code
  Unparsed,            \* a parameter that toSlot refuses
  RearchiveRanges,     \* the <<from, to>> parameters of rearchive requests
  UnackedWrites,       \* can a write take effect and still return an error?
  MaxErrors,           \* bound on failing requests
  MaxRestarts          \* bound on the times the process is started again

ASSUME RetriesAssumption ==
  /\ StartupMaxRetries \in Nat \ {0}
  /\ LiveMaxRetries \in Nat \ {0}
  /\ RearchiveMaxRetries \in Nat \ {0}
  /\ SaveEvery \in Nat \ {0}

Slots  == 0 .. SlotCount - 1
Params == Slots \cup {Unparsed}

ASSUME SlotCountAssumption ==
  /\ SlotCount \in Nat \ {0}
  /\ Unparsed \notin Nat

ASSUME EnvironmentAssumption ==
  /\ NoData \notin [of : Blocks, version : Versions]
  /\ Versions \subseteq Nat /\ 1 \in Versions
  /\ Revised \subseteq Blocks
  /\ RearchiveRanges \subseteq Params \X Params
  /\ UnackedWrites \in BOOLEAN
  /\ MaxErrors \in Nat
  /\ MaxRestarts \in Nat

VARIABLES
  head,     \* the node's canonical head
  served,   \* served[b]: the version of b's sidecars the node answers with
  store,    \* the blob objects of the data store, by block root
  saved,    \* the backfill_processes object of the data store
  mem,      \* the backfillProcesses map of the backfill goroutine
  main,     \* where the main thread is, and the failed attempts of its retry
  bf,       \* where the backfill goroutine is, and its loop's variables
  ra,       \* the rearchive request being served or the last one's reply
  call,     \* call[t]: thread t's call of persistBlobsForBlockToS3
  errors,   \* requests failed so far
  restarts  \* times the process has been started again

vars == <<head, served, store, saved, mem, main, bf, ra, call, errors, restarts>>

----------------------------------------------------------------------------
(* Types *)

Threads == {"main", "backfill", "rearchive"}

\* What is stored for a block: the block whose sidecars they are, and which of
\* the node's answers.
Contents == [of : Blocks, version : Versions]

\* A map from the start block of a backfill process to its current block,
\* where NoBlock says that the map has no such key.
Entries   == [Blocks -> Blocks \cup {NoBlock}]
NoEntries == [s \in Blocks |-> NoBlock]

Stages == {"idle", "header", "exists", "sidecars", "write", "ok", "error", "notFound"}

Calls == [stage   : Stages,
          id      : Idents,
          hdr     : Blocks \cup {NoBlock},
          existed : BOOLEAN,
          data    : Contents \cup {NoData}]

\* A call for a block's identifier that has no answer yet, or no good one.
CallFor(stage, id) == [stage |-> stage, id |-> id, hdr |-> NoBlock,
                       existed |-> FALSE, data |-> NoData]

NoCall == CallFor("idle", NoBlock)

\* The backfill goroutine between two walks, with a block it is to start at.
BackfillAt(pc, b) == [pc |-> pc, start |-> NoBlock, curr |-> b, count |-> 0]

NoBackfill  == BackfillAt("off", NoBlock)

\* A rearchive request of which no slot is done yet.
RearchiveFrom(pc, from, to) == [pc |-> pc, from |-> from, to |-> to, slot |-> from,
                                attempts |-> 0, rewritten |-> {}, skipped |-> {}]

NoRearchive == RearchiveFrom("idle", 0, 0)

Archived == {b \in Blocks : store[b] # NoData}

TypeOK ==
  /\ head \in Heads
  /\ served \in [Blocks -> Versions]
  /\ store \in [Blocks -> Contents \cup {NoData}]
  /\ saved \in Entries
  /\ mem \in Entries
  /\ main \in [pc : {"down", "seed", "lock", "idle", "live"}, attempts : Nat]
  /\ main.attempts < (IF main.pc = "seed" THEN StartupMaxRetries ELSE LiveMaxRetries)
  /\ bf \in [pc : {"off", "load", "next", "walk", "call", "finish"},
             start : Blocks \cup {NoBlock},
             curr : Blocks \cup {NoBlock},
             count : 0 .. SaveEvery - 1]
  /\ ra \in [pc : {"idle", "call", "ok", "failed", "refused"},
             from : Slots, to : Slots, slot : Slots,
             attempts : 0 .. RearchiveMaxRetries - 1,
             rewritten : SUBSET Slots, skipped : SUBSET Slots]
  /\ call \in [Threads -> Calls]
  /\ errors \in 0 .. MaxErrors
  /\ restarts \in 0 .. MaxRestarts

Init ==
  /\ head \in Heads
  /\ served = [b \in Blocks |-> 1]
  /\ store = [b \in Blocks |-> NoData]
  /\ saved = NoEntries
  /\ mem = NoEntries
  /\ main = [pc |-> "seed", attempts |-> 0]
  /\ bf = NoBackfill
  /\ ra = NoRearchive
  /\ call = [t \in Threads |->
               IF t = "main" THEN CallFor("header", HeadId) ELSE NoCall]
  /\ errors = 0
  /\ restarts = 0

----------------------------------------------------------------------------
(* persistBlobsForBlockToS3, one action per request it makes *)

environment == <<head, served, restarts>>
control     == <<main, bf, ra, saved, mem>>

\* Thread t calls persistBlobsForBlockToS3 for the block that id names.
StartCall(t, id) == call' = [call EXCEPT ![t] = CallFor("header", id)]

EndCall(t) == call' = [call EXCEPT ![t] = NoCall]

\* The call returns no header: with the node's 404, or with another error.
ReturnError(t, kind) == call' = [call EXCEPT ![t] = CallFor(kind, call[t].id)]

\* One request fails.
Fail == errors < MaxErrors /\ errors' = errors + 1

\* Only the rearchive handler asks persistBlobsForBlockToS3 to overwrite.
Overwrites(t) == t = "rearchive"

\* The header of the block that the identifier names when the node answers.
BeaconBlockHeader(t) ==
  /\ call[t].stage = "header"
  /\ \/ /\ \E b \in Resolve(call[t].id, head) :
             call' = [call EXCEPT ![t] = [@ EXCEPT !.stage = "exists", !.hdr = b]]
        /\ UNCHANGED errors
     \/ /\ Resolve(call[t].id, head) = {}
        /\ ReturnError(t, "notFound")
        /\ UNCHANGED errors
     \/ Fail /\ ReturnError(t, "error")
  /\ UNCHANGED <<environment, control, store>>

\* Is the block stored?  If so the call is over, unless it is to overwrite.
Exists(t) ==
  /\ call[t].stage = "exists"
  /\ \/ LET exists == call[t].hdr \in Archived IN
        /\ call' = [call EXCEPT ![t] = [@ EXCEPT
                      !.existed = exists,
                      !.stage = IF exists /\ ~Overwrites(t) THEN "ok" ELSE "sidecars"]]
        /\ UNCHANGED errors
     \/ Fail /\ ReturnError(t, "error")
  /\ UNCHANGED <<environment, control, store>>

\* Variant, to be told apart: the sidecars are asked for by the call's identifier.
SidecarsOfIdent(c) ==
  [of |-> CHOOSE b \in Resolve(c.id, head) : TRUE, version |-> served[c.hdr]]

\* The sidecars of the header's block, asked for by its root.
SidecarsOf(c) == [of |-> c.hdr, version |-> served[c.hdr]]

BlobSidecars(t) ==
  /\ call[t].stage = "sidecars"
  /\ \/ /\ call' = [call EXCEPT ![t] = [@ EXCEPT !.stage = "write", !.data = SidecarsOf(call[t])]]
        /\ UNCHANGED errors
     \/ Fail /\ \E kind \in {"error", "notFound"} : ReturnError(t, kind)
  /\ UNCHANGED <<environment, control, store>>

\* The object replaces whatever is stored under the header's root.  A failed
\* write may have taken effect: a timed out S3 request, a short file write.
WriteBlob(t) ==
  LET written == [store EXCEPT ![call[t].hdr] = call[t].data] IN
  /\ call[t].stage = "write"
  /\ \/ /\ store' = written
        /\ call' = [call EXCEPT ![t] = [@ EXCEPT !.stage = "ok", !.data = NoData]]
        /\ UNCHANGED errors
     \/ /\ Fail
        /\ ReturnError(t, "error")
        /\ store' \in IF UnackedWrites THEN {store, written} ELSE {store}
  /\ UNCHANGED <<environment, control>>

Persist(t) ==
  BeaconBlockHeader(t) \/ Exists(t) \/ BlobSidecars(t) \/ WriteBlob(t)

\* Variant, to be told apart: one attempt too few, one too many.
ExhaustedEarly(attempts, max) == attempts + 2 >= max
ExhaustedLate(attempts, max) == attempts >= max

\* retry.Do makes max attempts: was the one that failed after this many other
\* failed attempts the last one?
Exhausted(attempts, max) == attempts + 1 >= max

Failed(t) == call[t].stage \in {"error", "notFound"}

----------------------------------------------------------------------------
(* The process ends: what only memory holds is lost *)

ProcessExit ==
  /\ main' = [pc |-> "down", attempts |-> 0]
  /\ bf' = NoBackfill
  /\ ra' = NoRearchive
  /\ mem' = NoEntries
  /\ call' = [t \in Threads |-> NoCall]

\* At any point: a crash, or Stop, after which the process exits without
\* waiting for the goroutine of the backfill or for the API's handlers.
Crash ==
  /\ main.pc # "down"
  /\ restarts < MaxRestarts
  /\ ProcessExit
  /\ UNCHANGED <<environment, store, saved, errors>>

\* A new process starts on the same data store.
Restart ==
  /\ main.pc = "down"
  /\ restarts < MaxRestarts
  /\ restarts' = restarts + 1
  /\ main' = [pc |-> "seed", attempts |-> 0]
  /\ StartCall("main", HeadId)
  /\ UNCHANGED <<head, served, store, saved, mem, bf, ra, errors>>

----------------------------------------------------------------------------
(* The main thread: Start, waitObtainStorageLock, trackLatestBlocks *)

SeedDone ==
  /\ main.pc = "seed"
  /\ call["main"].stage = "ok"
  /\ main' = [pc |-> "lock", attempts |-> 0]
  /\ UNCHANGED <<environment, store, saved, mem, bf, ra, call, errors>>

SeedRetry ==
  /\ main.pc = "seed"
  /\ Failed("main")
  /\ ~Exhausted(main.attempts, StartupMaxRetries)
  /\ main' = [main EXCEPT !.attempts = @ + 1]
  /\ StartCall("main", HeadId)
  /\ UNCHANGED <<environment, store, saved, mem, bf, ra, errors>>

\* Start returns the error and the process ends.
SeedFail ==
  /\ main.pc = "seed"
  /\ Failed("main")
  /\ Exhausted(main.attempts, StartupMaxRetries)
  /\ ProcessExit
  /\ UNCHANGED <<environment, store, saved, errors>>

\* Variant, to be told apart: the backfill starts from the head of that moment.
ObtainLockAtHead ==
  /\ main.pc = "lock"
  /\ main' = [pc |-> "idle", attempts |-> 0]
  /\ bf' = BackfillAt("load", head)
  /\ EndCall("main")
  /\ UNCHANGED <<environment, store, saved, mem, ra, errors>>

\* However long the wait was, the backfill starts from the seeded block.
ObtainLock ==
  /\ main.pc = "lock"
  /\ main' = [pc |-> "idle", attempts |-> 0]
  /\ bf' = BackfillAt("load", call["main"].hdr)
  /\ EndCall("main")
  /\ UNCHANGED <<environment, store, saved, mem, ra, errors>>

\* A lockfile that cannot be read or written is a log.Crit, which exits.
LockFails ==
  /\ main.pc = "lock"
  /\ Fail
  /\ ProcessExit
  /\ UNCHANGED <<environment, store, saved>>

\* The poll ticker fires: processBlocksUntilKnownBlock begins at the head.
Tick ==
  /\ main.pc = "idle"
  /\ main' = [pc |-> "live", attempts |-> 0]
  /\ StartCall("main", HeadId)
  /\ UNCHANGED <<environment, store, saved, mem, bf, ra, errors>>

LiveKnown ==
  /\ main.pc = "live"
  /\ call["main"].stage = "ok"
  /\ call["main"].existed
  /\ main' = [pc |-> "idle", attempts |-> 0]
  /\ EndCall("main")
  /\ UNCHANGED <<environment, store, saved, mem, bf, ra, errors>>

LiveWalk ==
  /\ main.pc = "live"
  /\ call["main"].stage = "ok"
  /\ ~call["main"].existed
  /\ main' = [pc |-> "live", attempts |-> 0]
  /\ StartCall("main", Parent[call["main"].hdr])
  /\ UNCHANGED <<environment, store, saved, mem, bf, ra, errors>>

LiveRetry ==
  /\ main.pc = "live"
  /\ Failed("main")
  /\ ~Exhausted(main.attempts, LiveMaxRetries)
  /\ main' = [main EXCEPT !.attempts = @ + 1]
  /\ StartCall("main", call["main"].id)
  /\ UNCHANGED <<environment, store, saved, mem, bf, ra, errors>>

\* The walk is abandoned; the next tick starts at the head again.
LiveGiveUp ==
  /\ main.pc = "live"
  /\ Failed("main")
  /\ Exhausted(main.attempts, LiveMaxRetries)
  /\ main' = [pc |-> "idle", attempts |-> 0]
  /\ EndCall("main")
  /\ UNCHANGED <<environment, store, saved, mem, bf, ra, errors>>
----------------------------------------------------------------------------
(* The backfill goroutine: backfillBlobs *)

\* The map is changed and written to the store; a failing write is ignored.
SaveBackfills(entries) ==
  /\ mem' = entries
  /\ \/ saved' = entries /\ UNCHANGED errors
     \/ Fail /\ UNCHANGED saved

\* The saved processes are read and one is added that starts at the seeded
\* block, in place of a saved one with the same start.
BackfillLoad ==
  /\ bf.pc = "load"
  /\ SaveBackfills([saved EXCEPT ![bf.curr] = bf.curr])
  /\ bf' = BackfillAt("next", NoBlock)
  /\ UNCHANGED <<environment, store, main, ra, call>>

\* Saved processes that cannot be read are a log.Crit, which exits.
BackfillLoadFails ==
  /\ bf.pc = "load"
  /\ Fail
  /\ ProcessExit
  /\ UNCHANGED <<environment, store, saved>>

\* The processes are walked one after the other, in no given order.
BackfillNext(s) ==
  /\ bf.pc = "next"
  /\ mem[s] # NoBlock
  /\ bf' = [pc |-> "walk", start |-> s, curr |-> mem[s], count |-> 0]
  /\ UNCHANGED <<environment, store, saved, mem, main, ra, call, errors>>

BackfillReturns ==
  /\ bf.pc = "next"
  /\ mem = NoEntries
  /\ bf' = NoBackfill
  /\ UNCHANGED <<environment, store, saved, mem, main, ra, call, errors>>

BackfillAtOrigin ==
  /\ bf.pc = "walk"
  /\ bf.curr = Origin
  /\ bf' = [bf EXCEPT !.pc = "finish"]
  /\ UNCHANGED <<environment, store, saved, mem, main, ra, call, errors>>

BackfillWalk ==
  /\ bf.pc = "walk"
  /\ bf.curr # Origin
  /\ bf' = [bf EXCEPT !.pc = "call"]
  /\ StartCall("backfill", Parent[bf.curr])
  /\ UNCHANGED <<environment, store, saved, mem, main, ra, errors>>

\* Variant, to be told apart: an error ends the walk.
BackfillGiveUp ==
  /\ bf.pc = "call"
  /\ Failed("backfill")
  /\ bf' = [bf EXCEPT !.pc = "finish"]
  /\ EndCall("backfill")
  /\ UNCHANGED <<environment, store, saved, mem, main, ra, errors>>

\* Any error is retried, without limit, from the block it happened on.
BackfillRetry ==
  /\ bf.pc = "call"
  /\ Failed("backfill")
  /\ bf' = [bf EXCEPT !.pc = "walk"]
  /\ EndCall("backfill")
  /\ UNCHANGED <<environment, store, saved, mem, main, ra, errors>>

\* The blocks walked, of which only the remainder matters.
NextCount == (bf.count + 1) % SaveEvery

\* The parent is stored.  Every SaveEvery blocks the progress is saved.  The
\* walk is over when the parent had been stored before.
BackfillAdvance ==
  LET c == call["backfill"] IN
  /\ bf.pc = "call"
  /\ c.stage = "ok"
  /\ bf' = [bf EXCEPT !.pc = IF c.existed THEN "finish" ELSE "walk",
                      !.curr = c.hdr,
                      !.count = NextCount]
  /\ EndCall("backfill")
  /\ IF NextCount = 0 THEN SaveBackfills([mem EXCEPT ![bf.start] = c.hdr])
                      ELSE UNCHANGED <<mem, saved, errors>>
  /\ UNCHANGED <<environment, store, main, ra>>

\* The deferred function of a finished walk removes its entry.
BackfillFinish ==
  /\ bf.pc = "finish"
  /\ SaveBackfills([mem EXCEPT ![bf.start] = NoBlock])
  /\ bf' = BackfillAt("next", NoBlock)
  /\ UNCHANGED <<environment, store, main, ra, call>>

----------------------------------------------------------------------------
(* The rearchive handler: rearchiveBlocks, rearchiveRange *)

\* What rearchiveBlocks rearchives: two slots, not the wrong way round.
ValidRange(from, to) == from \in Slots /\ to \in Slots /\ from <= to

\* The API serves from before the seeding on.  The model serves one request at
\* a time.
RearchiveRequest(from, to) ==
  /\ main.pc # "down"
  /\ ra.pc # "call"
  /\ ValidRange(from, to)
  /\ ra' = RearchiveFrom("call", from, to)
  /\ StartCall("rearchive", from)
  /\ UNCHANGED <<environment, store, saved, mem, main, bf, errors>>

\* The reply is 400.
RearchiveRefuse(from, to) ==
  /\ main.pc # "down"
  /\ ra.pc # "call"
  /\ ~ValidRange(from, to)
  /\ ra' = RearchiveFrom("refused", 0, 0)
  /\ UNCHANGED <<environment, store, saved, mem, main, bf, call, errors>>

\* Variant, to be told apart: the last slot of the range is left out.
InShortRange(n) == n < ra.to

\* The range includes its last slot.
InRange(n) == n <= ra.to

\* i++ on an unsigned integer: the slot after the largest one is 0.
NextSlot == (ra.slot + 1) % SlotCount

\* Variant, to be told apart: a slot without a block is asked for again.
RearchiveSlotAgain ==
  LET outcome == call["rearchive"].stage
      record  == [ra EXCEPT !.rewritten = @ \cup {ra.slot}, !.attempts = 0]
  IN
  /\ ra.pc = "call"
  /\ outcome \in {"ok", "notFound"}
  /\ \/ /\ outcome = "notFound"
        /\ UNCHANGED ra
        /\ StartCall("rearchive", ra.slot)
     \/ /\ outcome = "ok" /\ InRange(NextSlot)
        /\ ra' = [record EXCEPT !.slot = NextSlot]
        /\ StartCall("rearchive", NextSlot)
     \/ /\ outcome = "ok" /\ ~InRange(NextSlot)
        /\ ra' = [record EXCEPT !.pc = "ok"]
        /\ EndCall("rearchive")
  /\ UNCHANGED <<environment, store, saved, mem, main, bf, errors>>

\* A slot is done when its block was rewritten, and when the node answered
\* 404, be it to the request for the header or for the sidecars.
RearchiveSlotDone ==
  LET outcome == call["rearchive"].stage
      record  == [ra EXCEPT
                    !.rewritten = @ \cup (IF outcome = "ok" THEN {ra.slot} ELSE {}),
                    !.skipped = @ \cup (IF outcome = "notFound" THEN {ra.slot} ELSE {}),
                    !.attempts = 0]
  IN
  /\ ra.pc = "call"
  /\ outcome \in {"ok", "notFound"}
  /\ \/ /\ InRange(NextSlot)
        /\ ra' = [record EXCEPT !.slot = NextSlot]
        /\ StartCall("rearchive", NextSlot)
     \/ /\ ~InRange(NextSlot)
        /\ ra' = [record EXCEPT !.pc = "ok"]
        /\ EndCall("rearchive")
  /\ UNCHANGED <<environment, store, saved, mem, main, bf, errors>>

RearchiveRetry ==
  /\ ra.pc = "call"
  /\ call["rearchive"].stage = "error"
  /\ ~Exhausted(ra.attempts, RearchiveMaxRetries)
  /\ ra' = [ra EXCEPT !.attempts = @ + 1]
  /\ StartCall("rearchive", ra.slot)
  /\ UNCHANGED <<environment, store, saved, mem, main, bf, errors>>

RearchiveFail ==
  /\ ra.pc = "call"
  /\ call["rearchive"].stage = "error"
  /\ Exhausted(ra.attempts, RearchiveMaxRetries)
  /\ ra' = [ra EXCEPT !.pc = "failed", !.attempts = 0]
  /\ EndCall("rearchive")
  /\ UNCHANGED <<environment, store, saved, mem, main, bf, errors>>

----------------------------------------------------------------------------
(* The beacon node *)

\* A new block, or a reorg to another fork; never back to an ancestor.
HeadMoves ==
  /\ head' \in Heads
  /\ head' \notin AncestorsOf[head]
  /\ UNCHANGED <<served, store, saved, mem, main, bf, ra, call, errors, restarts>>

\* The node answers the request for b's sidecars with other data from now on.
Republish(b) ==
  /\ served[b] + 1 \in Versions
  /\ served' = [served EXCEPT ![b] = @ + 1]
  /\ UNCHANGED <<head, store, saved, mem, main, bf, ra, call, errors, restarts>>

----------------------------------------------------------------------------

MainStep ==
  \/ Persist("main")
  \/ SeedDone \/ SeedRetry \/ SeedFail
  \/ ObtainLock \/ LockFails
  \/ Tick \/ LiveKnown \/ LiveWalk \/ LiveRetry \/ LiveGiveUp

BackfillStep ==
  \/ Persist("backfill")
  \/ BackfillLoad \/ BackfillLoadFails
  \/ \E s \in Blocks : BackfillNext(s)
  \/ BackfillReturns
  \/ BackfillAtOrigin \/ BackfillWalk \/ BackfillRetry \/ BackfillAdvance
  \/ BackfillFinish

RearchiveStep ==
  \/ Persist("rearchive")
  \/ RearchiveSlotDone \/ RearchiveRetry \/ RearchiveFail

Environment ==
  \/ \E r \in RearchiveRanges : RearchiveRequest(r[1], r[2]) \/ RearchiveRefuse(r[1], r[2])
  \/ HeadMoves
  \/ \E b \in Revised : Republish(b)
  \/ Crash

Next == MainStep \/ BackfillStep \/ RearchiveStep \/ Restart \/ Environment

\* The threads and handlers run on, the ticker ticks and a process that ended
\* is started again; the environment owes nothing.
Fairness ==
  /\ WF_vars(MainStep)
  /\ WF_vars(BackfillStep)
  /\ WF_vars(RearchiveStep)
  /\ WF_vars(Restart)

Spec == Init /\ [][Next]_vars /\ Fairness
----------------------------------------------------------------------------
(* What holds of backfill processes, whatever fails and whenever *)

\* The blocks from s back to c, when c is an ancestor of s.
Segment(s, c) == {b \in AncestorsOf[s] : c \in AncestorsOf[b]}

Walked(s, c) ==
  /\ s \in Blocks /\ c \in AncestorsOf[s]
  /\ Segment(s, c) \subseteq Archived

EntriesWalked(entries) ==
  \A s \in Blocks : entries[s] # NoBlock => Walked(s, entries[s])

\* A backfill process never claims progress it has not made: from its start
\* block back to the current block that the goroutine, its map or the stored
\* backfill_processes hold for it, every block is stored.  A process resumed
\* from there after a restart skips no block that it has not stored.
ProgressSound ==
  /\ bf.pc \in {"walk", "call", "finish"} => Walked(bf.start, bf.curr)
  /\ EntriesWalked(mem)
  /\ EntriesWalked(saved)

\* The backfill neither stores a block below the configured origin nor leaves
\* an entry that a later process would resume below it.
BackfillAboveOrigin ==
  /\ {bf.curr, call["backfill"].hdr} \subseteq FromOrigin \cup {NoBlock}
  /\ \A s \in Blocks : {mem[s], saved[s]} \subseteq FromOrigin \cup {NoBlock}

\* What is stored under a root are the sidecars of the block with that root,
\* though the head that a call asks for may move between its requests.
KeyedByOwnRoot == \A b \in Archived : store[b].of = b

----------------------------------------------------------------------------
(* What holds of one run of the process, from an empty store *)

\* The blocks that a thread is on its way to: those it persists next.
MainTargets ==
  LET c == call["main"] IN
  IF c.stage = "ok" /\ (main.pc # "live" \/ ~c.existed)
  THEN {Parent[c.hdr]}
  ELSE {c.id}

BackfillTargets ==
  LET c == call["backfill"] IN
  IF bf.pc \in {"load", "walk", "call"} /\ c.stage # "ok" THEN {Parent[bf.curr]}
  ELSE IF c.stage = "ok" /\ ~c.existed THEN {Parent[c.hdr]}
  ELSE {}

PendingTargets == {Parent[mem[s]] : s \in {s \in Blocks \ {bf.start} : mem[s] # NoBlock}}

Targets == MainTargets \cup BackfillTargets \cup PendingTargets

\* Nothing has happened to this process that leaves a gap to nobody: as many
\* failures as a live walk has attempts, a write that took effect and failed, or
\* a rearchive request.
Calm ==
  /\ errors < LiveMaxRetries
  /\ UnackedWrites => errors = 0
  /\ ra.pc = "idle"

\* Nor has an earlier process ended in the middle of its walks.
Undisturbed == Calm /\ restarts = 0

\* No gap is forgotten while the process runs undisturbed: the parent of every
\* stored block above the origin is stored, or the live walk, the backfill walk or
\* a backfill process yet to be walked is about to store it.  (Both walks stop
\* at the first stored block: a gap below one that nobody is on the way to
\* stays for ever.)
GapsOwed ==
  main.pc # "down" /\ Undisturbed =>
    \A b \in Archived \cap AboveOrigin : Parent[b] \in Archived \cup Targets

\* Every gap is filled: once a block above the origin is stored, so is its
\* parent, unless the process ends before.
GapsFilled ==
  \A b \in AboveOrigin :
    b \in Archived ~> Parent[b] \in Archived \/ main.pc = "down"

\* The node's head, and the one for which the main thread has a header.
Given ==
  {head} \cup {b \in Blocks : call["main"].id = HeadId /\ call["main"].hdr = b}

\* A run of the process implements the archive's promise.
Promise == INSTANCE Archive
           WITH archived <- Archived, given <- Given, running <- main.pc # "down"

ImplementsArchive == Promise!Spec

\* Through crashes and restarts, reorgs, failures and writes that take effect though
\* they fail, the archive grows only by the node's heads and by parents of stored
\* blocks: but for the slots that an operator rearchives, no walk skips a block.
GrowsAsPromised ==
  [][Promise!Next \/ Restart \/ WriteBlob("rearchive")]_(Promise!vars)

----------------------------------------------------------------------------
(* The rearchive handler's reply *)

Rewritten(n) == n \in ra.rewritten /\ \E b \in Archived : Slot[b] = n

\* When the handler replies with success, every slot of the range has been
\* rewritten, and a block of that slot is still stored, or was skipped; when it
\* halts on an error, every slot before the one it halted at: however often
\* requests were retried and whatever the head did meanwhile.
RearchiveComplete ==
  ra.pc \in {"ok", "failed"} =>
    \A n \in ra.from .. ra.to :
      ra.pc = "ok" \/ n < ra.slot => Rewritten(n) \/ n \in ra.skipped

\* Every request is answered, one way or the other, though the slot counter
\* wraps: unless the range ends at the largest slot, which no slot exceeds, and
\* the loop never ends.
RearchiveEnds == ra.pc = "call" /\ ra.to # SlotCount - 1 ~> ra.pc # "call"

----------------------------------------------------------------------------
(* What the repository's comments say and the code does not do *)

\* "This allows us to [...] reengage a previous backfill in case an archiver
\* restart interrupted an active backfill" (BackfillProcesses): once a backfill
\* process is saved and its archiver ends, the backfill is completed later on,
\* by whichever archiver.
ReengagesBackfill ==
  \A s \in FromOrigin :
    saved[s] # NoBlock /\ main.pc = "down" ~> Segment(s, Origin) \subseteq Archived

\* "If the blobs are already stored, it will not overwrite the data"
\* (persistBlobsForBlockToS3): only a rearchive request changes what is stored.
NeverOverwrites ==
  [][\A b \in Archived :
       store'[b] # store[b] => call'["rearchive"] # call["rearchive"]]_vars

=============================================================================
