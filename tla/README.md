# A verification of blob-archiver

TLA+ models of the archiver, alone and with a standby, the lock archivers take
turns by, the data store, the Blob API, the validator, and the processes of the
three commands from their flags to their exit; TLC runs that check them on small instances;
and theorems that hold for every instance, with proofs that
TLAPS checks. Line numbers refer to the sources under `src/`.

## The system

| Part | State | Operations | Module |
|---|---|---|---|
| archiver core, `archiver/service/archiver.go` | the walk of the live thread, the walk and the map of the backfill goroutine, a rearchive request | `Start`, `persistBlobsForBlockToS3`, `backfillBlobs`, `trackLatestBlocks`, `processBlocksUntilKnownBlock`, `rearchiveRange`, `Stop` | `Archiver`, `Archive` |
| archiver admin API, `archiver/service/api.go` | the request | `rearchiveBlocks` | `Archiver` (one request at a time) |
| storage lock, `archiver.go:139-190` | the lockfile; per process the lockfile read, the renewing ticker | `waitObtainStorageLock` | `StorageLock` |
| two archivers on one store | two processes, the blobs and `backfill_processes` they share | those of the archiver core | `Failover` |
| services, `{archiver,api}/service/service.go`, and commands, `*/cmd/main.go` | the clients opened, the servers held, the context | `Main`, `Start`, `Stop` | `Lifecycle` |
| flags and configuration, `{common,archiver,api,validator}/flags/*.go` | none | `ReadConfig`, `Check` | `Config` |
| data stores, `common/storage/{file,s3,storage}.go` | one object per block root, `backfill_processes`, `lockfile` | `NewStorage`, `Exists`, reads and writes | `DataStore` |
| Blob API, `api/service/api.go` | the request | `blobSidecarHandler`, `toBeaconBlockHash`, `filterBlobs` | `BlobAPI` |
| validator, `validator/service/*.go` | the loop of `checkBlobs`, its result | `Start`, `Stop`, `checkBlobs`, `fetchWithRetries`, `FetchSidecars` | `Validator` |
| beacon node (external) | a tree of blocks, the head, the answers for sidecars | `BeaconBlockHeader`, `BlobSidecars` | `BeaconChain` |
| metrics, test doubles | none that behaviour depends on | | not modelled |

The archiver asks the beacon node for headers and sidecars and writes them to
the data store. Three threads of one process do so: the main thread, which
seeds the store with the head, waits for the lock and then walks back from each
new head; the backfill goroutine, which walks back from the seeded head and
from the blocks that earlier processes left off at; and handlers of the admin
API. They share no lock and no memory that matters: they meet in the store,
where each takes a stored block for the end of its walk. Several archivers may
be started on one store; the lock makes all but one wait. The Blob API reads
the store and asks the node for the roots of slots and of the head. The
validator compares the answers of the Blob API with the node's.

What makes this hard:

* Both walks stop at the first stored block. A gap below a stored block exists
  only as the promise of some thread to fill it, and the code keeps that
  promise in memory, and for backfills in `backfill_processes`.
* Existence, sidecars and write are separate requests of three threads; the
  head and the node's answers change between them.
* A request may fail, or take effect and fail; retries are bounded in the live
  walk and in rearchiving, unbounded in the backfill.
* The process may end anywhere. `Stop` does not wait for anybody.
* A standby writes to the store before it has the lock, and what one archiver
  saves is what another goes on with.
* Whether a process ends depends on which of its steps look at a context, in an
  order that a library gives.
* The lock is read and written by separate requests and nothing is compared.
* A file is truncated before it is written, and readers do not wait.

`PROJECT.json` lists every such hazard at its line ("hazards"), with the
properties that would catch it.

## Modules

| Module | What it is |
|---|---|
| `BeaconChain` | blocks, parents, slots, ancestors, what an identifier resolves to |
| `Archive` | what one run of the archiver promises: an abstract specification |
| `Archiver` | the archiver core, with store, node, crashes and restarts |
| `StorageLock` | the lockfile and the archivers that take turns |
| `DataStore` | the objects of a file or S3 store, shared by processes |
| `BlobAPI` | the Blob API on a `DataStore` (extends `DataStore` and `BeaconChain`) |
| `Validator` | the validator between two endpoints |
| `Failover` | two instances of `Archiver`'s process on one node, store and lock |
| `Config` | reading and checking the flags of the three commands |
| `Lifecycle` | a process of a command: setup, `Start`, interrupts, `Stop` (extends `Config`) |
| `ArchiverProof`, `ArchiverWalkProof`, `ArchiverGapsProof` | lemmas and theorems about `Archiver` |
| `FailoverProof`, `StorageLockProof`, `BlobAPIProof`, `ValidatorProof`, `LifecycleProof` | about the other modules; `BlobAPIProof` is about `DataStore` too |
| `MCArchiver`, `MCFailover`, `MCStorageLock`, `MCBlobAPI`, `MCValidator`, `MCLifecycle` | instances for TLC |

An operator marked "Variant, to be told apart" is a plausible mistake that a
run's property has to notice: no specification uses it.

### Archiver

`head` and `served` are the node's; `store` and `saved` (`backfill_processes`)
are the data store's and outlive the process; `main`, `bf`, `mem`, `ra` and
`call` are the process's and are lost with it.

* `call[t]` is thread t's `persistBlobsForBlockToS3`: `BeaconBlockHeader`,
  `Exists`, `BlobSidecars` and `WriteBlob` are its four requests, one action
  each, in the code's order; the stages "ok", "error" and "notFound" are its
  returns, with the header and the `exists` result in the record.
* `main.pc` is where `Start` is: seeding ("seed": `SeedDone`, `SeedRetry`,
  `SeedFail`), waiting for the lock ("lock": `ObtainLock`, `LockFails`), between
  two ticks ("idle": `Tick`), and in `processBlocksUntilKnownBlock` ("live":
  `LiveKnown`, `LiveWalk`, `LiveRetry`, `LiveGiveUp`).
* `bf` and `mem` are `backfillBlobs`: `BackfillLoad` (197-202), `BackfillNext`
  (the loop over the map, in any order), `BackfillAtOrigin`, `BackfillWalk`,
  `BackfillRetry`, `BackfillAdvance` (with the save every ten blocks; `count` is
  kept modulo `SaveEvery`), `BackfillFinish` (the deferred function). Every save
  may fail, which the code ignores.
* `ra` is a rearchive request and, when `pc` is "ok", "failed" or "refused", its
  reply. Slots are unsigned, modulo `SlotCount`, so that `NextSlot` wraps as the
  loop's counter does; `Unparsed` stands for a parameter that `toSlot` refuses.
* `Crash` ends the process between any two steps, `Restart` starts it again.
* The API's header answer and the head may change at any step: `HeadMoves` goes
  to any block that is no ancestor of the head, `Republish` changes the sidecars
  the node answers with, which is how stale data is told from new.

A block is its root; sidecars are the block they belong to and the number of
the answer. A call in flight is lost with its process. Not in this module:
other archivers (`Failover`) and files that do not decode (`DataStore`). The
60 second timeout of the API's router ends no request here, nor in the code:
`rearchiveRange` does not use the request's context.

### Failover

`A` and `B` are two instances of `Archiver` that share `head`, `served`, `store`,
`saved` and the counters. A step is one of `A` beside `B` at rest, or the other
way round; a step that obtains the lock (`ObtainLock`) needs the other to be out
of it (`Obtainable`). How the lock is passed on, and when two hold it, is
`StorageLock`'s. `lost` is a history variable: the blocks that processes which
ended were about to store and that nobody has stored since.

### StorageLock

The code compares time stamps only with the present time, so the model keeps
the age of each. The stamps are whole seconds (`time.Now().Unix()`), and each is
read by another host's clock than the one that set it: the age that a reader
computes (`Computed`) is the true one give or take `MaxSkew`, which stands for the
seconds cut off and the difference of the clocks. Ages are kept up to `Oldest`,
from which on every reader finds a stamp expired. Reading (`ReadLockfile`), deciding
(`DecideToObtain`, `DecideToSleep`), writing (`Write`) and renewing (`Renew`,
`RenewFails`) are separate, and any number of archivers wait at once; `Tick` lets
time pass up to the next moment at which somebody has to act. `End` may happen
anywhere and may lose a write under way. `unread` is a history variable: who has not
read the lockfile since an archiver came to hold the lock.

### DataStore and BlobAPI

`write[t]` is a write of thread t. A put to S3 is one step (`PutObject`) that may
take effect though it fails; a file is truncated (`OpenFile`) and then written
(`WriteFile`), which a crash or a full disk cuts short, and over which another
writer may write; `damaged` is the files of which a write was cut short since they
were last truncated, `shared` the created files that were last truncated while
another thread was between truncating and writing them. An object is the value its
bytes encode, or `Garbage`, with their length, how they are compressed (`encoding`)
and what its Content-Encoding says of that (`header`): WriteBlob sets the two side by
side (`Encoding`, `ContentEncoding`), and a reader goes by the header (`DecodedAs`,
`Decoded`). `FindOrCreate` is `NewStorage`; any number of processes start at once, and
`present` is what was there when each began to. Which kind of store is
configured is chosen initially. `BackfillMu` is left out: in each process a
single thread uses what it protects. In `BlobAPI` a request goes through `Receive`,
`ToBeaconBlockHash`, `StatBlob` and `ReadBody` (with `FilterBlobs`): finding the
object, with its header, and reading its bytes are two requests, between which the
object may be replaced; the read may then fail, or decode by the header of the old
object the bytes of the new. What NewStorage and an archiver read is read in one step
(`Read`): NewStorage only looks whether there is an object, and created objects have
no encoding. The node's
head may be any block whenever it is asked. What archivers write for a block is one
of the answers that the node has for it (`Served`). The body of an answer is a
function from the places of its sidecars in the stored object to their `Index`
fields: `filterBlobs` selects, and keeps the order.

### Validator

`pc`, `slot`, `format` and `end` are the loops of `checkBlobs`; a request that
can be retried is `FetchRetry`, one that is given up `FetchFails`. Slots are
unsigned, modulo `SlotCount`, so that `StartFor` and `EndFor` wrap as the
code's do. `Repair` is the archiver filling a gap or rewriting a block
meanwhile. `Hang` is a request to either endpoint that is never answered: the
client has no timeout and the request no context, so that the validator stays in it
for good ("hung"), a stop included. (The request for the head, at the start, is made
by a client with a timeout.)

### Config and Lifecycle

`Config` reads the flags into the records the code makes of them, with the
defaults, and has one operator for each `Check`. A duration is its sign, since
that is what the checks and the components tell apart; conversions that drop
their errors (`time.ParseDuration`, `geth.HexToHash`) give 0, as in the code.

`Lifecycle` is one process. `Refuse` and `Accept` are the parser of the flags and
`cfg.Check()`; `OpenStorage` and `OpenBeacon` are `NewStorage` and
`NewBeaconClient`, in the order of each `Main`, and record in `misused` which
settings they used though they were not set. `StartMetrics`, `Listen`,
`StartFails` are the services' `Start`; `Seed` to `TrackReturns` are what
`Archiver.Start` looks like to an interrupt, `FetchHead` and `CloseApp` the
validator; `BeginStop` to `StopArchiver` are `Stop`. The order of it all is that
of op-service's `LifecycleCmd`, which is external: `Start` first, then the
context, then `Stop`; an error of the first two ends the process without `Stop`;
an interrupt counts while the application's context or `Stop`'s is open.
`Stop` is therefore called once, and `ErrAlreadyStopped` and the race of two
`Stop`s cannot occur in the commands; the flag is left out.

## Runs

| Run | Instance | Shows |
|---|---|---|
| `archiver` | 6 blocks with a fork and an empty slot, retry limits 2, a save every 2 blocks, 1 failing request | `KeyedByOwnRoot`, `GapsOwed`, and that `Archiver` implements `Archive` (`ImplementsArchive`) |
| `rearchive` | 3 blocks in a line, 4 slots; ranges 1-2 (2 is empty), 3 to the largest slot, one the wrong way round, one that does not parse; 1 restart; 2 failing requests, whose write may take effect | `TypeOK`, `RearchiveComplete`, `RearchiveEnds` |
| `lock` | 3 archivers, of which two may wait at once, unit of time 2 s (timeout 10, update and retry interval 5), delays up to 1, computed ages up to 1 off, 1 failed renewal | `TypeOK`, `RetainedWhileRenewed`, `Succession` |
| `store` | 1 archiver that compresses, 1 API, 1 block, 6 different requests, 1 failing request, 1 crash; the two may start at once | `TypeOK`, `StartsKeepObjects`, `ReadableAtRest`, `NeverForgets`, `AnswersQuery` |
| `failover` | 3 blocks in a line, 2 archivers, 2 answers for one block, 1 restart, a save every 2 blocks, no failing requests | `ProgressSound`, `GapsOwed`, `NothingDropped`, `HandedOver` |
| `lifecycle` | 3 commands, S3 with either kind of credentials or files, up to 2 flags left out or changed; 3 interrupts, 2 requests | `TypeOK`, `AcceptedIsUsable`, `RepliesBeforeEnd`, `Ends` |
| `validator` | 3 slots of 3 bits, 2 formats, 2 attempts, 2 failures, 4 refusals, requests that hang | `TypeOK`, `Complete`, `Sound`, `Terminates` |
| `find_restart` | as `archiver`, 1 restart, no failures | `GapsFilled` is violated |
| `find_resume` | 4 blocks in a line, 1 restart, no failures | `ReengagesBackfill` is violated |
| `find_overwrite` | 4 blocks in a line, rearchive requests, 2 answers for one block, no failures | `NeverOverwrites` is violated |
| `find_standby` | as `failover`, no restarts | `SeedsAreFollowed` is violated |
| `find_renewal` | 2 archivers, no delays, exact ages, 1 failed renewal | `Retained` is violated |

### What the properties say

* `GapsOwed`: while a process that found the store empty runs undisturbed, every
  gap below a stored block is on the way of the live walk, the backfill, or a
  backfill process that is not walked yet. `Undisturbed` names what leaves gaps
  that nobody is on the way to: as many failures as the live walk has attempts, a
  write that took effect and failed, a rearchive request, a restart. `GapsFilled`
  finds them (`find_restart` shows one).
* `ImplementsArchive`: the store grows only by heads that the node gave and by
  parents of stored blocks, and every gap is closed in the end. The first half of it
  holds through everything but an operator's request, which only the theorem
  `GrowthIsPromised` says (`GrowsAsPromised`).
* `ProgressSound`: what the goroutine, its map and `backfill_processes` say of a
  backfill is never ahead of what is stored. The run `failover` checks it, with a
  chain on which a backfill is saved on its way, cut off, and taken up by the other
  archiver; the theorem covers failures, forks and unacknowledged writes too.
* `KeyedByOwnRoot`: though the head moves between the header and the sidecars of
  one call, each root has its own block's.
* `RearchiveComplete`: a success reply covers every slot of the range, and the
  reply of a request that halted every slot before the one it halted at, though
  the other threads write and reorgs move blocks to other slots' answers. (The
  `blockEnd` of such a reply is the slot that failed, which is not covered.)
* `RearchiveEnds`: every request is answered, unless its range ends at the largest
  slot: the loop's condition then always holds, and the code never answers.
* `Failover!GapsOwed`: with two archivers of which neither has met failures,
  unacknowledged writes or requests as above (`Calm`), a gap is owed by one of them,
  or was by one that ended. The gap below a standby's seed is the standby's for as long
  as it waits (`find_standby`). `NothingDropped` and `HandedOver`: an entry of
  `backfill_processes` outlives its archiver and ends in the next one's backfill,
  though each rewrites the whole object from its own map. It need not end with
  the gap closed: `find_resume`.
* `RetainedWhileRenewed` and `Succession`: while renewals succeed, who reads the
  lockfile after an archiver has come to hold the lock does not take it from that one,
  however many wait, and a lock is not lost when its holder crashes. Two that had both
  read an expired lockfile before either wrote it both take the lock: nothing in the
  code prevents it, and the property says that there is no other way. A renewal that
  fails is another way, and the finding (`Retained`).
* `StartsKeepObjects`: a start replaces nothing that was there when it began,
  whatever it reads of a file that is being rewritten. What is created after it began
  it may replace: NewStorage reads and creates in separate steps, so that two processes
  that start at once on an empty store do write over each other.
* `ReadableAtRest`: what exists can be read: in S3 always, and a file once writes are
  over, unless the last one was cut short by a crash or an error, or two threads had
  truncated a created file at once. A crash in the middle of a file's write leaves a
  block that exists and cannot be read.
* `NeverForgets`: what was served once is never reported as not found, by the step that
  answers: an answer of 404 stays what it was when another API finds the block a moment
  later.
* `AnswersQuery`: an answer has each sidecar asked for once, and no other. Indices
  are checked against the number of sidecars and selected by their `Index` fields;
  the two agree when the sidecars are numbered from zero.
* `Complete`, `Sound`, `Terminates`: the validator reports every slot that stays
  missing or wrong, and nothing that was right, and ends, unless a request is never
  answered: the code has no other way out of one. For heads below
  `FinalizedL1Offset + NumBlocks` the subtraction wraps and `Complete` or
  `Terminates` fails: `LateHeads` leaves those out. Two equal error statuses
  count as agreement: `Complete` speaks of runs with fewer than two refusals for
  each format, and with as many it fails.
* `AcceptedIsUsable`: no client is opened with a setting that is missing, whatever
  the store and the credentials are said to be, though `NewStorage` takes every
  type but "s3" for files. Durations are the exception the property names:
  negative ones pass, and with a negative poll interval `NewTicker` panics.
* `RepliesBeforeEnd`: the API ends with requests in flight only after a second
  interrupt, and with an error. The archiver keeps no handle of its admin server,
  so that its requests are cut at every stop.
* `Ends`: an interrupted process ends, or is a standby on a store of files, which
  looks at no context while it waits for the lock, and ends when it has got it.

### Bounds

The chain has a fork and a skipped slot, and both walks are longer than one save
interval and meet blocks of the other. Two attempts are the least for which a
retry can succeed and can be exhausted; three archivers are a holder and two
that wait at once; two sidecars are the least for which order
and duplicates matter; three interrupts are one for the context, one that nothing
listens to and one for `Stop`. Flags are changed two at a time: a check that
lets something through needs the flag that is wrong and the one that makes it
matter. In `failover` a chain of three blocks lets each archiver be seeded with
another head, with a block between that neither has stored. Failures, crashes, refusals and restarts are counted and
bounded by the constants `Max...`; nothing else is.

### Fairness

`Archiver`: the threads go on, the ticker ticks and a process that ended is
started again (`WF` of `MainStep`, `BackfillStep`, `RearchiveStep`, `Restart`):
goroutines are scheduled, requests end, and the program is run under a supervisor.
That requests end is the code's for the beacon node, whose client has a timeout, and
an assumption for the store. The node need not do anything, and failures are finitely
many. `StorageLock`: time passes, and a request takes at most `MaxDelay`, which is an
assumption about the store again. `Validator`: the validator makes its requests;
none need be answered (`Hang`).
`Failover`: as `Archiver`, for both processes. `Lifecycle`: setup and `Stop` run
on; calls fail once their context is done; the API answers, since its handlers
have a deadline; and `SF` of `TrackReturns`, since a `select` with the context and
the ticker both ready takes either at random. Nothing is assumed of the other
archiver, the admin API's requests or `checkBlobs`, whose client has no timeout.
`Archive`'s `WF(Fill(b))` is a consequence, not an assumption: the run `archiver`
checks it.

`CHECK_DEADLOCK FALSE` stands where the system may stop for good: every archiver
or process has ended with no restart left, or the validator is done.

## Findings

Five statements of the repository that the code does not keep, each with a run
whose counterexample shows it (the quotes are in `PROJECT.json`):

* a restart during a live walk leaves a gap that nobody fills (`find_restart`);
* a backfill that a restart interrupted stops at the first block stored after its
  last save (`find_resume`);
* the head stored by a standby ends the live walk of the active archiver, whose backfill
  is over, and the gap below it stays as long as the standby waits (`find_standby`);
* sidecars that were rearchived are overwritten by older ones (`find_overwrite`);
* one failed renewal lets a second archiver in (`find_renewal`).

## Proofs

Every theorem is of a specification, for every value of the constants that satisfies
the assumptions named in the modules, and, where it says ASSUME, its own. What a
theorem assumes beyond the modules' assumptions is listed with it below.

### One archiver

`ArchiverProof` begins with the chain: `AncestorsOf` is defined as a least closed
set, so its properties (reflexive, transitive, split at the parent, no cycles) need
no recursion and no induction over data: each comes from showing one set closed.

* `TypeCorrect`, `Spec => []TypeOK`. `TypeOK` is not inductive: that `LiveWalk`
  has a parent to go to depends on the call having a header. `TypeInv` adds
  `ControlShape`: calls beyond their first request have a header, a write has
  its data, and a backfill that walks has blocks to walk between.
* `ProgressIsSound`, `Spec => []ProgressSound`. `ProgressInv` strengthens it by
  what the call of the backfill is about: it is for the parent of the current
  block, and what it found is that parent. The argument: the store never loses a
  block; a process begins with its stored start block; it advances only to a
  parent that the call has stored or found stored, which extends the walked
  segment by that block (`WalkedExtends`); what is saved was in memory before.

`ArchiverWalkProof`, on top of those, from two lemmas about any step:
`PersistAnswers` (what one request makes of its call) and `StepShape` (only
requests write; every other step leaves a call alone or empties it):

* `KeysAreRoots`, `Spec => []KeyedByOwnRoot`. `KeyInv` adds that a call about to
  write holds the sidecars of the header it writes under, whatever the head did
  since that header was resolved.
* `BackfillStaysAboveOrigin`, `Spec => []BackfillAboveOrigin`. `OriginInv` adds
  that a call of the backfill is for the parent of a block other than the
  origin, that none is left over between walks, and that what the seeding
  resolves, which is where a backfill starts, was the head. A parent of a block
  above the origin descends from it (`OriginBelow`).
* `RearchiveIsComplete`, `Spec => []RearchiveComplete`. `RearchiveInv` adds that
  all slots from the first to the one being served are done (none, when the
  counter has wrapped) and that the header of the handler's call, whatever the
  head was when it was resolved, is a block of that slot. A slot that is done
  stays so because the archive only grows (`ArchiveGrows`), overwriting included.

`ArchiverGapsProof`:

* `GapsAreOwed`, `Spec => []GapsOwed`. `WalkInv` says that the calls of the two walks
  ask for the head or for the parent of a stored block, and get the block they asked
  for, and that the live walk's failed attempts have been counted. From it comes
  `HandsOn`, of every step: what a walk was on its way to is stored, or still a target
  of the process, and so is the parent of every block that is newly stored. Only a
  target that is a parent of a block above the origin matters (`Needed`): both walks
  may end at the origin.
* `GrowthIsPromised`, `Spec => Promise!Init /\ GrowsAsPromised`: what a call of a walk
  writes is the head that it was given or the parent of a stored block (`WalkInv`), so
  each step maps to a step of `Archive`, a stutter, a restart or a rearchived block.
* `OneRunIsAnArchive`, ASSUME `MaxRestarts = 0`, `RearchiveRanges = {}`: then every
  step is a step of `Archive` or a stutter, the safety part of `ImplementsArchive`.

### Two archivers

`FailoverProof`, from the theorems about one archiver, instantiated twice (`PA`,
`PB`). A step of one preserves its own invariants by those theorems. The other, at
rest, depends on the store only: the blobs have not become fewer, and
`backfill_processes` is what it was, or was written under the invariant of the
first (`RestA`, `RestB`).

* `TypeCorrect` and `ProgressIsSound`: no step of these uses that the lock is
  exclusive.
* `GapsAreOwed`, ASSUME `RearchiveRanges = {}`, since a request that a process has
  served before it ended leaves its gaps and no trace. A block that one archiver
  stores ends the walk of the other, which no longer owes it; its parent is then owed
  by the one that stored it. What an archiver owes when it ends is in `lost`.
* `NothingIsDropped`, `Spec => NothingDropped`. This is where the lock matters: what is
  saved is known to the archiver that is past the lock, or is what it has just loaded
  (`MapInv`), and one at most is past it. An entry leaves the map only when the walk
  has stored the parent of its start, or found it stored.

`StorageLockProof`:

* `TypeCorrect`: types, and that no timer overruns its deadline.
* `LockIsRetained`, `Spec => []RetainedWhileRenewed`, ASSUME
  `LockUpdateInterval + 3 * MaxDelay + MaxSkew < LockTimeout`, for any number of
  archivers that wait. A holder's time stamp is renewed one interval after the last one;
  that one, the renewal itself and the decision of the archiver that has read the
  lockfile may each be late by `MaxDelay`, and the reader's clock may make the stamp
  `MaxSkew` older. `LockInv` says how old the stamp in the lockfile can be between two
  renewals (`Young`), and that whoever has read it since the holder came to the lock
  has read one too young to be expired when it decides (`Patient`). With the code's 10 s and
  20 s, clocks that agree and stamps cut off to whole seconds (`MaxSkew` 1), requests must
  take less than 3 s; each second by which the clocks differ costs a third of one. The
  condition is sufficient; nothing is claimed of what happens beyond it.

### Store and API

`BlobAPIProof`, on files and on S3. `PlaceInv` says who may be writing what: a
created object is written by the process that creates it or by one that has read it.

* `TypeCorrect`.
* `StartsAreSafe`, `Spec => []StartsKeepObjects`, nothing assumed, for any number of
  processes that start at once. `StartInv` adds that what was there when a start began
  is there still: writing truncates and replaces, and removes nothing.
* `BlobsAreReadable`, ASSUME `EquallyLong`: for the objects of blocks, with any number
  of archivers and threads that write them at once. Two answers of the node for a
  block have the same sidecars, with fields of fixed width, so they are equally
  long. It is needed: bytes are written over what another writer has put into the
  file after it was truncated, and a shorter text leaves the end of a longer one.
* `RestIsReadable`, `Spec => []ReadableAtRest`, ASSUME the same: for all objects and
  any number of archivers, APIs and starts. For S3, `LabelInv` says that an object's
  header names the encoding of its bytes, so that a reader of any configuration decodes
  it. Lengths of `backfill_processes` do differ, so that a created file that two threads
  have truncated at once may end up unreadable: `shared` excludes those files, and
  `LoneInv` says that of all others the writer finds the file empty. The storage lock,
  which keeps archivers from writing at once, is not in this module.
* `NothingIsForgotten`, `Spec => NeverForgets`: from `ObjectsStay` (nothing that is
  stored is removed, truncating included) and `FoundInv`.
* `QueriesAreAnswered`, ASSUME `Numbered`, `Spec => []AnswersQuery`: the sidecars of
  an object are those of a block, numbered from zero, in any order. A node that
  answers with a part of them would break it, and the code does not look.

### Validator

`ValidatorProof`: `TypeCorrect`; `ReportIsSound`, `Spec => []Sound`, since a
comparison is of the answers for the slot and format at hand, and a repair is
recorded; and `ReportIsComplete`, `Spec => []Complete`, ASSUME that for every head
the first subtraction wraps (`head < FinalizedL1Offset`: then no slot is old enough to
be checked) or none does (`FinalizedL1Offset + NumBlocks <= head`): if only the second
wraps, the loop begins above its end. Its invariant counts: a slot that is passed
in silence in all formats has cost two refusals in each.

### Commands

`LifecycleProof`, for any flags and any number of requests and interrupts:

* `TypeCorrect`, with `PlaceInv`: which process can be in which place.
* `AcceptedConfigsAreUsable`, `Spec => []AcceptedIsUsable`. `UsableInv` adds that
  a process which is past its checks was accepted by them; `CheckedS3`,
  `CheckedStorage` and `CheckedBeacon` say what acceptance is worth for what each
  command opens.
* `ApiReplies`, `Spec => []RepliesBeforeEnd`. `ApiInv` says in which of its places
  an API process can still have requests to answer, and what its status is then.

### What stays with TLC

Every safety invariant and action property of the passing runs is stated by a
theorem; `BackfillStaysAboveOrigin` and `GrowthIsPromised` are theorems only: a run that
tries them needs a fork, a deep reorg and a backfill that is taken up again at once. Liveness under fairness (`RearchiveEnds`, `HandedOver`,
`Succession`, `Terminates`, `Ends`, the fairness part of `ImplementsArchive`) and
`ENABLED` are out of the prover's reach; so is what a recursive definition
computes for every input, which is why no module here is recursive.

## Not modelled

* Metrics: counters and gauges that no behaviour depends on.
* The test doubles: they were read for what the code is meant to do.
* Logging, the router's middleware, the encodings of responses, the version
  endpoint, and the flags that no check reads (https, path, compression, JSON):
  no property here tells them apart.
* `BackfillMu`, since a process has one thread that uses what it protects, and two
  calls of `Stop` at once, which no caller makes.

## Plan

What is left, the most important first:

1. `StorageLock` in place of the one-step lock of `Failover`: the lock as an abstract
   specification that `StorageLock` implements, so that `NothingDropped` rests on
   `LockIsRetained`.
2. `RestIsReadable` without `shared` for archivers that hold such a lock.
3. The slots of the validator's range as an abstract specification of its report,
   which `Validator` implements.

## Hazards without a property

`PROJECT.json` has them with their reasons; in short:

* an unacknowledged write, and a rearchive request in front of the backfill, each end a
  walk above a gap: causes of `GapsFilled`'s violation besides the one of `find_restart`;
* the live walk below the origin after a deep reorg: the code promises nothing of it;
* a 404 of the node for sidecars that exist passes for an empty slot;
* a rearchive range that ends at the largest slot, and a validated range that wraps
  below slot 0, are excluded by the properties' texts or the run's heads;
* two archivers that find the lockfile expired at the same time, and two processes
  that create the same object at the same time, are not kept apart by anything in the
  code.

## Checking

    tlc -config MCArchiver.cfg MCArchiver      # and the other cfg files
    tlapm ArchiverProof.tla
    tlapm ArchiverWalkProof.tla
    tlapm ArchiverGapsProof.tla
    tlapm FailoverProof.tla
    tlapm StorageLockProof.tla
    tlapm BlobAPIProof.tla
    tlapm ValidatorProof.tla
    tlapm LifecycleProof.tla
