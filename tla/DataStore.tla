----------------------------- MODULE DataStore -----------------------------
(***************************************************************************)
(* The objects of a data store that several processes share (FileStorage,  *)
(* S3Storage): one object per block root, and the two objects that         *)
(* NewStorage creates, backfill_processes and lockfile.                    *)
(*                                                                         *)
(* A put to S3 replaces an object in one step.  os.WriteFile does not: it  *)
(* opens and truncates the file, and then writes.  Meanwhile other threads *)
(* and processes read and write the same files, and a crash or a full disk *)
(* may leave a file as it is.  A read first finds the object and its       *)
(* headers (Stat, or the opening of the file) and then gets its bytes:     *)
(* two steps of the Blob API's.  Here they are one: NewStorage acts on the *)
(* first alone, and what an archiver loads was put without an encoding.    *)
(***************************************************************************)
EXTENDS Naturals, FiniteSets

CONSTANTS
  Archivers,    \* the archiver processes, which read and write
  Readers,      \* the API processes, which only read, once started
  Compressing,  \* the processes whose S3 configuration says to compress
  Hashes,       \* the keys of blob objects
  Blobs,        \* the sidecars that are written under hashes
  Served,       \* Served[h]: the answers of the beacon node for the block h
  Progress,     \* what is written to backfill_processes or lockfile
  Nothing,      \* the empty map, and the empty lockfile
  Garbage,      \* bytes that are no JSON document
  Missing,      \* no object
  Size,         \* Size[v]: the length of v's encoding
  MaxErrors,    \* bound on failing requests
  MaxCrashes    \* bound on processes that end

Processes == Archivers \cup Readers

ASSUME DataStoreAssumption ==
  /\ Archivers \cap Readers = {}
  /\ IsFiniteSet(Processes)
  /\ Compressing \subseteq Processes
  /\ Served \in [Hashes -> SUBSET Blobs]
  /\ Nothing \notin Progress
  /\ Size \in [Blobs \cup Progress \cup {Nothing} -> Nat \ {0}]
  /\ MaxErrors \in Nat
  /\ MaxCrashes \in Nat

VARIABLES
  kind,     \* the configured DataStorageType, the same for every process
  objects,  \* the object under each key
  stage,    \* where each process is: which object NewStorage is at, or "up"
  loaded,   \* loaded[p]: the created objects that p has read since it started
  write,    \* write[t]: the write that thread t has under way
  errors,   \* requests failed so far
  crashes,  \* processes ended so far
  damaged,  \* history: the files of which a write was cut short, since they were
            \* last truncated
  shared,   \* history: the created files that were last truncated while another
            \* thread was between truncating and writing them
  present   \* history: present[p]: while p starts, the created objects that were
            \* there when it began to

storeVars == <<kind, objects, stage, loaded, write, errors, crashes, damaged, shared, present>>

Created == {"backfill_processes", "lockfile"}
Keys    == Hashes \cup Created
Values  == Blobs \cup Progress \cup {Nothing}

Encodings == {"identity", "gzip"}

\* An object: what its bytes encode, how many they are before compression, how
\* they are compressed, and what the object's Content-Encoding says of that.
Objects == [value    : Values \cup {Garbage},
            size     : Nat,
            encoding : Encodings,
            header   : Encodings]

\* A hash is no name of a created object, and a value is no error.
ASSUME ObjectsAssumption ==
  /\ Hashes \cap Created = {}
  /\ {Garbage, "ErrNotFound", "ErrMarshaling"} \cap Values = {}
  /\ Garbage \notin {"ErrNotFound", "ErrMarshaling"}
  /\ Missing \notin Objects

\* A process writes blobs from two threads at least (trackLatestBlocks or
\* backfillBlobs, and a rearchive request), and the rest from one.
Threads == Processes \X {"main", "rearchive"}

Writes  == [phase : {"open", "write"}, key : Keys, value : Values]
NoWrite == [phase |-> "none"]

StoreTypeOK ==
  /\ kind \in {"file", "s3"}
  /\ objects \in [Keys -> Objects \cup {Missing}]
  /\ stage \in [Processes -> {"down", "up"} \cup Created]
  /\ loaded \in [Processes -> SUBSET Created]
  /\ write \in [Threads -> Writes \cup {NoWrite}]
  /\ \A t \in Threads : write[t].phase = "write" => objects[write[t].key] # Missing
  /\ errors \in 0 .. MaxErrors
  /\ crashes \in 0 .. MaxCrashes
  /\ damaged \subseteq Keys
  /\ shared \subseteq Created
  /\ present \in [Processes -> SUBSET Created]

StoreInit ==
  /\ kind \in {"file", "s3"}
  /\ objects = [k \in Keys |-> Missing]
  /\ stage = [p \in Processes |-> "down"]
  /\ loaded = [p \in Processes |-> {}]
  /\ write = [t \in Threads |-> NoWrite]
  /\ errors = 0
  /\ crashes = 0
  /\ damaged = {}
  /\ shared = {}
  /\ present = [p \in Processes |-> {}]

----------------------------------------------------------------------------
(* Encoding: WriteBlob compresses what it writes to S3 when configured to *)

Encoding(p, key) == IF key \in Hashes /\ p \in Compressing THEN "gzip" ELSE "identity"

\* Variant, to be told apart: the object does not say that it is compressed.
Unlabelled(p, key) == "identity"

ContentEncoding(p, key) == Encoding(p, key)

----------------------------------------------------------------------------
(* Reading: Exists, ReadBlob, ReadBackfillProcesses, ReadLockfile *)

Exists(key) == objects[key] # Missing

\* Variant, to be told apart: blobs are decoded as the reader would encode them.
DecodedAsConfigured(p, key, header) == Encoding(p, key)

\* Blobs are decoded as their Content-Encoding says, whatever the reader's own
\* configuration; the created objects are not looked at for one.
DecodedAs(p, key, header) == IF key \in Hashes THEN header ELSE "identity"

\* What the bytes under a key decode to.  Bytes that are encoded otherwise, that
\* are no JSON document or have something after one, do not decode.
Decoded(p, key, header) ==
  LET object == objects[key] IN
  IF object = Missing \/ object.encoding # DecodedAs(p, key, header) \/ object.value = Garbage
  THEN "ErrMarshaling" ELSE object.value

\* What p reads under a key: a value, or one of the interface's errors.
Read(p, key) ==
  IF Exists(key) THEN Decoded(p, key, objects[key].header) ELSE "ErrNotFound"

Fail == errors < MaxErrors /\ errors' = errors + 1

----------------------------------------------------------------------------
(* Starting a process: NewFileStorage, NewS3Storage *)

Starting == {p \in Processes : stage[p] \in Created}

Main(p) == <<p, "main">>

\* What was there is forgotten with the end of a start.
Started == present' = [p \in Processes |-> IF stage'[p] \in Created THEN present[p] ELSE {}]

After(key) == IF key = "backfill_processes" THEN "lockfile" ELSE "up"

BeginWrite(t, key, value) ==
  write' = [write EXCEPT ![t] = [phase |-> "open", key |-> key, value |-> value]]

Start(p) ==
  /\ stage[p] = "down"
  /\ stage' = [stage EXCEPT ![p] = "backfill_processes"]
  /\ present' = [present EXCEPT ![p] = {key \in Created : Exists(key)}]
  /\ UNCHANGED <<kind, objects, loaded, write, errors, crashes, damaged, shared>>

\* Variant, to be told apart: whatever cannot be read is created.
ToBeCreated(p, key) == Read(p, key) \in {"ErrNotFound", "ErrMarshaling"}

\* Only an object that is not there is created.
IsMissing(p, key) == Read(p, key) = "ErrNotFound"

\* NewStorage reads the object, and creates it or goes on to the next one; it
\* also goes on when the object could not be read.
FindOrCreate(p) ==
  LET key == stage[p] IN
  /\ p \in Starting
  /\ write[Main(p)] = NoWrite
  /\ \/ /\ IsMissing(p, key)
        /\ BeginWrite(Main(p), key, Nothing)
        /\ UNCHANGED <<stage, errors>>
     \/ /\ (~IsMissing(p, key) /\ UNCHANGED errors) \/ Fail
        /\ stage' = [stage EXCEPT ![p] = After(key)]
        /\ UNCHANGED write
  /\ Started
  /\ UNCHANGED <<kind, objects, loaded, crashes, damaged, shared>>

----------------------------------------------------------------------------
(* Writing: WriteBlob, WriteBackfillProcesses, WriteLockfile *)

WriteBlob(t, hash, sidecars) ==
  /\ t[1] \in Archivers /\ stage[t[1]] = "up"
  /\ write[t] = NoWrite
  /\ BeginWrite(t, hash, sidecars)
  /\ UNCHANGED <<kind, objects, stage, loaded, errors, crashes, damaged, shared, present>>

\* waitObtainStorageLock and then backfillBlobs read an object before they write
\* it; the archiver exits (see End) when it cannot be read.
Load(p, key) ==
  /\ p \in Archivers /\ stage[p] = "up"
  /\ key = "backfill_processes" => "lockfile" \in loaded[p]
  /\ Read(p, key) \in Values
  /\ loaded' = [loaded EXCEPT ![p] = @ \cup {key}]
  /\ UNCHANGED <<kind, objects, stage, write, errors, crashes, damaged, shared, present>>

\* The map of backfill processes may be empty, a lockfile has a holder.
WriteCreated(p, key, value) ==
  /\ key = "lockfile" => value # Nothing
  /\ stage[p] = "up" /\ key \in loaded[p]
  /\ write[Main(p)] = NoWrite
  /\ BeginWrite(Main(p), key, value)
  /\ UNCHANGED <<kind, objects, stage, loaded, errors, crashes, damaged, shared, present>>

\* The write of thread t is over; a process in NewStorage goes on, or exits by
\* log.Crit when the write failed.
EndWrite(t, ok) ==
  LET p == t[1] IN
  /\ write' = [write EXCEPT ![t] = NoWrite]
  /\ stage' = [stage EXCEPT ![p] =
                 IF p \notin Starting THEN @ ELSE IF ok THEN After(@) ELSE "down"]

Plain(value, size) ==
  [value |-> value, size |-> size, encoding |-> "identity", header |-> "identity"]

\* Variant, to be told apart: the file is removed before it is written anew.
Removed(file) == Missing

\* The file is opened with O_TRUNC.
Opened(file) == Plain(Garbage, 0)

\* Another thread has truncated the file that t is about to write, and not
\* written it yet.
Overlapped(t) ==
  \E u \in Threads \ {t} : write[u].phase = "write" /\ write[u].key = write[t].key

OpenFile(t) ==
  LET key == write[t].key IN
  /\ kind = "file"
  /\ write[t].phase = "open"
  /\ \/ /\ objects' = [objects EXCEPT ![key] = Opened(@)]
        /\ write' = [write EXCEPT ![t].phase = "write"]
        /\ damaged' = damaged \ {key}
        /\ shared' = IF key \in Created /\ Overlapped(t) THEN shared \cup {key} ELSE shared \ {key}
        /\ UNCHANGED <<stage, errors>>
     \/ /\ Fail
        /\ EndWrite(t, FALSE)
        /\ UNCHANGED <<objects, damaged, shared>>
  /\ Started
  /\ UNCHANGED <<kind, loaded, crashes>>

\* Bytes written at the start of a file leave what lies behind them.
Over(file, value, size) ==
  IF file = Missing \/ file.size <= size THEN Plain(value, size) ELSE Plain(Garbage, file.size)

\* The bytes are written, or, when that fails, some of them are.
WriteFile(t) ==
  LET key   == write[t].key
      value == write[t].value
  IN
  /\ kind = "file"
  /\ write[t].phase = "write"
  /\ \/ /\ objects' = [objects EXCEPT ![key] = Over(@, value, Size[value])]
        /\ EndWrite(t, TRUE)
        /\ UNCHANGED <<damaged, errors>>
     \/ /\ Fail
        /\ \E size \in 0 .. Size[value] - 1 :
             objects' = [objects EXCEPT ![key] = Over(@, Garbage, size)]
        /\ damaged' = damaged \cup {key}
        /\ EndWrite(t, FALSE)
  /\ Started
  /\ UNCHANGED <<kind, loaded, crashes, shared>>

\* A put that fails may have taken effect.
PutObject(t) ==
  LET key    == write[t].key
      value  == write[t].value
      object == [value |-> value, size |-> Size[value],
                 encoding |-> Encoding(t[1], key), header |-> ContentEncoding(t[1], key)]
      put    == [objects EXCEPT ![key] = object]
  IN
  /\ kind = "s3"
  /\ write[t].phase = "open"
  /\ \/ /\ objects' = put
        /\ EndWrite(t, TRUE)
        /\ UNCHANGED errors
     \/ /\ Fail
        /\ objects' \in {objects, put}
        /\ EndWrite(t, FALSE)
  /\ Started
  /\ UNCHANGED <<kind, loaded, crashes, damaged, shared>>

\* The files that p has truncated and not written yet.
CutShort(p) == {write[t].key : t \in {t \in Threads : t[1] = p /\ write[t].phase = "write"}}

\* A process ends at any point; its writes stay as they are.
End(p) ==
  /\ stage[p] # "down"
  /\ crashes < MaxCrashes
  /\ crashes' = crashes + 1
  /\ stage' = [stage EXCEPT ![p] = "down"]
  /\ loaded' = [loaded EXCEPT ![p] = {}]
  /\ write' = [t \in Threads |-> IF t[1] = p THEN NoWrite ELSE write[t]]
  /\ damaged' = damaged \cup CutShort(p)
  /\ Started
  /\ UNCHANGED <<kind, objects, errors, shared>>

StoreNext ==
  \/ \E p \in Processes : Start(p) \/ FindOrCreate(p) \/ End(p)
  \/ \E t \in Threads :
       \/ OpenFile(t) \/ WriteFile(t) \/ PutObject(t)
       \/ \E hash \in Hashes : \E sidecars \in Served[hash] : WriteBlob(t, hash, sidecars)
  \/ \E p \in Archivers, key \in Created :
       \/ Load(p, key)
       \/ \E value \in Progress \cup {Nothing} : WriteCreated(p, key, value)

----------------------------------------------------------------------------

\* A starting process never writes to an object that was there when it began to
\* start, though it may read a file that is being rewritten just then, though a crash
\* may have cut that rewriting short, and however many start at once.  (An object that
\* is created after it began it may replace: reading and creating are separate steps.)
StartsKeepObjects ==
  \A p \in Starting : write[Main(p)] # NoWrite => write[Main(p)].key \notin present[p]

AtRest(key) ==
  /\ key \notin damaged \cup shared
  /\ \A t \in Threads : write[t] # NoWrite => write[t].key # key

\* What exists can be read.  For an object of S3 this holds always, for every
\* process and through every change of its compress setting.  For a file it
\* holds once no write to it is under way, even when two threads have just
\* written the same block: a crash or a full disk costs no more than the files
\* that were being written just then, and those only until they are rewritten.
\* (Two processes that write a created file at once may spoil it: a shorter text
\* over a longer one leaves the end of that.)
ReadableAtRest ==
  \A key \in Keys, p \in Processes :
    Exists(key) /\ (kind = "s3" \/ AtRest(key)) => Read(p, key) \in Values

=============================================================================
