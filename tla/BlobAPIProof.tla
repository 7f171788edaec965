---------------------------- MODULE BlobAPIProof ----------------------------
(***************************************************************************)
(* The data store and the Blob API, for any number of archivers and of API *)
(* processes, blocks, blobs, crashes and failing requests.                 *)
(***************************************************************************)
EXTENDS BlobAPI, TLAPS

----------------------------------------------------------------------------
(* Types *)

LEMMA KeyFacts ==
  /\ \A t \in Threads : t[1] \in Processes
  /\ \A p \in Processes : Main(p) \in Threads /\ Main(p)[1] = p
  /\ \A p, q \in Processes : Main(p) = Main(q) => p = q
  /\ \A key \in Created : After(key) \in Created \cup {"up"}
  /\ \A p \in Starting : p \in Processes /\ stage[p] \in Created
  /\ Created \subseteq Keys /\ Hashes \subseteq Keys /\ Hashes \cap Created = {}
BY ObjectsAssumption DEF Threads, Main, After, Created, Starting, Keys

LEMMA ValueFacts ==
  /\ \A v \in Values : Size[v] \in Nat \ {0} /\ v \notin {Garbage, "ErrNotFound", "ErrMarshaling"}
  /\ Garbage \notin {"ErrNotFound", "ErrMarshaling"}
  /\ Blobs \subseteq Values /\ (\A hash \in Hashes : Served[hash] \subseteq Values)
  /\ Progress \subseteq Values /\ Nothing \in Values
  /\ Missing \notin Objects
BY DataStoreAssumption, ObjectsAssumption DEF Values

LEMMA ObjectTypes ==
  /\ \A v \in Values \cup {Garbage}, n \in Nat : Plain(v, n) \in Objects
  /\ \A file : Opened(file) \in Objects
  /\ \A file \in Objects \cup {Missing}, v \in Values \cup {Garbage}, n \in Nat :
       Over(file, v, n) \in Objects
<1>1. \A v \in Values \cup {Garbage}, n \in Nat : Plain(v, n) \in Objects
  BY DEF Plain, Objects, Encodings
<1>2. \A file \in Objects : file.size \in Nat
  BY DEF Objects
<1> QED
  BY <1>1, <1>2 DEF Opened, Over

LEMMA BeginWriteType ==
  ASSUME StoreTypeOK, NEW t \in Threads, NEW key \in Keys, NEW v \in Values,
         BeginWrite(t, key, v)
  PROVE  /\ write' \in [Threads -> Writes \cup {NoWrite}]
         /\ \A u \in Threads : write'[u].phase = "write" => write[u].phase = "write" /\ u # t
         /\ \A u \in Threads : u # t => write'[u] = write[u]
BY DEF StoreTypeOK, BeginWrite, Writes

LEMMA EndWriteType ==
  ASSUME StoreTypeOK, NEW t \in Threads, EndWrite(t, TRUE) \/ EndWrite(t, FALSE)
  PROVE  /\ write' \in [Threads -> Writes \cup {NoWrite}]
         /\ stage' \in [Processes -> {"down", "up"} \cup Created]
         /\ write'[t] = NoWrite
         /\ \A u \in Threads : u # t => write'[u] = write[u]
         /\ \A u \in Threads : write'[u].phase = "write" => write'[u] = write[u]
<1>1. t[1] \in Processes
  BY KeyFacts
<1>2. t[1] \in Starting => After(stage[t[1]]) \in Created \cup {"up"}
  BY KeyFacts
<1>3. write'[t] = NoWrite /\ \A u \in Threads : u # t => write'[u] = write[u]
  BY DEF EndWrite, StoreTypeOK
<1>4. NoWrite.phase # "write"
  BY DEF NoWrite
<1>5. \A u \in Threads : write'[u].phase = "write" => write'[u] = write[u]
  BY <1>3, <1>4
<1>6. /\ write' \in [Threads -> Writes \cup {NoWrite}]
      /\ stage' \in [Processes -> {"down", "up"} \cup Created]
  BY <1>1, <1>2 DEF EndWrite, StoreTypeOK
<1> QED
  BY <1>3, <1>5, <1>6

LEMMA NoWritePhase == NoWrite.phase \notin {"open", "write"}
BY DEF NoWrite

\* A thread that writes has a key, and a value.
LEMMA WriteType ==
  ASSUME StoreTypeOK, NEW t \in Threads, write[t] # NoWrite
  PROVE  write[t] \in Writes /\ write[t].key \in Keys /\ write[t].value \in Values
BY DEF StoreTypeOK, Writes

\* What is done to a store, by its processes or by the handlers of an API.
StoreStep ==
  \/ StoreNext
  \/ UNCHANGED <<kind, objects, stage, loaded, write, crashes, damaged, shared, present>> 
     /\ (UNCHANGED errors \/ Fail)

LEMMA FailType ==
  ASSUME StoreTypeOK, Fail
  PROVE  errors' \in 0 .. MaxErrors
BY DataStoreAssumption DEF StoreTypeOK, Fail

LEMMA StartedType ==
  ASSUME StoreTypeOK, Started
  PROVE  present' \in [Processes -> SUBSET Created]
BY DEF StoreTypeOK, Started

LEMMA OpenFileType ==
  ASSUME StoreTypeOK, NEW t \in Threads, OpenFile(t)
  PROVE  StoreTypeOK'
<1>1. write[t] \in Writes /\ write[t].key \in Keys /\ write[t].value \in Values
  BY WriteType DEF OpenFile, NoWrite
<1>2. CASE /\ objects' = [objects EXCEPT ![write[t].key] = Opened(@)]
           /\ write' = [write EXCEPT ![t].phase = "write"]
           /\ damaged' = damaged \ {write[t].key}
           /\ shared' \in {shared \cup ({write[t].key} \cap Created), shared \ {write[t].key}}
           /\ UNCHANGED <<stage, errors>>
  <2>1. objects' \in [Keys -> Objects \cup {Missing}]
    BY <1>1, <1>2, ObjectTypes DEF StoreTypeOK
  <2>2. /\ write' \in [Threads -> Writes \cup {NoWrite}]
        /\ \A u \in Threads : write'[u].key = write[u].key
    BY <1>1, <1>2 DEF StoreTypeOK, Writes
  <2>3. ASSUME NEW u \in Threads, write'[u].phase = "write"
        PROVE  objects'[write'[u].key] # Missing
    <3>1. CASE u = t
      BY <1>1, <1>2, <2>2, <3>1, ObjectTypes, ValueFacts DEF StoreTypeOK
    <3>2. CASE u # t
      <4>1. write[u].phase = "write" /\ write'[u] = write[u]
        BY <1>2, <2>3, <3>2 DEF StoreTypeOK
      <4>2. write[u].key \in Keys
        BY <4>1, WriteType DEF NoWrite
      <4> QED
        BY <1>1, <1>2, <4>1, <4>2, ObjectTypes, ValueFacts DEF StoreTypeOK
    <3> QED
      BY <3>1, <3>2
  <2> QED
    BY <1>2, <2>1, <2>2, <2>3, StartedType DEF StoreTypeOK, OpenFile
<1>3. CASE Fail /\ EndWrite(t, FALSE) /\ UNCHANGED <<objects, damaged, shared>>
  BY <1>3, EndWriteType, FailType, StartedType DEF StoreTypeOK, OpenFile
<1>4. \/ /\ objects' = [objects EXCEPT ![write[t].key] = Opened(@)]
         /\ write' = [write EXCEPT ![t].phase = "write"]
         /\ damaged' = damaged \ {write[t].key}
         /\ shared' = IF write[t].key \in Created /\ Overlapped(t)
                      THEN shared \cup {write[t].key} ELSE shared \ {write[t].key}
         /\ UNCHANGED <<stage, errors>>
      \/ Fail /\ EndWrite(t, FALSE) /\ UNCHANGED <<objects, damaged, shared>>
  BY DEF OpenFile
<1>5. \A key : key \in Created => shared \cup {key} = shared \cup ({key} \cap Created)
  OBVIOUS
<1> QED
  BY <1>2, <1>3, <1>4, <1>5

\* An object that is written, or put.
LEMMA WriteObjects ==
  ASSUME StoreTypeOK, NEW t \in Threads, WriteFile(t) \/ PutObject(t)
  PROVE  /\ write[t] \in Writes /\ write[t].key \in Keys /\ write[t].value \in Values
         /\ \/ objects' = objects
            \/ \E object \in Objects : objects' = [objects EXCEPT ![write[t].key] = object]
         /\ EndWrite(t, TRUE) \/ EndWrite(t, FALSE)
<1>1. write[t] \in Writes /\ write[t].key \in Keys /\ write[t].value \in Values
  <2>1. write[t].phase \in {"open", "write"}
    BY DEF WriteFile, PutObject
  <2> QED
    BY <2>1, WriteType DEF NoWrite
<1>2. EndWrite(t, TRUE) \/ EndWrite(t, FALSE)
  BY DEF WriteFile, PutObject
<1>3. \/ objects' = objects
      \/ \E object \in Objects : objects' = [objects EXCEPT ![write[t].key] = object]
  <2>1. Size[write[t].value] \in Nat /\ objects[write[t].key] \in Objects \cup {Missing}
    BY <1>1, ValueFacts DEF StoreTypeOK
  <2>2. CASE WriteFile(t)
    <3>1. \/ objects' = [objects EXCEPT ![write[t].key] =
                           Over(@, write[t].value, Size[write[t].value])]
          \/ \E size \in 0 .. Size[write[t].value] - 1 :
               objects' = [objects EXCEPT ![write[t].key] = Over(@, Garbage, size)]
      BY <2>2 DEF WriteFile
    <3>2. \A size \in 0 .. Size[write[t].value] - 1 : size \in Nat
      BY <2>1
    <3>3. \A v \in Values \cup {Garbage}, size \in Nat :
            Over(objects[write[t].key], v, size) \in Objects
      BY <2>1, ObjectTypes
    <3> QED
      BY <1>1, <2>1, <3>1, <3>2, <3>3
  <2>3. CASE PutObject(t)
    <3> DEFINE object == [value |-> write[t].value, size |-> Size[write[t].value],
                          encoding |-> Encoding(t[1], write[t].key),
                          header |-> ContentEncoding(t[1], write[t].key)]
    <3>1. object \in Objects
      BY <1>1, <2>1 DEF Objects, Encoding, ContentEncoding, Encodings
    <3>2. objects' \in {objects, [objects EXCEPT ![write[t].key] = object]}
      BY <2>3 DEF PutObject
    <3> HIDE DEF object
    <3> QED
      BY <3>1, <3>2
  <2> QED
    BY <2>2, <2>3
<1> QED
  BY <1>1, <1>2, <1>3

LEMMA StoreStepType ==
  ASSUME StoreTypeOK, StoreStep
  PROVE  StoreTypeOK'
<1>1. ASSUME NEW p \in Processes, Start(p)
      PROVE  StoreTypeOK'
  BY <1>1 DEF StoreTypeOK, Start, Created
<1>2. ASSUME NEW p \in Processes, FindOrCreate(p)
      PROVE  StoreTypeOK'
  <2>1. Main(p) \in Threads /\ stage[p] \in Created /\ stage[p] \in Keys
    BY <1>2, KeyFacts DEF FindOrCreate
  <2>2. CASE BeginWrite(Main(p), stage[p], Nothing) /\ UNCHANGED <<stage, errors>>
    BY <1>2, <2>1, <2>2, BeginWriteType, StartedType, ValueFacts
       DEF FindOrCreate, StoreTypeOK, BeginWrite
  <2>3. CASE stage' = [stage EXCEPT ![p] = After(stage[p])] /\ UNCHANGED write
    <3>1. After(stage[p]) \in Created \cup {"up"}
      BY <2>1, KeyFacts
    <3>2. stage' \in [Processes -> {"down", "up"} \cup Created]
      BY <2>3, <3>1 DEF StoreTypeOK
    <3>3. errors' \in 0 .. MaxErrors
      BY <1>2, FailType DEF FindOrCreate, StoreTypeOK
    <3> QED
      BY <1>2, <2>3, <3>2, <3>3, StartedType DEF FindOrCreate, StoreTypeOK
  <2> QED
    BY <1>2, <2>2, <2>3 DEF FindOrCreate
<1>3. ASSUME NEW p \in Processes, End(p)
      PROVE  StoreTypeOK'
  <2>1. CutShort(p) \subseteq Keys
    BY WriteType DEF CutShort, NoWrite
  <2>2. crashes' \in 0 .. MaxCrashes
    BY <1>3, DataStoreAssumption DEF End, StoreTypeOK
  <2>3. \A u \in Threads : write'[u].phase = "write" => write'[u] = write[u]
    BY <1>3 DEF End, NoWrite
  <2> QED
    BY <1>3, <2>1, <2>2, <2>3, StartedType DEF End, StoreTypeOK
<1>4. ASSUME NEW t \in Threads, OpenFile(t)
      PROVE  StoreTypeOK'
  BY <1>4, OpenFileType
<1>5. ASSUME NEW t \in Threads, WriteFile(t) \/ PutObject(t)
      PROVE  StoreTypeOK'
  <2>1. write[t].key \in Keys
    BY <1>5, WriteObjects
  <2>2. EndWrite(t, TRUE) \/ EndWrite(t, FALSE)
    BY <1>5, WriteObjects
  <2>3. \/ objects' = objects
        \/ \E object \in Objects : objects' = [objects EXCEPT ![write[t].key] = object]
    BY <1>5, WriteObjects
  <2>4. objects' \in [Keys -> Objects \cup {Missing}]
        /\ \A key \in Keys : objects[key] # Missing => objects'[key] # Missing
    BY <2>1, <2>3, ValueFacts DEF StoreTypeOK
  <2>5. \A u \in Threads : write'[u].phase = "write" => write'[u] = write[u]
    BY <2>2, EndWriteType
  <2>6. \A u \in Threads : write[u].phase = "write" => write[u].key \in Keys
    BY WriteType DEF NoWrite
  <2>7. damaged' \subseteq Keys /\ errors' \in 0 .. MaxErrors
    BY <1>5, <2>1, FailType DEF WriteFile, PutObject, StoreTypeOK
  <2>8. UNCHANGED <<kind, loaded, crashes, shared>> /\ Started
    BY <1>5 DEF WriteFile, PutObject
  <2>9. \A u \in Threads : write'[u].phase = "write" => objects'[write'[u].key] # Missing
    BY <2>4, <2>5, <2>6 DEF StoreTypeOK
  <2> QED
    BY <2>2, <2>4, <2>7, <2>8, <2>9, EndWriteType, StartedType DEF StoreTypeOK
<1>6. ASSUME NEW t \in Threads, NEW hash \in Hashes, NEW sidecars \in Served[hash],
             WriteBlob(t, hash, sidecars)
      PROVE  StoreTypeOK'
  <2>1. hash \in Keys /\ sidecars \in Values
    BY KeyFacts, ValueFacts
  <2> QED
    BY <1>6, <2>1, BeginWriteType DEF WriteBlob, StoreTypeOK, BeginWrite
<1>7. ASSUME NEW p \in Archivers, NEW key \in Created, Load(p, key)
      PROVE  StoreTypeOK'
  BY <1>7 DEF Load, StoreTypeOK
<1>8. ASSUME NEW p \in Archivers, NEW key \in Created, NEW v \in Progress \cup {Nothing},
             WriteCreated(p, key, v)
      PROVE  StoreTypeOK'
  <2>1. Main(p) \in Threads /\ key \in Keys /\ v \in Values
    BY KeyFacts, ValueFacts DEF Processes
  <2> QED
    BY <1>8, <2>1, BeginWriteType DEF WriteCreated, StoreTypeOK, BeginWrite
<1>9. CASE /\ UNCHANGED <<kind, objects, stage, loaded, write, crashes, damaged, shared, present>>
           /\ UNCHANGED errors \/ Fail
  BY <1>9, FailType DEF StoreTypeOK
<1> QED
  BY <1>1, <1>2, <1>3, <1>4, <1>5, <1>6, <1>7, <1>8, <1>9 DEF StoreStep, StoreNext

\* The sidecars of an object, those of them that an answer has, and none.
LEMMA BodyTypes ==
  /\ <<>> \in Bodies
  /\ \A v \in Blobs : Index[v] \in Bodies
  /\ \A v \in Blobs : \A S \in SUBSET DOMAIN Index[v] : [i \in S |-> Index[v][i]] \in Bodies
<1>1. <<>> \in [{} -> Fields] /\ {} \in SUBSET Places
  OBVIOUS
<1>2. ASSUME NEW v \in Blobs, NEW S \in SUBSET DOMAIN Index[v]
      PROVE  [i \in S |-> Index[v][i]] \in Bodies
  <2>1. S \in SUBSET Places /\ \A i \in S : Index[v][i] \in Fields
    BY DEF Places, Fields
  <2>2. [i \in S |-> Index[v][i]] \in [S -> Fields]
    BY <2>1
  <2> QED
    BY <2>1, <2>2 DEF Bodies
<1>3. ASSUME NEW v \in Blobs
      PROVE  Index[v] \in Bodies
  <2>1. Index[v] \in Seq(Nat)
    BY BlobAPIAssumption
  <2>2. Index[v] = [i \in DOMAIN Index[v] |-> Index[v][i]]
    BY <2>1
  <2> QED
    BY <1>2, <2>2
<1> QED
  BY <1>1, <1>2, <1>3 DEF Bodies

\* The statuses of answers.
Statuses == {200, 400, 404, 500}

LEMMA StatusFacts ==
  /\ 200 \in Statuses /\ 400 \in Statuses /\ 404 \in Statuses /\ 500 \in Statuses
  /\ 0 \notin Statuses
  /\ {0, 200, 400, 404, 500} = Statuses \cup {0}
BY DEF Statuses

LEMMA FilterType ==
  ASSUME NEW v \in Blobs, NEW query
  PROVE  /\ FilterBlobs(Index[v], query).status \in Statuses
         /\ FilterBlobs(Index[v], query).body \in Bodies
BY BodyTypes, StatusFacts DEF FilterBlobs

\* A request whose root is known, one whose object is found, and one that is answered.
GoesOn(r, root) == [r EXCEPT !.stage = "read", !.root = root]

Finds(r, header) == [r EXCEPT !.stage = "body", !.header = header]

Ends(r, status, body) ==
  [r EXCEPT !.stage = "done", !.header = "identity", !.status = status, !.body = body]

LEMMA RequestTypes ==
  ASSUME NEW r \in Requests
  PROVE  /\ \A root \in Hashes :
              /\ GoesOn(r, root) \in Requests
              /\ GoesOn(r, root).stage = "read" /\ GoesOn(r, root).root = root
         /\ \A header \in Encodings :
              /\ Finds(r, header) \in Requests
              /\ Finds(r, header).stage = "body" /\ Finds(r, header).root = r.root
         /\ \A status \in Statuses, body \in Bodies :
              /\ Ends(r, status, body) \in Requests
              /\ Ends(r, status, body).stage = "done"
              /\ Ends(r, status, body).status = status
              /\ Ends(r, status, body).body = body
              /\ Ends(r, status, body).root = r.root /\ Ends(r, status, body).query = r.query
<1> DEFINE Ids     == Hashes \cup Nat \cup {HeadId, Bad}
           Queries == Seq(Seq(Nat \cup {Bad}))
           Roots   == Hashes \cup {NoRoot}
           Answers == {0, 200, 400, 404, 500}
           All     == [stage : {"resolve", "read", "body", "done"}, id : Ids, query : Queries,
                       root : Roots, header : Encodings, status : Answers, body : Bodies]
<1>1. Requests = All
  BY DEF Requests
<1>2. Hashes \subseteq Roots /\ Statuses \subseteq Answers /\ "identity" \in Encodings
  BY DEF Statuses, Encodings
<1> HIDE DEF Ids, Queries, Roots, Answers
<1>3. r \in All
  BY <1>1
<1>4. \A root \in Hashes : [r EXCEPT !.stage = "read", !.root = root] \in All
  BY <1>2, <1>3
<1>5. \A status \in Statuses, body \in Bodies :
        [r EXCEPT !.stage = "done", !.header = "identity", !.status = status, !.body = body] \in All
  BY <1>2, <1>3
<1>6. /\ \A root : GoesOn(r, root).stage = "read" /\ GoesOn(r, root).root = root
      /\ \A header : Finds(r, header).stage = "body" /\ Finds(r, header).root = r.root
  BY <1>3 DEF GoesOn, Finds
<1>7. \A status, body :
        /\ Ends(r, status, body).stage = "done"
        /\ Ends(r, status, body).status = status
        /\ Ends(r, status, body).body = body
        /\ Ends(r, status, body).root = r.root /\ Ends(r, status, body).query = r.query
  BY <1>3 DEF Ends
<1>8. /\ \A root \in Hashes : GoesOn(r, root) \in All
      /\ \A status \in Statuses, body \in Bodies : Ends(r, status, body) \in All
  BY <1>4, <1>5 DEF GoesOn, Ends
<1>9. \A header \in Encodings : Finds(r, header) \in All
  BY <1>3 DEF Finds
<1> HIDE DEF All
<1> QED
  BY <1>1, <1>6, <1>7, <1>8, <1>9

\* What a handler makes of its request.
Resolves(p) == \E root \in Hashes : request' = [request EXCEPT ![p] = GoesOn(request[p], root)]

Refuses(p) == \E status \in {400, 404, 500} : Respond(p, status, <<>>)

LEMMA HandlerSteps ==
  ASSUME NEW p \in Readers
  PROVE  /\ ToBeaconBlockHash(p) => Resolves(p) \/ Refuses(p)
         /\ StatBlob(p) =>
              \/ objects[request[p].root] = Missing /\ Respond(p, 404, <<>>)
              \/ /\ objects[request[p].root] # Missing
                 /\ request' = [request EXCEPT ![p] =
                                  Finds(request[p], objects[request[p].root].header)]
              \/ Respond(p, 500, <<>>)
         /\ ReadBody(p) =>
              \/ Respond(p, 500, <<>>)
              \/ \E v \in Blobs : Respond(p, FilterBlobs(Index[v], request[p].query).status,
                                            FilterBlobs(Index[v], request[p].query).body)
<1>1. ASSUME NEW h \in Heads, NEW root \in Resolve(request[p].id, h)
      PROVE  root \in Hashes
  BY BlobAPIAssumption DEF Resolve, Heads, FromOrigin, AncestorsOf
<1>2. ASSUME NEW root,
             request' = [request EXCEPT ![p] = [@ EXCEPT !.stage = "read", !.root = root]]
      PROVE  request' = [request EXCEPT ![p] = GoesOn(request[p], root)]
  BY <1>2 DEF GoesOn
<1>3. ASSUME ToBeaconBlockHash(p)
      PROVE  Resolves(p) \/ Refuses(p)
  <2> DEFINE Found ==
               \E h \in Heads :
                 \E root \in IF request[p].id \in Hashes THEN {request[p].id}
                             ELSE Resolve(request[p].id, h) :
                   request' = [request EXCEPT ![p] = [@ EXCEPT !.stage = "read", !.root = root]]
  <2>1. Found \/ Respond(p, 400, <<>>) \/ Respond(p, 404, <<>>) \/ Respond(p, 500, <<>>)
    BY <1>3, Zenon DEF ToBeaconBlockHash
  <2>2. ASSUME NEW h \in Heads,
               NEW root \in IF request[p].id \in Hashes THEN {request[p].id}
                           ELSE Resolve(request[p].id, h)
        PROVE  root \in Hashes
    <3>1. CASE request[p].id \in Hashes
      BY <2>2, <3>1, Zenon
    <3>2. CASE request[p].id \notin Hashes
      BY <1>1, <2>2, <3>2, Zenon
    <3> QED
      BY <3>1, <3>2, Zenon
  <2>3. CASE Found
    <3>1. PICK root \in Hashes :
            request' = [request EXCEPT ![p] = [@ EXCEPT !.stage = "read", !.root = root]]
      BY <2>2, <2>3, Zenon
    <3>2. request' = [request EXCEPT ![p] = GoesOn(request[p], root)]
      BY <1>2, <3>1
    <3> QED
      BY <3>2, Zenon DEF Resolves
  <2>4. CASE Respond(p, 400, <<>>) \/ Respond(p, 404, <<>>) \/ Respond(p, 500, <<>>)
    BY <2>4 DEF Refuses
  <2> HIDE DEF Found
  <2> QED
    BY <2>1, <2>3, <2>4
<1>4. ASSUME StatBlob(p)
      PROVE  \/ objects[request[p].root] = Missing /\ Respond(p, 404, <<>>)
             \/ /\ objects[request[p].root] # Missing
                /\ request' = [request EXCEPT ![p] =
                                 Finds(request[p], objects[request[p].root].header)]
             \/ Respond(p, 500, <<>>)
  BY <1>4 DEF StatBlob, Exists, Finds
<1>5. ASSUME ReadBody(p)
      PROVE  \/ Respond(p, 500, <<>>)
             \/ \E v \in Blobs : Respond(p, FilterBlobs(Index[v], request[p].query).status,
                                           FilterBlobs(Index[v], request[p].query).body)
  BY <1>5, Zenon DEF ReadBody
<1> QED
  BY <1>3, <1>4, <1>5

LEMMA AtType ==
  ASSUME TypeOK, NEW p \in Readers, NEW label \in {"resolve", "read", "body"},
         At(p, label)
  PROVE  /\ request[p] \in Requests
         /\ label # "resolve" => request[p].root \in Hashes
<1>1. request[p].stage # NoRequest.stage
  BY DEF At, NoRequest
<1> QED
  BY <1>1 DEF At, TypeOK

LEMMA RespondType ==
  ASSUME TypeOK, NEW p \in Readers, request[p] \in Requests,
         NEW status \in Statuses, NEW body \in Bodies, Respond(p, status, body)
  PROVE  /\ request' \in [Readers -> Requests \cup {NoRequest}]
         /\ \A q \in Readers : request'[q].stage \in {"read", "body"} => request'[q].root \in Hashes
         /\ \A q \in Readers : request'[q].stage = "done" => request'[q].status # 0
<1>1. /\ Ends(request[p], status, body) \in Requests
      /\ Ends(request[p], status, body).stage = "done"
      /\ Ends(request[p], status, body).status = status
  BY RequestTypes
<1>2. request' = [request EXCEPT ![p] = Ends(request[p], status, body)]
  BY DEF Respond, Ends
<1> QED
  BY <1>1, <1>2, StatusFacts DEF TypeOK

LEMMA StartType ==
  ASSUME Init
  PROVE  TypeOK
<1>1. StoreTypeOK
  BY DataStoreAssumption DEF Init, StoreInit, StoreTypeOK, NoWrite
<1> QED
  BY <1>1 DEF Init, TypeOK, NoRequest

\* A step of an API's handler.
LEMMA HandlerType ==
  ASSUME TypeOK, NEW p \in Readers,
         \/ \E asked \in Asked : Receive(p, asked[1], asked[2])
         \/ ToBeaconBlockHash(p) \/ StatBlob(p) \/ ReadBody(p)
  PROVE  TypeOK' /\ StoreStep
<1>1. StoreStep
  BY DEF Receive, ToBeaconBlockHash, StatBlob, ReadBody, At, StoreStep
<1>2. StoreTypeOK'
  BY <1>1, StoreStepType DEF TypeOK
<1>3. ASSUME NEW asked \in Asked, Receive(p, asked[1], asked[2])
      PROVE  TypeOK'
  <2>1. [stage |-> "resolve", id |-> asked[1], query |-> asked[2],
         root |-> NoRoot, header |-> "identity", status |-> 0, body |-> <<>>] \in Requests
    BY BodyTypes, BlobAPIAssumption DEF Requests, Encodings
  <2> QED
    BY <1>2, <1>3, <2>1 DEF Receive, TypeOK
<1>4. CASE ToBeaconBlockHash(p)
  <2>1. request[p] \in Requests
    BY <1>4, AtType DEF ToBeaconBlockHash
  <2>2. UNCHANGED found
    BY <1>4 DEF ToBeaconBlockHash
  <2>3. ASSUME NEW root \in Hashes, request' = [request EXCEPT ![p] = GoesOn(request[p], root)]
        PROVE  TypeOK'
    <3>1. /\ GoesOn(request[p], root) \in Requests
          /\ GoesOn(request[p], root).stage = "read" /\ GoesOn(request[p], root).root = root
      BY <2>1, <2>3, RequestTypes
    <3> QED
      BY <1>1, <1>2, <2>2, <2>3, <3>1 DEF TypeOK
  <2>4. ASSUME NEW status \in {400, 404, 500}, Respond(p, status, <<>>)
        PROVE  TypeOK'
    <3>1. status \in Statuses /\ <<>> \in Bodies
      BY StatusFacts, BodyTypes
    <3> QED
      BY <1>1, <1>2, <2>1, <2>2, <2>4, <3>1, RespondType DEF TypeOK
  <2>5. CASE Resolves(p)
    BY <1>1, <2>3, <2>5, Zenon DEF Resolves
  <2>6. CASE Refuses(p)
    BY <1>1, <2>4, <2>6 DEF Refuses
  <2> QED
    BY <1>4, <2>5, <2>6, HandlerSteps
<1>5. CASE StatBlob(p)
  <2>1. request[p] \in Requests /\ request[p].root \in Hashes /\ UNCHANGED found
    BY <1>5, AtType DEF StatBlob
  <2>2. CASE Respond(p, 404, <<>>) \/ Respond(p, 500, <<>>)
    <3>1. <<>> \in Bodies /\ 404 \in Statuses /\ 500 \in Statuses
      BY BodyTypes, StatusFacts
    <3> QED
      BY <1>1, <1>2, <2>1, <2>2, <3>1, RespondType DEF TypeOK
  <2>3. CASE /\ objects[request[p].root] # Missing
             /\ request' = [request EXCEPT ![p] =
                              Finds(request[p], objects[request[p].root].header)]
    <3> DEFINE header == objects[request[p].root].header
    <3>1. header \in Encodings
      BY <2>1, <2>3, KeyFacts DEF TypeOK, StoreTypeOK, Objects
    <3>2. /\ Finds(request[p], header) \in Requests
          /\ Finds(request[p], header).stage = "body"
          /\ Finds(request[p], header).root = request[p].root
      BY <2>1, <3>1, RequestTypes
    <3> QED
      BY <1>1, <1>2, <2>1, <2>3, <3>2 DEF TypeOK
  <2> QED
    BY <1>5, <2>2, <2>3, HandlerSteps
<1>6. CASE ReadBody(p)
  <2>1. request[p] \in Requests /\ request[p].root \in Hashes
    BY <1>6, AtType DEF ReadBody
  <2>2. \E status \in Statuses, body \in Bodies : Respond(p, status, body)
    <3>1. <<>> \in Bodies /\ 500 \in Statuses
      BY BodyTypes, StatusFacts
    <3>2. \A v \in Blobs : /\ FilterBlobs(Index[v], request[p].query).status \in Statuses
                           /\ FilterBlobs(Index[v], request[p].query).body \in Bodies
      BY FilterType
    <3> QED
      BY <1>6, <3>1, <3>2, HandlerSteps
  <2>3. found' \subseteq Hashes
    BY <1>6, <2>1 DEF ReadBody, TypeOK
  <2> QED
    BY <1>1, <1>2, <2>1, <2>2, <2>3, RespondType DEF TypeOK
<1> QED
  BY <1>1, <1>3, <1>4, <1>5, <1>6

LEMMA StepType == TypeOK /\ [Next]_vars => TypeOK' /\ StoreStep
<1> SUFFICES ASSUME TypeOK, [Next]_vars
             PROVE  TypeOK' /\ StoreStep
  OBVIOUS
<1>1. CASE StoreNext /\ Lost /\ UNCHANGED found
  <2>1. StoreTypeOK' /\ StoreStep
    BY <1>1, StoreStepType DEF TypeOK, StoreStep
  <2> QED
    BY <1>1, <2>1 DEF TypeOK, Lost, NoRequest
<1>2. ASSUME NEW p \in Readers,
             \/ \E asked \in Asked : Receive(p, asked[1], asked[2])
             \/ ToBeaconBlockHash(p) \/ StatBlob(p) \/ ReadBody(p)
      PROVE  TypeOK' /\ StoreStep
  BY <1>2, HandlerType
<1>3. CASE UNCHANGED vars
  BY <1>3 DEF vars, storeVars, TypeOK, StoreTypeOK, StoreStep
<1> QED
  BY <1>1, <1>2, <1>3 DEF Next

\* Every variable keeps its type; a file that a thread has truncated is there until it
\* is written, and no answer is read for a request of which the root is not known.
THEOREM TypeCorrect == Spec => []TypeOK
<1>1. TypeOK /\ [Next]_vars => TypeOK'
  BY StepType
<1> QED
  BY <1>1, StartType, PTL DEF Spec

----------------------------------------------------------------------------
(* The steps of writes *)

\* A file is truncated.
Opens(t) ==
  /\ kind = "file" /\ write[t].phase = "open"
  /\ objects' = [objects EXCEPT ![write[t].key] = Plain(Garbage, 0)]
  /\ write' = [write EXCEPT ![t].phase = "write"]
  /\ damaged' = damaged \ {write[t].key}
  /\ shared' = IF write[t].key \in Created /\ Overlapped(t)
               THEN shared \cup {write[t].key} ELSE shared \ {write[t].key}
  /\ Started
  /\ UNCHANGED <<kind, stage, loaded>>

\* A write is over, or has failed.
Finishes(t) ==
  /\ write[t] # NoWrite
  /\ EndWrite(t, TRUE) \/ EndWrite(t, FALSE)
  /\ \A key \in Keys : key # write[t].key =>
       objects'[key] = objects[key] /\ (key \in damaged' <=> key \in damaged)
  /\ Started
  /\ UNCHANGED <<kind, loaded, shared>>

Idles == UNCHANGED <<kind, objects, stage, loaded, write, damaged, shared, present>>

LEMMA FinishesFacts ==
  ASSUME StoreTypeOK, NEW t \in Threads,
         \/ OpenFile(t) /\ EndWrite(t, FALSE) /\ UNCHANGED <<objects, damaged, shared>>
         \/ WriteFile(t) \/ PutObject(t)
  PROVE  Finishes(t)
<1>1. CASE OpenFile(t) /\ EndWrite(t, FALSE) /\ UNCHANGED <<objects, damaged, shared>>
  <2>1. write[t].phase = "open" /\ UNCHANGED <<kind, loaded>> /\ Started
    BY <1>1 DEF OpenFile
  <2> QED
    BY <1>1, <2>1, NoWritePhase DEF Finishes
<1>2. CASE WriteFile(t) \/ PutObject(t)
  <2>1. write[t].phase \in {"open", "write"} /\ UNCHANGED <<kind, loaded, shared>> /\ Started
    BY <1>2 DEF WriteFile, PutObject
  <2>2. \A key \in Keys : key # write[t].key => objects'[key] = objects[key]
    BY <1>2, WriteObjects DEF StoreTypeOK
  <2>3. damaged' \in {damaged, damaged \cup {write[t].key}}
    BY <1>2 DEF WriteFile, PutObject
  <2> QED
    BY <1>2, <2>1, <2>2, <2>3, NoWritePhase, WriteObjects DEF Finishes
<1> QED
  BY <1>1, <1>2

LEMMA StoreSteps ==
  ASSUME StoreTypeOK, StoreStep
  PROVE  \/ \E p \in Processes : Start(p) \/ FindOrCreate(p) \/ End(p)
         \/ \E t \in Threads : Opens(t) \/ Finishes(t)
         \/ \E t \in Threads, hash \in Hashes : \E sidecars \in Served[hash] :
              WriteBlob(t, hash, sidecars)
         \/ \E p \in Archivers, key \in Created : Load(p, key)
         \/ \E p \in Archivers, key \in Created, v \in Progress \cup {Nothing} :
              WriteCreated(p, key, v)
         \/ Idles
<1>1. ASSUME NEW t \in Threads, OpenFile(t)
      PROVE  Opens(t) \/ Finishes(t)
  BY <1>1, FinishesFacts DEF OpenFile, Opens, Opened
<1>2. ASSUME NEW t \in Threads, WriteFile(t) \/ PutObject(t)
      PROVE  Finishes(t)
  BY <1>2, FinishesFacts
<1>3. CASE StoreNext
  BY <1>1, <1>2, <1>3 DEF StoreNext
<1> QED
  BY <1>3 DEF StoreStep, Idles

\* What is stored is not removed.
LEMMA ObjectsStay ==
  ASSUME StoreTypeOK, StoreStep, NEW key \in Keys, objects[key] # Missing
  PROVE  objects'[key] # Missing
<1>1. ASSUME NEW t \in Threads, NEW object, object # Missing,
             objects' = [objects EXCEPT ![write[t].key] = object]
      PROVE  objects'[key] # Missing
  BY <1>1 DEF StoreTypeOK
<1>2. ASSUME NEW t \in Threads, WriteFile(t) \/ PutObject(t)
      PROVE  objects'[key] # Missing
  BY <1>1, <1>2, WriteObjects, ValueFacts
<1>3. ASSUME NEW t \in Threads, OpenFile(t)
      PROVE  objects'[key] # Missing
  <2>1. Opened(objects[write[t].key]) # Missing
    BY ObjectTypes, ValueFacts
  <2> QED
    BY <1>1, <1>3, <2>1 DEF OpenFile
<1>4. CASE UNCHANGED objects
  BY <1>4
<1>5. ASSUME NEW p \in Processes, Start(p) \/ FindOrCreate(p) \/ End(p)
      PROVE  UNCHANGED objects
  BY <1>5 DEF Start, FindOrCreate, End
<1>6. ASSUME NEW t \in Threads, NEW hash \in Hashes, NEW sidecars \in Served[hash],
             WriteBlob(t, hash, sidecars)
      PROVE  UNCHANGED objects
  BY <1>6 DEF WriteBlob
<1>7. ASSUME NEW p \in Archivers, NEW created \in Created, Load(p, created)
      PROVE  UNCHANGED objects
  BY <1>7 DEF Load
<1>8. ASSUME NEW p \in Archivers, NEW created \in Created, NEW v \in Progress \cup {Nothing},
             WriteCreated(p, created, v)
      PROVE  UNCHANGED objects
  BY <1>8 DEF WriteCreated
<1> QED
  BY <1>2, <1>3, <1>4, <1>5, <1>6, <1>7, <1>8 DEF StoreStep, StoreNext

----------------------------------------------------------------------------
(* Where processes are *)

\* A process that is not up has loaded nothing and writes at most the object that
\* NewStorage is at.  A created object is written by its starter, or by an archiver
\* that has loaded it, and then it is there.
PlaceInv ==
  /\ \A p \in Processes : stage[p] # "up" =>
       loaded[p] = {} /\ \A t \in Threads : t[1] = p /\ t # Main(p) => write[t] = NoWrite
  /\ \A p \in Processes : stage[p] = "down" => write[Main(p)] = NoWrite
  /\ \A p \in Starting : write[Main(p)] # NoWrite => write[Main(p)].key = stage[p]
  /\ \A p \in Processes : loaded[p] # {} => p \in Archivers
  /\ \A p \in Processes : \A key \in loaded[p] : objects[key] # Missing
  /\ \A t \in Threads : write[t] # NoWrite /\ write[t].key \in Created =>
       t = Main(t[1]) /\ (t[1] \in Starting \/ write[t].key \in loaded[t[1]])
  /\ \A t \in Threads : write[t] # NoWrite /\ write[t].key \in Hashes =>
       write[t].value \in Served[write[t].key]
  /\ kind = "s3" => \A t \in Threads : write[t].phase # "write"

LEMMA BeginPlace ==
  ASSUME StoreTypeOK, PlaceInv, NEW t \in Threads, NEW key \in Keys, NEW v \in Values,
         BeginWrite(t, key, v), UNCHANGED <<kind, objects, stage, loaded>>,
         stage[t[1]] # "down",
         stage[t[1]] = "up" \/ (t = Main(t[1]) /\ key = stage[t[1]]),
         key \in Created => t = Main(t[1]) /\ (t[1] \in Starting \/ key \in loaded[t[1]]),
         key \in Hashes => v \in Served[key]
  PROVE  PlaceInv'
<1>1. write' = [write EXCEPT ![t] = [phase |-> "open", key |-> key, value |-> v]]
  BY DEF BeginWrite
<1>2. Starting' = Starting
  BY DEF Starting
<1>3. t[1] \in Processes /\ \A p \in Processes : Main(p)[1] = p /\ Main(p) \in Threads
  BY KeyFacts
<1> QED
  BY <1>1, <1>2, <1>3 DEF PlaceInv, StoreTypeOK, Starting, Created

LEMMA OpenPlace ==
  ASSUME StoreTypeOK, StoreStep, PlaceInv, NEW t \in Threads, Opens(t)
  PROVE  PlaceInv'
<1>1. write[t] # NoWrite /\ write[t] \in Writes
  BY NoWritePhase, WriteType DEF Opens
<1>2. /\ \A u \in Threads : u # t => write'[u] = write[u]
      /\ write'[t].key = write[t].key /\ write'[t].value = write[t].value
  BY <1>1 DEF Opens, StoreTypeOK, Writes
<1>3. Starting' = Starting
  BY DEF Opens, Starting
<1>4. \A key \in Keys : objects[key] # Missing => objects'[key] # Missing
  BY ObjectsStay
<1>5. \A p \in Processes : loaded[p] \subseteq Keys
  BY KeyFacts DEF StoreTypeOK
<1>6. UNCHANGED <<kind, stage, loaded>> /\ kind = "file"
  BY DEF Opens
<1> QED
  BY <1>1, <1>2, <1>3, <1>4, <1>5, <1>6, KeyFacts DEF PlaceInv

LEMMA FinishPlace ==
  ASSUME StoreTypeOK, StoreStep, PlaceInv, NEW t \in Threads, Finishes(t)
  PROVE  /\ PlaceInv'
         /\ t[1] \in Starting => t = Main(t[1])
         /\ Starting' \subseteq Starting
<1>1. /\ write'[t] = NoWrite /\ \A u \in Threads : u # t => write'[u] = write[u]
      /\ \A u \in Threads : write'[u].phase = "write" => write'[u] = write[u]
      /\ UNCHANGED <<kind, loaded>> /\ write[t] # NoWrite
  BY EndWriteType DEF Finishes
<1>2. t[1] \in Processes /\ stage[t[1]] # "down"
  BY <1>1, KeyFacts DEF PlaceInv
<1>3. t[1] \in Starting => t = Main(t[1])
  BY <1>1, <1>2, KeyFacts DEF PlaceInv, Starting, Created
<1>4. /\ \A p \in Processes : p # t[1] => stage'[p] = stage[p]
      /\ t[1] \notin Starting => stage'[t[1]] = stage[t[1]]
      /\ t[1] \in Starting => stage'[t[1]] \in Created \cup {"up", "down"}
  <2>1. t[1] \in Starting => After(stage[t[1]]) \in Created \cup {"up"}
    BY KeyFacts
  <2> QED
    BY <1>2, <2>1 DEF Finishes, EndWrite, StoreTypeOK
<1>5. \A key \in Keys : objects[key] # Missing => objects'[key] # Missing
  BY ObjectsStay
<1>6. \A p \in Processes : loaded[p] \subseteq Keys
  BY KeyFacts DEF StoreTypeOK
<1>7. /\ \A p \in Processes : p # t[1] => (p \in Starting' <=> p \in Starting)
      /\ t[1] \in Starting' => t[1] \in Starting
      /\ t[1] \notin Starting => Starting' = Starting
  BY <1>2, <1>4 DEF Starting
<1>8. t[1] \in Starting => stage[t[1]] # "up"
  BY DEF Starting, Created
<1>9. \A p \in Processes : stage'[p] # "up" =>
        loaded'[p] = {} /\ \A u \in Threads : u[1] = p /\ u # Main(p) => write'[u] = NoWrite
  BY <1>1, <1>2, <1>4, <1>8 DEF PlaceInv
<1>10. \A p \in Processes : stage'[p] = "down" => write'[Main(p)] = NoWrite
  BY <1>1, <1>3, <1>4, KeyFacts DEF PlaceInv
<1>11. \A p \in Starting' : write'[Main(p)] # NoWrite => write'[Main(p)].key = stage'[p]
  BY <1>1, <1>3, <1>4, <1>7, KeyFacts DEF PlaceInv, Starting
<1>12. \A u \in Threads : write'[u] # NoWrite /\ write'[u].key \in Created =>
         u = Main(u[1]) /\ (u[1] \in Starting' \/ write'[u].key \in loaded'[u[1]])
  BY <1>1, <1>3, <1>7, KeyFacts DEF PlaceInv
<1>13. Starting' \subseteq Starting
  BY <1>7 DEF Starting
<1> QED
  BY <1>1, <1>3, <1>5, <1>6, <1>9, <1>10, <1>11, <1>12, <1>13 DEF PlaceInv

LEMMA PlaceStep ==
  ASSUME StoreTypeOK, StoreStep, PlaceInv
  PROVE  PlaceInv'
<1>1. ASSUME NEW p \in Processes, Start(p)
      PROVE  PlaceInv'
  <2>1. /\ stage[p] = "down" /\ stage' = [stage EXCEPT ![p] = "backfill_processes"]
        /\ UNCHANGED <<kind, objects, loaded, write>>
    BY <1>1 DEF Start
  <2>2. \A q \in Processes : q \in Starting' <=> q \in Starting \/ q = p
    BY <2>1 DEF Starting, Created, StoreTypeOK
  <2>3. Starting' \subseteq Processes
    BY DEF Starting
  <2> QED
    BY <2>1, <2>2, <2>3, KeyFacts DEF PlaceInv, StoreTypeOK
<1>2. ASSUME NEW p \in Processes, FindOrCreate(p)
      PROVE  PlaceInv'
  <2>1. /\ stage[p] \in Created /\ stage[p] \in Keys /\ p \in Starting
        /\ Main(p) \in Threads /\ Main(p)[1] = p
        /\ write[Main(p)] = NoWrite /\ UNCHANGED <<kind, objects, loaded>>
    BY <1>2, KeyFacts DEF FindOrCreate
  <2>2. CASE BeginWrite(Main(p), stage[p], Nothing) /\ UNCHANGED stage
    BY <2>1, <2>2, BeginPlace, KeyFacts, ValueFacts DEF Created
  <2>3. CASE stage' = [stage EXCEPT ![p] = After(stage[p])] /\ UNCHANGED write
    <3>1. After(stage[p]) \in Created \cup {"up"} /\ After(stage[p]) # "down"
      BY <2>1, KeyFacts DEF Created
    <3>2. \A q \in Processes : q # p => (q \in Starting' <=> q \in Starting)
      BY <2>3 DEF Starting, StoreTypeOK
    <3>3. Starting' \subseteq Processes /\ stage[p] # "up"
      BY <2>1 DEF Starting, Created
    <3>4. \A u \in Threads : u[1] = p => write[u] = NoWrite
      BY <2>1, <3>3 DEF PlaceInv
    <3>5. \A q \in Processes : q # p => stage'[q] = stage[q]
      BY <2>3 DEF StoreTypeOK
    <3>6. stage'[p] # "down" /\ loaded[p] = {}
      BY <2>1, <2>3, <3>1, <3>3 DEF StoreTypeOK, PlaceInv
    <3>7. \A u \in Threads : write[u] # NoWrite => u[1] \in Processes /\ u[1] # p
      BY <3>4, KeyFacts
    <3> QED
      BY <2>1, <2>3, <3>2, <3>3, <3>4, <3>5, <3>6, <3>7, KeyFacts DEF PlaceInv
  <2> QED
    BY <1>2, <2>2, <2>3 DEF FindOrCreate
<1>3. ASSUME NEW p \in Processes, End(p)
      PROVE  PlaceInv'
  <2>1. /\ stage' = [stage EXCEPT ![p] = "down"] /\ loaded' = [loaded EXCEPT ![p] = {}]
        /\ write' = [t \in Threads |-> IF t[1] = p THEN NoWrite ELSE write[t]]
        /\ UNCHANGED <<kind, objects>>
    BY <1>3 DEF End
  <2>2. /\ \A q \in Processes : q # p => (q \in Starting' <=> q \in Starting)
        /\ Starting' \subseteq Processes /\ p \notin Starting'
    BY <2>1 DEF Starting, StoreTypeOK, Created
  <2> QED
    BY <2>1, <2>2, NoWritePhase, KeyFacts DEF PlaceInv, StoreTypeOK
<1>4. ASSUME NEW t \in Threads, Opens(t) \/ Finishes(t)
      PROVE  PlaceInv'
  BY <1>4, OpenPlace, FinishPlace
<1>5. ASSUME NEW t \in Threads, NEW hash \in Hashes, NEW sidecars \in Served[hash],
             WriteBlob(t, hash, sidecars)
      PROVE  PlaceInv'
  <2>1. /\ BeginWrite(t, hash, sidecars) /\ UNCHANGED <<kind, objects, stage, loaded>>
        /\ stage[t[1]] = "up"
    BY <1>5 DEF WriteBlob
  <2> QED
    BY <2>1, BeginPlace, KeyFacts, ValueFacts
<1>6. ASSUME NEW p \in Archivers, NEW key \in Created, Load(p, key)
      PROVE  PlaceInv'
  <2>1. p \in Processes
    BY DEF Processes
  <2>2. /\ stage[p] = "up" /\ loaded' = [loaded EXCEPT ![p] = @ \cup {key}]
        /\ UNCHANGED <<kind, objects, stage, write>>
    BY <1>6 DEF Load
  <2>3. objects[key] # Missing
    BY <1>6, ValueFacts DEF Load, Read, Exists
  <2>4. Starting' = Starting
    BY <2>2 DEF Starting
  <2> QED
    BY <2>1, <2>2, <2>3, <2>4 DEF PlaceInv, StoreTypeOK
<1>7. ASSUME NEW p \in Archivers, NEW key \in Created, NEW v \in Progress \cup {Nothing},
             WriteCreated(p, key, v)
      PROVE  PlaceInv'
  <2>1. p \in Processes /\ Main(p) \in Threads /\ Main(p)[1] = p /\ key \in Keys /\ v \in Values
    BY KeyFacts, ValueFacts DEF Processes
  <2>2. /\ BeginWrite(Main(p), key, v) /\ UNCHANGED <<kind, objects, stage, loaded>>
        /\ stage[p] = "up" /\ key \in loaded[p]
    BY <1>7 DEF WriteCreated
  <2> QED
    BY <2>1, <2>2, BeginPlace, KeyFacts
<1>8. CASE Idles
  BY <1>8 DEF Idles, PlaceInv, Starting
<1> QED
  BY <1>1, <1>2, <1>3, <1>4, <1>5, <1>6, <1>7, <1>8, StoreSteps

----------------------------------------------------------------------------
(* Starts *)

LEMMA ReadFacts ==
  ASSUME StoreTypeOK, NEW p, NEW key \in Keys
  PROVE  /\ IsMissing(p, key) => objects[key] = Missing
         /\ \A header : Decoded(p, key, header) \in Values => objects[key] # Missing
<1>1. Decoded(p, key, objects[key].header) # "ErrNotFound"
  BY ValueFacts DEF Decoded, StoreTypeOK, Objects
<1> QED
  BY <1>1, ValueFacts DEF IsMissing, Read, Exists, Decoded

\* What was there when a process began to start is there still, and is not what it
\* writes.
StartInv ==
  /\ \A p \in Processes : \A key \in present[p] : objects[key] # Missing
  /\ \A p \in Starting : write[Main(p)] # NoWrite => write[Main(p)].key \notin present[p]

\* Other processes, and other steps, begin nothing.
LEMMA StartsGoOn ==
  ASSUME StoreTypeOK, StoreStep, StartInv,
         \A p \in Processes : present'[p] \subseteq present[p],
         \A p \in Starting' : p \in Starting /\ \/ write'[Main(p)] = NoWrite
                                                \/ /\ write[Main(p)] # NoWrite
                                                   /\ write'[Main(p)].key = write[Main(p)].key
  PROVE  StartInv'
<1>1. \A p \in Processes : \A key \in present[p] : key \in Keys
  BY KeyFacts DEF StoreTypeOK
<1>2. \A key \in Keys : objects[key] # Missing => objects'[key] # Missing
  BY ObjectsStay
<1>3. \A p \in Starting : p \in Processes
  BY KeyFacts
<1> QED
  BY <1>1, <1>2, <1>3 DEF StartInv

LEMMA StartedLess ==
  ASSUME StoreTypeOK, Started
  PROVE  \A p \in Processes : present'[p] \subseteq present[p]
BY DEF StoreTypeOK, Started

LEMMA StartStep ==
  ASSUME StoreTypeOK, StoreStep, PlaceInv, StartInv
  PROVE  StartInv'
<1>1. ASSUME NEW p \in Processes, Start(p)
      PROVE  StartInv'
  <2>1. /\ stage[p] = "down" /\ stage' = [stage EXCEPT ![p] = "backfill_processes"]
        /\ present' = [present EXCEPT ![p] = {key \in Created : Exists(key)}]
        /\ UNCHANGED <<objects, write>>
    BY <1>1 DEF Start
  <2>2. write'[Main(p)] = NoWrite
    BY <2>1 DEF PlaceInv
  <2>3. \A q \in Starting' : q \in Processes /\ (q = p \/ q \in Starting)
    BY <2>1 DEF Starting, StoreTypeOK
  <2>4. /\ \A q \in Processes : q # p => present'[q] = present[q]
        /\ \A key \in present'[p] : objects[key] # Missing
    BY <2>1 DEF StoreTypeOK, Exists
  <2> QED
    BY <2>1, <2>2, <2>3, <2>4 DEF StartInv
<1>2. ASSUME NEW p \in Processes, FindOrCreate(p)
      PROVE  StartInv'
  <2>1. /\ stage[p] \in Created /\ stage[p] \in Keys /\ p \in Starting
        /\ Main(p) \in Threads /\ write[Main(p)] = NoWrite
        /\ \A q \in Processes : present'[q] \subseteq present[q]
    BY <1>2, KeyFacts, StartedLess DEF FindOrCreate
  <2>2. CASE /\ IsMissing(p, stage[p]) /\ BeginWrite(Main(p), stage[p], Nothing)
             /\ UNCHANGED <<objects, stage>>
    <3>1. stage[p] \notin present[p]
      BY <2>1, <2>2, ReadFacts DEF StartInv
    <3>2. /\ write'[Main(p)].key = stage[p]
          /\ \A q \in Processes : q # p => write'[Main(q)] = write[Main(q)]
      BY <2>1, <2>2, KeyFacts DEF BeginWrite, StoreTypeOK
    <3>3. Starting' = Starting /\ Starting \subseteq Processes
      BY <2>2 DEF Starting
    <3> QED
      BY <2>1, <2>2, <3>1, <3>2, <3>3 DEF StartInv
  <2>3. CASE stage' = [stage EXCEPT ![p] = After(stage[p])] /\ UNCHANGED write
    <3>1. \A q \in Starting' : q \in Starting
      BY <2>1, <2>3 DEF Starting, StoreTypeOK
    <3> QED
      BY <2>1, <2>3, <3>1, StartsGoOn
  <2> QED
    BY <1>2, <2>2, <2>3 DEF FindOrCreate
<1>3. ASSUME NEW p \in Processes, End(p)
      PROVE  StartInv'
  <2>1. /\ stage' = [stage EXCEPT ![p] = "down"] /\ Started
        /\ write' = [t \in Threads |-> IF t[1] = p THEN NoWrite ELSE write[t]]
    BY <1>3 DEF End
  <2>2. \A q \in Starting' : q \in Starting
    BY <2>1 DEF Starting, StoreTypeOK, Created
  <2>3. \A q \in Starting' : write'[Main(q)] \in {NoWrite, write[Main(q)]}
    BY <2>1, <2>2, KeyFacts
  <2> QED
    BY <2>1, <2>2, <2>3, StartsGoOn, StartedLess
<1>4. ASSUME NEW t \in Threads, Opens(t)
      PROVE  StartInv'
  <2>1. write[t] # NoWrite /\ write[t] \in Writes
    BY <1>4, NoWritePhase, WriteType DEF Opens
  <2>2. /\ \A u \in Threads : u # t => write'[u] = write[u]
        /\ write'[t].key = write[t].key
    BY <1>4, <2>1 DEF Opens, StoreTypeOK, Writes
  <2>3. Starting' = Starting /\ Started
    BY <1>4 DEF Opens, Starting
  <2> QED
    BY <2>1, <2>2, <2>3, StartsGoOn, StartedLess, KeyFacts
<1>5. ASSUME NEW t \in Threads, Finishes(t)
      PROVE  StartInv'
  <2>1. /\ write'[t] = NoWrite /\ \A u \in Threads : u # t => write'[u] = write[u]
        /\ Started
    BY <1>5, EndWriteType DEF Finishes
  <2>2. Starting' \subseteq Starting
    BY <1>5, FinishPlace
  <2> QED
    BY <2>1, <2>2, StartsGoOn, StartedLess, KeyFacts
<1>6. ASSUME NEW t \in Threads, stage[t[1]] = "up", UNCHANGED <<stage, present>>,
             \A u \in Threads : u # t => write'[u] = write[u]
      PROVE  StartInv'
  <2>1. Starting' = Starting
    BY <1>6 DEF Starting
  <2>2. \A p \in Starting : write'[Main(p)] = write[Main(p)]
    BY <1>6, KeyFacts DEF Starting, Created
  <2> QED
    BY <1>6, <2>1, <2>2, StartsGoOn
<1>7. ASSUME NEW t \in Threads, NEW hash \in Hashes, NEW sidecars \in Served[hash],
             WriteBlob(t, hash, sidecars)
      PROVE  StartInv'
  BY <1>6, <1>7, BeginWriteType, KeyFacts, ValueFacts DEF WriteBlob
<1>8. ASSUME NEW p \in Archivers, NEW key \in Created, NEW v \in Progress \cup {Nothing},
             WriteCreated(p, key, v)
      PROVE  StartInv'
  <2>1. p \in Processes /\ Main(p) \in Threads /\ Main(p)[1] = p /\ key \in Keys /\ v \in Values
    BY KeyFacts, ValueFacts DEF Processes
  <2> QED
    BY <1>6, <1>8, <2>1, BeginWriteType DEF WriteCreated
<1>9. ASSUME NEW p \in Archivers, NEW key \in Created, Load(p, key)
      PROVE  StartInv'
  <2>1. UNCHANGED <<stage, write, present>>
    BY <1>9 DEF Load
  <2>2. Starting' = Starting
    BY <2>1 DEF Starting
  <2> QED
    BY <2>1, <2>2, StartsGoOn
<1>10. CASE Idles
  BY <1>10 DEF Idles, StartInv, Starting
<1> QED
  BY <1>1, <1>2, <1>3, <1>4, <1>5, <1>7, <1>8, <1>9, <1>10, StoreSteps

----------------------------------------------------------------------------

LEMMA StoreStart == Init => PlaceInv /\ StartInv
<1> SUFFICES ASSUME Init
             PROVE  PlaceInv /\ StartInv
  OBVIOUS
<1>1. Starting = {} /\ \A p \in Processes : stage[p] = "down" /\ loaded[p] = {} /\ present[p] = {}
  BY DEF Init, StoreInit, Starting, Created
<1>2. \A t \in Threads : write[t] = NoWrite
  BY DEF Init, StoreInit
<1> QED
  BY <1>1, <1>2, NoWritePhase, KeyFacts DEF PlaceInv, StartInv

\* StartsKeepObjects for any number of processes, however many start at the same time,
\* while requests fail and starters crash and leave files empty: a start creates what is
\* missing, and what was there before it never is.
THEOREM StartsAreSafe == Spec => []StartsKeepObjects
<1>1. Init => TypeOK /\ PlaceInv /\ StartInv
  BY StartType, StoreStart
<1>2. TypeOK /\ PlaceInv /\ StartInv /\ [Next]_vars => (TypeOK /\ PlaceInv /\ StartInv)'
  BY StepType, PlaceStep, StartStep DEF TypeOK
<1>3. StartInv => StartsKeepObjects
  BY DEF StartInv, StartsKeepObjects
<1> QED
  BY <1>1, <1>2, <1>3, PTL DEF Spec

----------------------------------------------------------------------------
(* What exists can be read *)

\* An object says how it is encoded, where a reader looks at that, and an object of S3
\* has a value at all times.
LabelInv ==
  \A key \in Keys : objects[key] # Missing =>
    /\ objects[key].encoding = IF key \in Hashes THEN objects[key].header ELSE "identity"
    /\ kind = "s3" => objects[key].value \in Values

\* A file has a value, unless a write of it was cut short or is under way.
FileInv(keys) ==
  \A key \in keys : objects[key] # Missing =>
    \/ objects[key].value \in Values
    \/ key \in damaged
    \/ \E t \in Threads : write[t].phase = "write" /\ write[t].key = key

\* What a file has when it is written is no longer than what is written.
FitsInv(keys) ==
  \A t \in Threads : write[t].phase = "write" /\ write[t].key \in keys =>
    objects[write[t].key].size <= Size[write[t].value]

LEMMA ReadsValues ==
  ASSUME StoreTypeOK, LabelInv, NEW key \in Keys, objects[key] # Missing, NEW p,
         kind = "s3" \/ (FileInv({key}) /\ AtRest(key))
  PROVE  Read(p, key) \in Values
<1>1. objects[key].value \in Values
  <2>1. CASE kind = "s3"
    BY <2>1 DEF LabelInv
  <2>2. CASE FileInv({key}) /\ AtRest(key)
    BY <2>2, NoWritePhase DEF FileInv, AtRest
  <2> QED
    BY <2>1, <2>2
<1>2. objects[key].encoding = DecodedAs(p, key, objects[key].header)
  BY DEF LabelInv, DecodedAs
<1> QED
  BY <1>1, <1>2, ValueFacts DEF Read, Exists, Decoded

\* The steps at which objects change.
LEMMA ObjectSteps ==
  ASSUME StoreTypeOK, StoreStep
  PROVE  \/ \E t \in Threads : OpenFile(t) \/ WriteFile(t) \/ PutObject(t)
         \/ UNCHANGED <<kind, objects>>
<1>1. ASSUME NEW p \in Processes, Start(p) \/ FindOrCreate(p) \/ End(p)
      PROVE  UNCHANGED <<kind, objects>>
  BY <1>1 DEF Start, FindOrCreate, End
<1>2. ASSUME NEW t \in Threads, NEW hash \in Hashes, NEW sidecars \in Served[hash],
             WriteBlob(t, hash, sidecars)
      PROVE  UNCHANGED <<kind, objects>>
  BY <1>2 DEF WriteBlob
<1>3. ASSUME NEW p \in Archivers, NEW key \in Created, Load(p, key)
      PROVE  UNCHANGED <<kind, objects>>
  BY <1>3 DEF Load
<1>4. ASSUME NEW p \in Archivers, NEW key \in Created, NEW v \in Progress \cup {Nothing},
             WriteCreated(p, key, v)
      PROVE  UNCHANGED <<kind, objects>>
  BY <1>4 DEF WriteCreated
<1> QED
  BY <1>1, <1>2, <1>3, <1>4 DEF StoreStep, StoreNext

LEMMA LabelStep ==
  ASSUME StoreTypeOK, StoreStep, LabelInv
  PROVE  LabelInv'
<1>1. ASSUME NEW t \in Threads, NEW object, write[t].key \in Keys, kind' = kind,
             objects' = [objects EXCEPT ![write[t].key] = object],
             object.encoding = IF write[t].key \in Hashes THEN object.header ELSE "identity",
             kind = "s3" => object.value \in Values
      PROVE  LabelInv'
  BY <1>1 DEF LabelInv, StoreTypeOK
<1>2. ASSUME NEW t \in Threads, OpenFile(t) \/ WriteFile(t)
      PROVE  LabelInv'
  <2>1. /\ kind' = kind /\ kind # "s3" /\ write[t].key \in Keys
        /\ \/ objects' = objects
           \/ \E v, n : objects' = [objects EXCEPT ![write[t].key] = Plain(v, n)]
    <3>1. write[t].phase \in {"open", "write"} /\ kind' = kind /\ kind = "file"
      BY <1>2 DEF OpenFile, WriteFile
    <3>2. \A file, v, n : \E v2, n2 : Over(file, v, n) = Plain(v2, n2)
      BY DEF Over
    <3>3. \/ objects' = objects
          \/ objects' = [objects EXCEPT ![write[t].key] = Plain(Garbage, 0)]
          \/ \E v, n : objects' = [objects EXCEPT ![write[t].key] =
                                     Over(objects[write[t].key], v, n)]
      BY <1>2 DEF OpenFile, WriteFile, Opened
    <3> QED
      BY <3>1, <3>2, <3>3, NoWritePhase, WriteType
  <2>2. \A v, n : Plain(v, n).encoding = "identity" /\ Plain(v, n).header = "identity"
    BY DEF Plain
  <2>3. CASE objects' = objects
    BY <2>1, <2>3 DEF LabelInv
  <2> QED
    BY <1>1, <2>1, <2>2, <2>3
<1>3. ASSUME NEW t \in Threads, PutObject(t)
      PROVE  LabelInv'
  <2>1. write[t].key \in Keys /\ write[t].value \in Values /\ kind' = kind
    BY <1>3, WriteObjects DEF PutObject
  <2>2. objects' = objects \/
        \E object :
          /\ object.value = write[t].value
          /\ object.encoding = IF write[t].key \in Hashes THEN object.header ELSE "identity"
          /\ objects' = [objects EXCEPT ![write[t].key] = object]
    <3> DEFINE object == [value |-> write[t].value, size |-> Size[write[t].value],
                          encoding |-> Encoding(t[1], write[t].key),
                          header |-> ContentEncoding(t[1], write[t].key)]
    <3>1. /\ object.value = write[t].value
          /\ object.encoding = IF write[t].key \in Hashes THEN object.header ELSE "identity"
      BY DEF Encoding, ContentEncoding
    <3>2. objects' \in {objects, [objects EXCEPT ![write[t].key] = object]}
      BY <1>3 DEF PutObject
    <3> HIDE DEF object
    <3> QED
      BY <3>1, <3>2
  <2>3. CASE objects' = objects
    BY <2>1, <2>3 DEF LabelInv
  <2> QED
    BY <1>1, <2>1, <2>2, <2>3
<1>4. CASE UNCHANGED <<kind, objects>>
  BY <1>4 DEF LabelInv
<1> QED
  BY <1>2, <1>3, <1>4, ObjectSteps

\* A file that is written.
LEMMA Written ==
  ASSUME StoreTypeOK, NEW t \in Threads, WriteFile(t)
  PROVE  LET file  == objects[write[t].key]
             value == write[t].value
         IN
         /\ write[t].phase = "write" /\ write[t].key \in Keys
         /\ value \in Values /\ file.size \in Nat /\ file # Missing /\ file.value \in Values \cup {Garbage}
         /\ \A key \in Keys : key # write[t].key => objects'[key] = objects[key]
         /\ \/ /\ objects'[write[t].key] = Over(file, value, Size[value])
               /\ UNCHANGED damaged
            \/ /\ \E n \in 0 .. Size[value] - 1 : objects'[write[t].key] = Over(file, Garbage, n)
               /\ damaged' = damaged \cup {write[t].key}
<1>1. write[t].phase = "write"
  BY DEF WriteFile
<1>2. write[t].key \in Keys /\ write[t].value \in Values /\ objects[write[t].key] # Missing
  BY <1>1, WriteObjects DEF StoreTypeOK
<1>3. objects[write[t].key].size \in Nat /\ objects[write[t].key].value \in Values \cup {Garbage}
  BY <1>2 DEF StoreTypeOK, Objects
<1>4. \A key \in Keys : key # write[t].key => objects'[key] = objects[key]
  BY WriteObjects DEF StoreTypeOK
<1>5. \/ /\ objects'[write[t].key] = Over(objects[write[t].key], write[t].value,
                                          Size[write[t].value])
         /\ UNCHANGED damaged
      \/ /\ \E n \in 0 .. Size[write[t].value] - 1 :
              objects'[write[t].key] = Over(objects[write[t].key], Garbage, n)
         /\ damaged' = damaged \cup {write[t].key}
  BY <1>2 DEF WriteFile, StoreTypeOK
<1> QED
  BY <1>1, <1>2, <1>3, <1>4, <1>5

\* Files stay as they are, and so do the writes of truncated ones.
Quiet ==
  /\ UNCHANGED <<kind, objects, damaged, shared>>
  /\ \A t \in Threads : write[t].phase = "write" => write'[t] = write[t]
  /\ \A t \in Threads : write'[t].phase = "write" => write'[t] = write[t]

LEMMA FileSteps ==
  ASSUME StoreTypeOK, StoreStep, kind = "file"
  PROVE  \/ \E t \in Threads : Opens(t) \/ WriteFile(t)
         \/ \E p \in Processes : End(p)
         \/ Quiet
<1>1. ASSUME NEW p \in Processes, Start(p)
      PROVE  Quiet
  BY <1>1 DEF Start, Quiet
<1>2. ASSUME NEW p \in Processes, FindOrCreate(p)
      PROVE  Quiet
  <2>1. Main(p) \in Threads /\ stage[p] \in Keys /\ write[Main(p)] = NoWrite
        /\ UNCHANGED <<kind, objects, damaged, shared>>
    BY <1>2, KeyFacts DEF FindOrCreate
  <2>2. CASE BeginWrite(Main(p), stage[p], Nothing)
    BY <2>1, <2>2, BeginWriteType, NoWritePhase, ValueFacts DEF Quiet
  <2>3. CASE UNCHANGED write
    BY <2>1, <2>3 DEF Quiet
  <2> QED
    BY <1>2, <2>2, <2>3 DEF FindOrCreate
<1>3. ASSUME NEW t \in Threads, OpenFile(t)
      PROVE  Opens(t) \/ Quiet
  <2>1. CASE EndWrite(t, FALSE) /\ UNCHANGED <<objects, damaged, shared>>
    BY <1>3, <2>1, EndWriteType DEF OpenFile, Quiet
  <2> QED
    BY <1>3, <2>1 DEF OpenFile, Opens, Opened
<1>4. ASSUME NEW t \in Threads, PutObject(t)
      PROVE  FALSE
  BY <1>4 DEF PutObject
<1>5. ASSUME NEW t \in Threads, NEW hash \in Hashes, NEW sidecars \in Served[hash],
             WriteBlob(t, hash, sidecars)
      PROVE  Quiet
  <2>1. hash \in Keys /\ sidecars \in Values
    BY KeyFacts, ValueFacts
  <2> QED
    BY <1>5, <2>1, BeginWriteType, NoWritePhase DEF WriteBlob, Quiet
<1>6. ASSUME NEW p \in Archivers, NEW key \in Created, Load(p, key)
      PROVE  Quiet
  BY <1>6 DEF Load, Quiet
<1>7. ASSUME NEW p \in Archivers, NEW key \in Created, NEW v \in Progress \cup {Nothing},
             WriteCreated(p, key, v)
      PROVE  Quiet
  <2>1. Main(p) \in Threads /\ key \in Keys /\ v \in Values
    BY KeyFacts, ValueFacts DEF Processes
  <2> QED
    BY <1>7, <2>1, BeginWriteType, NoWritePhase DEF WriteCreated, Quiet
<1>8. UNCHANGED <<kind, objects, write, damaged, shared>> => Quiet
  BY DEF Quiet
<1> QED
  BY <1>1, <1>2, <1>3, <1>4, <1>5, <1>6, <1>7, <1>8 DEF StoreStep, StoreNext

LEMMA FileStep ==
  ASSUME StoreTypeOK, StoreStep, kind = "file", NEW keys \in SUBSET Keys,
         FitsInv(keys), FileInv(keys)
  PROVE  FileInv(keys)'
<1>1. ASSUME NEW t \in Threads, Opens(t)
      PROVE  FileInv(keys)'
  <2>1. write[t] # NoWrite /\ write[t] \in Writes
    BY <1>1, NoWritePhase, WriteType DEF Opens
  <2>2. /\ write'[t].phase = "write" /\ write'[t].key = write[t].key
        /\ \A u \in Threads : u # t => write'[u] = write[u]
    BY <1>1, <2>1 DEF Opens, StoreTypeOK, Writes
  <2>3. \A key \in keys : key # write[t].key =>
          objects'[key] = objects[key] /\ (key \in damaged' <=> key \in damaged)
    BY <1>1 DEF Opens, StoreTypeOK
  <2>4. write[t].phase # "write"
    BY <1>1 DEF Opens
  <2> QED
    BY <2>2, <2>3, <2>4 DEF FileInv
<1>2. ASSUME NEW t \in Threads, WriteFile(t)
      PROVE  FileInv(keys)'
  <2>1. \A u \in Threads : u # t => write'[u] = write[u]
    BY <1>2, WriteObjects, EndWriteType
  <2>2. ASSUME NEW key \in keys, key # write[t].key, objects'[key] # Missing
        PROVE  \/ objects'[key].value \in Values
               \/ key \in damaged'
               \/ \E u \in Threads : write'[u].phase = "write" /\ write'[u].key = key
    BY <1>2, <2>1, <2>2, Written DEF FileInv
  <2>3. ASSUME write[t].key \in keys
        PROVE  objects'[write[t].key].value \in Values \/ write[t].key \in damaged'
    <3>1. objects[write[t].key].size <= Size[write[t].value]
      BY <1>2, <2>3, Written DEF FitsInv
    <3>2. Over(objects[write[t].key], write[t].value, Size[write[t].value]) =
            Plain(write[t].value, Size[write[t].value])
      BY <3>1 DEF Over
    <3>3. Plain(write[t].value, Size[write[t].value]).value \in Values
      BY <1>2, Written DEF Plain
    <3> QED
      BY <1>2, <3>2, <3>3, Written
  <2> QED
    BY <2>2, <2>3 DEF FileInv
<1>3. ASSUME NEW p \in Processes, End(p)
      PROVE  FileInv(keys)'
  <2>1. /\ UNCHANGED objects /\ damaged' = damaged \cup CutShort(p)
        /\ \A t \in Threads : t[1] # p => write'[t] = write[t]
    BY <1>3 DEF End
  <2>2. \A t \in Threads : t[1] = p /\ write[t].phase = "write" => write[t].key \in damaged'
    BY <2>1 DEF CutShort
  <2> QED
    BY <2>1, <2>2 DEF FileInv
<1>4. CASE Quiet
  BY <1>4 DEF Quiet, FileInv
<1> QED
  BY <1>1, <1>2, <1>3, <1>4, FileSteps

----------------------------------------------------------------------------
(* Blobs *)

\* The answers for a block are equally long.
EquallyLong == \A hash \in Hashes : \A u, v \in Served[hash] : Size[u] = Size[v]

\* The file of a block is no longer than they are.
SizeInv ==
  \A hash \in Hashes : objects[hash] # Missing =>
    \A v \in Served[hash] : objects[hash].size <= Size[v]

LEMMA BlobsFit ==
  ASSUME StoreTypeOK, PlaceInv, SizeInv
  PROVE  FitsInv(Hashes)
<1>1. \A t \in Threads : write[t].phase = "write" => objects[write[t].key] # Missing
  BY DEF StoreTypeOK
<1> QED
  BY <1>1, NoWritePhase DEF FitsInv, SizeInv, PlaceInv

LEMMA SizeStep ==
  ASSUME EquallyLong, StoreTypeOK, StoreStep, PlaceInv, SizeInv, kind = "file"
  PROVE  SizeInv'
<1>1. ASSUME NEW t \in Threads, Opens(t)
      PROVE  SizeInv'
  <2>1. write[t].key \in Keys
    BY <1>1, NoWritePhase, WriteType DEF Opens
  <2>2. /\ objects'[write[t].key].size = 0
        /\ \A key \in Keys : key # write[t].key => objects'[key] = objects[key]
    BY <1>1, <2>1 DEF Opens, StoreTypeOK, Plain
  <2>3. \A hash \in Hashes : hash \in Keys /\ \A v \in Served[hash] : Size[v] \in Nat
    BY KeyFacts, ValueFacts
  <2> QED
    BY <2>2, <2>3 DEF SizeInv
<1>2. ASSUME NEW t \in Threads, WriteFile(t)
      PROVE  SizeInv'
  <2>1. \A hash \in Hashes : hash \in Keys /\ \A v \in Served[hash] : Size[v] \in Nat
    BY KeyFacts, ValueFacts
  <2>2. ASSUME write[t].key \in Hashes, NEW v \in Served[write[t].key]
        PROVE  objects'[write[t].key].size <= Size[v]
    <3> DEFINE file  == objects[write[t].key]
               value == write[t].value
    <3>1. write[t].phase = "write" /\ file # Missing /\ file.size \in Nat
      BY <1>2, Written
    <3>2. value \in Served[write[t].key] /\ Size[value] = Size[v] /\ Size[value] \in Nat
      BY <2>1, <2>2, <3>1, NoWritePhase DEF PlaceInv, EquallyLong
    <3>3. file.size <= Size[value]
      BY <2>2, <3>1, <3>2 DEF SizeInv
    <3>4. \E v2 : \E n \in 0 .. Size[value] : objects'[write[t].key] = Over(file, v2, n)
      <4>1. Size[value] \in 0 .. Size[value]
        BY <3>2
      <4>2. \A n \in 0 .. Size[value] - 1 : n \in 0 .. Size[value]
        BY <3>2
      <4> QED
        BY <1>2, <4>1, <4>2, Written
    <3> QED
      BY <3>1, <3>2, <3>3, <3>4 DEF Over, Plain
  <2>3. \A hash \in Hashes : hash # write[t].key => objects'[hash] = objects[hash]
    BY <1>2, <2>1, Written
  <2> QED
    BY <2>2, <2>3 DEF SizeInv
<1>3. CASE UNCHANGED objects
  BY <1>3 DEF SizeInv
<1>4. ASSUME NEW p \in Processes, End(p)
      PROVE  UNCHANGED objects
  BY <1>4 DEF End
<1> QED
  BY <1>1, <1>2, <1>3, <1>4, FileSteps DEF Quiet

LEMMA KindStays ==
  ASSUME StoreTypeOK, StoreStep
  PROVE  kind' = kind
BY ObjectSteps DEF OpenFile, WriteFile, PutObject

\* The files of blocks, with any number of archivers that write them.
BlobsInv == kind = "file" => SizeInv /\ FileInv(Hashes)

LEMMA BlobsStep ==
  ASSUME EquallyLong, StoreTypeOK, StoreStep, PlaceInv, BlobsInv
  PROVE  BlobsInv'
BY KindStays, KeyFacts, BlobsFit, SizeStep, FileStep DEF BlobsInv

LEMMA ReadableStart == Init => LabelInv /\ BlobsInv /\ FileInv(Keys)
BY KeyFacts DEF Init, StoreInit, LabelInv, BlobsInv, SizeInv, FileInv

\* The part of ReadableAtRest that is about blobs.
BlobsReadable ==
  \A key \in Hashes, p \in Processes :
    Exists(key) /\ (kind = "s3" \/ AtRest(key)) => Read(p, key) \in Values

\* Any number of archivers may write the file of a block at the same time, and crash, or
\* fail halfway: once it is at rest, and was not cut short since it was last truncated, it
\* can be read.  This needs the node's answers for a block to be equally long: a shorter
\* one, written over a longer one that another has begun at the same time, leaves its end.
THEOREM BlobsAreReadable ==
  ASSUME EquallyLong
  PROVE  Spec => []BlobsReadable
<1>1. Init => TypeOK /\ PlaceInv /\ LabelInv /\ BlobsInv
  BY StartType, StoreStart, ReadableStart
<1>2. TypeOK /\ PlaceInv /\ LabelInv /\ BlobsInv /\ [Next]_vars =>
        (TypeOK /\ PlaceInv /\ LabelInv /\ BlobsInv)'
  BY StepType, PlaceStep, LabelStep, BlobsStep DEF TypeOK
<1>3. TypeOK /\ PlaceInv /\ LabelInv /\ BlobsInv => BlobsReadable
  <2> SUFFICES ASSUME TypeOK, LabelInv, BlobsInv, NEW key \in Hashes, NEW p \in Processes,
                      objects[key] # Missing, kind = "s3" \/ AtRest(key)
               PROVE  Read(p, key) \in Values
    BY DEF BlobsReadable, Exists
  <2>1. kind = "s3" \/ FileInv({key})
    BY DEF BlobsInv, FileInv, TypeOK, StoreTypeOK
  <2> QED
    BY <2>1, KeyFacts, ReadsValues DEF TypeOK
<1> QED
  BY <1>1, <1>2, <1>3, PTL DEF Spec

----------------------------------------------------------------------------
(* Created objects *)

\* While a created file is truncated, no other thread writes it, and it stays empty until
\* it is written, unless another had truncated it, and not written it, when it was
\* truncated.
LoneInv ==
  \A key \in Created \ shared : \A t \in Threads :
    write[t].phase = "write" /\ write[t].key = key =>
      /\ objects[key] = Plain(Garbage, 0)
      /\ \A u \in Threads : write[u].phase = "write" /\ write[u].key = key => u = t

LEMMA LoneStep ==
  ASSUME StoreTypeOK, StoreStep, LoneInv, kind = "file"
  PROVE  LoneInv'
<1>1. ASSUME NEW t \in Threads, Opens(t)
      PROVE  LoneInv'
  <2>1. write[t] # NoWrite /\ write[t] \in Writes
    BY <1>1, NoWritePhase, WriteType DEF Opens
  <2>2. /\ write'[t].key = write[t].key
        /\ \A u \in Threads : u # t => write'[u] = write[u]
        /\ objects'[write[t].key] = Plain(Garbage, 0)
        /\ \A key \in Keys : key # write[t].key => objects'[key] = objects[key]
    BY <1>1, <2>1 DEF Opens, StoreTypeOK, Writes
  <2>3. /\ \A key : key # write[t].key => (key \in shared' <=> key \in shared)
        /\ write[t].key \in Created \ shared' => ~Overlapped(t)
    BY <1>1 DEF Opens
  <2> QED
    BY <2>2, <2>3, KeyFacts DEF LoneInv, Overlapped
<1>2. ASSUME NEW t \in Threads, WriteFile(t)
      PROVE  LoneInv'
  <2>1. \A u \in Threads : write'[u].phase = "write" => u # t /\ write'[u] = write[u]
    BY <1>2, WriteObjects, EndWriteType, NoWritePhase
  <2>2. /\ write[t].phase = "write" /\ shared' = shared
        /\ \A key \in Keys : key # write[t].key => objects'[key] = objects[key]
    BY <1>2, Written DEF WriteFile
  <2> QED
    BY <2>1, <2>2, KeyFacts DEF LoneInv
<1>3. ASSUME NEW p \in Processes, End(p)
      PROVE  LoneInv'
  <2>1. /\ UNCHANGED <<objects, shared>>
        /\ \A t \in Threads : write'[t] \in {write[t], NoWrite}
    BY <1>3 DEF End
  <2> QED
    BY <2>1, NoWritePhase DEF LoneInv
<1>4. CASE Quiet
  BY <1>4 DEF Quiet, LoneInv
<1> QED
  BY <1>1, <1>2, <1>3, <1>4, FileSteps

LEMMA CreatedFit ==
  ASSUME StoreTypeOK, LoneInv, NEW key \in Created \ shared
  PROVE  FitsInv({key})
<1>1. ASSUME NEW t \in Threads, write[t].phase = "write", write[t].key = key
      PROVE  objects[key].size <= Size[write[t].value]
  <2>1. Size[write[t].value] \in Nat
    BY <1>1, NoWritePhase, WriteType, ValueFacts
  <2>2. objects[key].size = 0
    BY <1>1 DEF LoneInv, Plain
  <2> QED
    BY <2>1, <2>2
<1> QED
  BY <1>1 DEF FitsInv

\* The created files.
CreatedInv ==
  kind = "file" => LoneInv /\ \A key \in Created : key \in shared \/ FileInv({key})

LEMMA CreatedStep ==
  ASSUME StoreTypeOK, StoreStep, CreatedInv
  PROVE  CreatedInv'
<1> SUFFICES ASSUME kind = "file"
             PROVE  LoneInv' /\ \A key \in Created : key \in shared' \/ FileInv({key})'
  BY KindStays DEF CreatedInv
<1>1. ASSUME NEW key \in Created, key \notin shared
      PROVE  FileInv({key})'
  <2>1. {key} \in SUBSET Keys /\ FileInv({key})
    BY <1>1, KeyFacts DEF CreatedInv
  <2>2. FitsInv({key})
    BY <1>1, CreatedFit DEF CreatedInv
  <2> QED
    BY <2>1, <2>2, FileStep
<1>2. ASSUME NEW key \in Created, key \in shared, key \notin shared'
      PROVE  FileInv({key})'
  <2>1. PICK t \in Threads : Opens(t)
    <3>1. \A t \in Threads : WriteFile(t) => UNCHANGED shared
      BY DEF WriteFile
    <3>2. \A p \in Processes : End(p) => UNCHANGED shared
      BY DEF End
    <3> QED
      BY <1>2, <3>1, <3>2, FileSteps DEF Quiet
  <2>2. write[t].key = key
    BY <1>2, <2>1 DEF Opens
  <2>3. write'[t].phase = "write" /\ write'[t].key = key
    BY <2>1, <2>2, NoWritePhase, WriteType DEF Opens, StoreTypeOK, Writes
  <2> QED
    BY <2>3 DEF FileInv
<1> QED
  BY <1>1, <1>2, LoneStep DEF CreatedInv

\* ReadableAtRest for any number of archivers, APIs and starts at once, and whatever is
\* compressed, if the node's answers for a block are equally long (see BlobsAreReadable).
\* A created file is not covered once two have truncated it before either wrote it.
THEOREM RestIsReadable ==
  ASSUME EquallyLong
  PROVE  Spec => []ReadableAtRest
<1> DEFINE Inv == TypeOK /\ PlaceInv /\ LabelInv /\ BlobsInv /\ CreatedInv
<1>1. Init => Inv
  <2>1. Init => LoneInv
    BY NoWritePhase DEF Init, StoreInit, LoneInv
  <2> QED
    BY <2>1, StartType, StoreStart, ReadableStart, KeyFacts DEF CreatedInv, FileInv
<1>2. Inv /\ [Next]_vars => Inv'
  BY StepType, PlaceStep, LabelStep, BlobsStep, CreatedStep DEF TypeOK
<1>3. Inv => ReadableAtRest
  <2> SUFFICES ASSUME Inv, NEW key \in Keys, NEW p \in Processes,
                      objects[key] # Missing, kind = "s3" \/ AtRest(key)
               PROVE  Read(p, key) \in Values
    BY DEF ReadableAtRest, Exists
  <2>1. kind = "s3" \/ FileInv({key})
    BY DEF BlobsInv, CreatedInv, FileInv, TypeOK, StoreTypeOK, Keys, AtRest
  <2> QED
    BY <2>1, ReadsValues DEF TypeOK
<1> QED
  BY <1>1, <1>2, <1>3, PTL DEF Spec

----------------------------------------------------------------------------
(* Answers *)

\* How a request changes: it goes on, or it ends: before it comes to the data store, when
\* nothing is found there, or with what was read.  Or its process has ended.
LEMMA AnswerSteps ==
  ASSUME TypeOK, [Next]_vars, NEW p \in Readers, request'[p] # request[p]
  PROVE  \/ request'[p].stage # "done"
         \/ /\ request[p] \in Requests /\ request[p].stage = "resolve"
            /\ \E status \in {400, 404, 500} : request'[p] = Ends(request[p], status, <<>>)
         \/ /\ request[p] \in Requests /\ request[p].stage \in {"read", "body"}
            /\ \/ /\ objects[request[p].root] = Missing
                  /\ request'[p] = Ends(request[p], 404, <<>>)
               \/ request'[p] = Ends(request[p], 500, <<>>)
               \/ \E v \in Blobs :
                    request'[p] = Ends(request[p], FilterBlobs(Index[v], request[p].query).status,
                                                   FilterBlobs(Index[v], request[p].query).body)
<1>1. CASE StoreNext /\ Lost /\ UNCHANGED found
  BY <1>1 DEF Lost, NoRequest
<1>2. ASSUME NEW q \in Readers, NEW asked \in Asked, Receive(q, asked[1], asked[2])
      PROVE  request'[p].stage # "done"
  BY <1>2 DEF Receive, TypeOK
<1>3. ASSUME NEW q \in Readers, NEW status, NEW body, Respond(q, status, body)
      PROVE  p = q /\ request'[p] = Ends(request[p], status, body)
  BY <1>3 DEF Respond, Ends, TypeOK
<1>4. ASSUME NEW q \in Readers, ToBeaconBlockHash(q)
      PROVE  \/ request'[p].stage # "done"
             \/ /\ request[p] \in Requests /\ request[p].stage = "resolve"
                /\ \E status \in {400, 404, 500} : request'[p] = Ends(request[p], status, <<>>)
  <2>1. request[q] \in Requests /\ request[q].stage = "resolve"
    BY <1>4, AtType DEF ToBeaconBlockHash, At
  <2>2. ASSUME NEW root \in Hashes, request' = [request EXCEPT ![q] = GoesOn(request[q], root)]
        PROVE  request'[p].stage # "done"
    <3>1. GoesOn(request[q], root).stage = "read"
      BY <2>1, RequestTypes
    <3> QED
      BY <2>2, <3>1 DEF TypeOK
  <2>3. ASSUME NEW status \in {400, 404, 500}, Respond(q, status, <<>>)
        PROVE  p = q /\ request'[p] = Ends(request[p], status, <<>>)
    BY <1>3, <2>3
  <2>4. CASE Resolves(q)
    BY <2>2, <2>4, Zenon DEF Resolves
  <2>5. CASE Refuses(q)
    BY <2>1, <2>3, <2>5 DEF Refuses
  <2> QED
    BY <1>4, <2>4, <2>5, HandlerSteps
<1>5. ASSUME NEW q \in Readers, StatBlob(q)
      PROVE  \/ request'[p].stage # "done"
             \/ /\ request[p] \in Requests /\ request[p].stage = "read"
                /\ \/ /\ objects[request[p].root] = Missing
                      /\ request'[p] = Ends(request[p], 404, <<>>)
                   \/ request'[p] = Ends(request[p], 500, <<>>)
  <2>1. /\ request[q] \in Requests /\ request[q].stage = "read" /\ request[q].root \in Hashes
    BY <1>5, AtType DEF StatBlob, At
  <2>2. ASSUME objects[request[q].root] # Missing,
               request' = [request EXCEPT ![q] = Finds(request[q], objects[request[q].root].header)]
        PROVE  request'[p].stage # "done"
    <3>1. objects[request[q].root].header \in Encodings
      BY <2>1, <2>2, KeyFacts DEF TypeOK, StoreTypeOK, Objects
    <3>2. Finds(request[q], objects[request[q].root].header).stage = "body"
      BY <2>1, <3>1, RequestTypes
    <3> QED
      BY <2>2, <3>2 DEF TypeOK
  <2> QED
    BY <1>3, <1>5, <2>1, <2>2, HandlerSteps
<1>6. ASSUME NEW q \in Readers, ReadBody(q)
      PROVE  /\ request[p] \in Requests /\ request[p].stage = "body"
             /\ \/ request'[p] = Ends(request[p], 500, <<>>)
                \/ \E v \in Blobs :
                     request'[p] = Ends(request[p], FilterBlobs(Index[v], request[p].query).status,
                                                    FilterBlobs(Index[v], request[p].query).body)
  <2>1. request[q] \in Requests /\ request[q].stage = "body"
    BY <1>6, AtType DEF ReadBody, At
  <2> QED
    BY <1>3, <1>6, <2>1, HandlerSteps
<1>7. CASE UNCHANGED vars
  BY <1>7 DEF vars
<1> QED
  BY <1>1, <1>2, <1>4, <1>5, <1>6, <1>7 DEF Next

\* What was answered is stored, and a root is known only once it is resolved.
FoundInv ==
  /\ \A hash \in found : objects[hash] # Missing
  /\ \A p \in Readers : request[p].stage = "resolve" => request[p].root = NoRoot

LEMMA FoundStep ==
  ASSUME TypeOK, [Next]_vars, FoundInv
  PROVE  FoundInv'
<1>1. StoreTypeOK /\ StoreStep /\ found \subseteq Keys
  BY StepType, KeyFacts DEF TypeOK
<1>2. \A key \in Keys : objects[key] # Missing => objects'[key] # Missing
  BY <1>1, ObjectsStay
<1>3. \A hash \in found' : hash \in found \/ (hash \in Hashes /\ objects[hash] # Missing)
  <2>1. ASSUME NEW p \in Readers, ReadBody(p),
               Decoded(p, request[p].root, request[p].header) \in Blobs
        PROVE  request[p].root \in Hashes /\ objects[request[p].root] # Missing
    <3>1. request[p].root \in Hashes
      BY <2>1, AtType DEF ReadBody
    <3> QED
      BY <1>1, <2>1, <3>1, KeyFacts, ReadFacts, ValueFacts
  <2>2. ASSUME NEW p \in Readers, ReadBody(p)
        PROVE  \/ UNCHANGED found
               \/ /\ Decoded(p, request[p].root, request[p].header) \in Blobs
                  /\ found' = found \cup {request[p].root}
    BY <2>2 DEF ReadBody
  <2> QED
    BY <2>1, <2>2 DEF Next, Receive, ToBeaconBlockHash, StatBlob, vars
<1>4. ASSUME NEW p \in Readers, request'[p].stage = "resolve"
      PROVE  request'[p].root = NoRoot
  <2>1. ASSUME NEW q \in Readers, NEW asked \in Asked, Receive(q, asked[1], asked[2])
        PROVE  request'[p].root = NoRoot
    BY <1>4, <2>1 DEF Receive, TypeOK, FoundInv
  <2>2. ASSUME NEW q \in Readers, ToBeaconBlockHash(q) \/ StatBlob(q) \/ ReadBody(q)
        PROVE  request'[p] = request[p]
    <3>1. request[q] \in Requests
      BY <2>2, AtType DEF ToBeaconBlockHash, StatBlob, ReadBody
    <3>2. request'[q].stage # "resolve" /\ \A r \in Readers : r # q => request'[r] = request[r]
      <4>2. ASSUME NEW status, NEW body, Respond(q, status, body)
            PROVE  request'[q].stage # "resolve" /\ \A r \in Readers : r # q => request'[r] = request[r]
        <5>1. request' = [request EXCEPT ![q] = Ends(request[q], status, body)]
          BY <4>2 DEF Respond, Ends
        <5>2. Ends(request[q], status, body).stage = "done"
          BY <3>1 DEF Ends, Requests
        <5> QED
          BY <5>1, <5>2 DEF TypeOK
      <4>3. ASSUME NEW root \in Hashes,
                   request' = [request EXCEPT ![q] = GoesOn(request[q], root)]
            PROVE  request'[q].stage # "resolve" /\ \A r \in Readers : r # q => request'[r] = request[r]
        <5>1. GoesOn(request[q], root).stage = "read"
          BY <3>1, RequestTypes
        <5> QED
          BY <4>3, <5>1 DEF TypeOK
      <4>4. CASE Resolves(q)
        BY <4>3, <4>4, Zenon DEF Resolves
      <4>5. CASE Refuses(q)
        BY <4>2, <4>5 DEF Refuses
      <4>6. CASE ReadBody(q)
        BY <4>2, <4>6, HandlerSteps
      <4>7. CASE StatBlob(q)
        <5>1. ASSUME objects[request[q].root] # Missing,
                     request' = [request EXCEPT ![q] =
                                  Finds(request[q], objects[request[q].root].header)]
              PROVE  /\ request'[q].stage # "resolve"
                     /\ \A r \in Readers : r # q => request'[r] = request[r]
          <6>1. Finds(request[q], objects[request[q].root].header).stage = "body"
            BY <3>1 DEF Finds, Requests
          <6> QED
            BY <5>1, <6>1 DEF TypeOK
        <5> QED
          BY <4>2, <4>7, <5>1, HandlerSteps
      <4> QED
        BY <2>2, <4>4, <4>5, <4>6, <4>7, HandlerSteps
    <3> QED
      BY <1>4, <3>2
  <2>3. CASE Lost \/ UNCHANGED vars
    BY <1>4, <2>3 DEF Lost, vars, NoRequest, FoundInv
  <2> QED
    BY <1>4, <2>1, <2>2, <2>3 DEF Next, FoundInv
<1> QED
  BY <1>1, <1>2, <1>3, <1>4, KeyFacts DEF FoundInv

\* NeverForgets for any number of archivers, APIs and blocks, whatever the configuration:
\* an object that an API has once read stays, truncated at worst, and an object that is
\* there is not answered by 404.
THEOREM NothingIsForgotten == Spec => NeverForgets
<1>1. Init => TypeOK /\ FoundInv
  BY StartType DEF Init, FoundInv, NoRequest
<1>2. TypeOK /\ FoundInv /\ [Next]_vars => (TypeOK /\ FoundInv)'
  BY StepType, FoundStep
<1>3. TypeOK /\ FoundInv /\ [Next]_vars =>
        [\A p \in Readers :
           request'[p] # request[p] /\ Answered(p, 404)' => request'[p].root \notin found]_vars
  <2> SUFFICES ASSUME TypeOK, FoundInv, [Next]_vars, NEW p \in Readers,
                      request'[p] # request[p], request'[p].stage = "done",
                      request'[p].status = 404
               PROVE  request'[p].root \notin found
    BY DEF Answered
  <2>1. NoRoot \notin found
    BY BlobAPIAssumption DEF TypeOK
  <2>2. <<>> \in Bodies /\ 404 \in Statuses /\ 500 \in Statuses
        /\ {400, 404, 500} \subseteq Statuses
    BY BodyTypes DEF Statuses
  <2>3. ASSUME NEW status \in Statuses, NEW body \in Bodies, request[p] \in Requests,
               request'[p] = Ends(request[p], status, body)
        PROVE  status = 404 /\ request'[p].root = request[p].root
    BY <2>3, RequestTypes
  <2>4. \A v \in Blobs : FilterBlobs(Index[v], request[p].query).status # 404
    BY DEF FilterBlobs
  <2>5. CASE /\ request[p] \in Requests /\ request[p].stage = "resolve"
             /\ \E status \in {400, 404, 500} : request'[p] = Ends(request[p], status, <<>>)
    BY <2>1, <2>2, <2>3, <2>5 DEF FoundInv
  <2>6. CASE /\ request[p] \in Requests /\ objects[request[p].root] = Missing
             /\ request'[p] = Ends(request[p], 404, <<>>)
    BY <2>2, <2>3, <2>6 DEF FoundInv
  <2>7. ~(request[p] \in Requests /\ request'[p] = Ends(request[p], 500, <<>>))
    BY <2>2, <2>3
  <2>8. ~(request[p] \in Requests
          /\ \E v \in Blobs :
               request'[p] = Ends(request[p], FilterBlobs(Index[v], request[p].query).status,
                                              FilterBlobs(Index[v], request[p].query).body))
    BY <2>3, <2>4, FilterType
  <2> QED
    BY <2>5, <2>6, <2>7, <2>8, AnswerSteps
<1> QED
  BY <1>1, <1>2, <1>3, PTL DEF Spec, NeverForgets

\* The sidecars of an object are those of a block, numbered from zero, in any order.
Numbered ==
  \A v \in Blobs :
    /\ {Index[v][i] : i \in DOMAIN Index[v]} = 0 .. Len(Index[v]) - 1
    /\ \A i, j \in DOMAIN Index[v] : Index[v][i] = Index[v][j] => i = j

\* What AnswersQuery says of an answer.
Selects(body, query) ==
  /\ {body[i] : i \in DOMAIN body} = {Indices(query)[i] : i \in DOMAIN Indices(query)}
  /\ \A i, j \in DOMAIN body : body[i] = body[j] => i = j

Fulfils(reply, query) == query # <<>> /\ reply.status = 200 => Selects(reply.body, query)

LEMMA FilterFacts ==
  ASSUME Numbered, NEW v \in Blobs, NEW query
  PROVE  Fulfils(FilterBlobs(Index[v], query), query)
<1> SUFFICES ASSUME query # <<>>, FilterBlobs(Index[v], query).status = 200
             PROVE  Selects(FilterBlobs(Index[v], query).body, query)
  BY DEF Fulfils
<1> DEFINE indexSet == {Indices(query)[i] : i \in DOMAIN Indices(query)}
           filtered == {i \in DOMAIN Index[v] : Index[v][i] \in indexSet}
           body     == [i \in filtered |-> Index[v][i]]
<1>1. /\ \A n \in indexSet : ValidIndex(n, Index[v])
      /\ FilterBlobs(Index[v], query).body = body
  BY DEF FilterBlobs
<1> HIDE DEF indexSet
<1>2. \A n \in indexSet : \E i \in filtered : body[i] = n
  <2>1. Index[v] \in Seq(Nat) /\ Len(Index[v]) \in Nat
    BY BlobAPIAssumption
  <2>2. {Index[v][i] : i \in DOMAIN Index[v]} = 0 .. Len(Index[v]) - 1
    BY DEF Numbered
  <2>3. \A n \in indexSet : n \in 0 .. Len(Index[v]) - 1
    BY <1>1, <2>1 DEF ValidIndex
  <2> QED
    BY <2>2, <2>3
<1>3. \A i, j \in filtered : body[i] = body[j] => i = j
  BY DEF Numbered
<1>4. DOMAIN body = filtered /\ \A i \in filtered : body[i] \in indexSet
  OBVIOUS
<1> HIDE DEF filtered, body
<1>5. {body[i] : i \in DOMAIN body} = indexSet
  BY <1>2, <1>4
<1> QED
  BY <1>1, <1>3, <1>4, <1>5 DEF Selects, indexSet

\* AnswersQuery for any sidecars that are numbered from zero, in any order in the object:
\* then what passes the check against their number is the Index field of one of them.
THEOREM QueriesAreAnswered ==
  ASSUME Numbered
  PROVE  Spec => []AnswersQuery
<1>1. Init => TypeOK /\ AnswersQuery
  BY StartType DEF Init, AnswersQuery, Answered, NoRequest
<1>2. TypeOK /\ AnswersQuery /\ [Next]_vars => (TypeOK /\ AnswersQuery)'
  <2> SUFFICES ASSUME TypeOK, AnswersQuery, [Next]_vars, NEW p \in Readers,
                      request'[p].stage = "done", request'[p].status = 200,
                      request'[p].query # <<>>
               PROVE  Selects(request'[p].body, request'[p].query)
    BY StepType DEF AnswersQuery, Answered, Selects, Indices
  <2>1. CASE request'[p] = request[p]
    <3>1. Answered(p, 200) /\ request[p].query # <<>>
      BY <2>1 DEF Answered
    <3>2. Selects(request[p].body, request[p].query)
      BY <3>1 DEF AnswersQuery, Selects
    <3> QED
      BY <2>1, <3>2
  <2>2. CASE request'[p] # request[p]
    <3>1. /\ <<>> \in Bodies /\ {400, 404, 500} \subseteq Statuses
          /\ 404 \in Statuses /\ 500 \in Statuses
      BY BodyTypes DEF Statuses
    <3>2. ASSUME NEW status \in Statuses, NEW body \in Bodies, request[p] \in Requests,
                 request'[p] = Ends(request[p], status, body)
          PROVE  status = 200 /\ request'[p].query = request[p].query /\ request'[p].body = body
      BY <3>2, RequestTypes
    <3>3. PICK v \in Blobs :
            /\ request[p] \in Requests
            /\ request'[p] = Ends(request[p], FilterBlobs(Index[v], request[p].query).status,
                                              FilterBlobs(Index[v], request[p].query).body)
      BY <2>2, <3>1, <3>2, AnswerSteps
    <3>4. /\ FilterBlobs(Index[v], request[p].query).status = 200
          /\ request'[p].query = request[p].query
          /\ request'[p].body = FilterBlobs(Index[v], request[p].query).body
      <4>1. /\ FilterBlobs(Index[v], request[p].query).status \in Statuses
            /\ FilterBlobs(Index[v], request[p].query).body \in Bodies
        BY FilterType
      <4> QED
        BY <3>2, <3>3, <4>1
    <3>5. Selects(FilterBlobs(Index[v], request[p].query).body, request[p].query)
      <4>1. Fulfils(FilterBlobs(Index[v], request[p].query), request[p].query)
        BY <3>3, FilterFacts
      <4> QED
        BY <3>4, <4>1 DEF Fulfils
    <3> QED
      BY <3>4, <3>5
  <2> QED
    BY <2>1, <2>2
<1> QED
  BY <1>1, <1>2, PTL DEF Spec
=============================================================================
