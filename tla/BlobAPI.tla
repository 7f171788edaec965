------------------------------ MODULE BlobAPI ------------------------------
(***************************************************************************)
(* The Blob API: a process that answers requests for the sidecars of a     *)
(* block from the data store the archivers write to (blobSidecarHandler).  *)
(* A handler asks the beacon node for the root of the block                *)
(* (toBeaconBlockHash) and then reads the data store: it finds the object  *)
(* and gets its bytes (ReadBlob), while archivers write.  Between two      *)
(* requests the head may have moved anywhere, and an object been replaced. *)
(***************************************************************************)
EXTENDS BeaconChain, DataStore, Sequences

CONSTANTS
  NoRoot,   \* no root was found for the request
  Bad,      \* an id, or an index, that cannot be parsed
  Asked,    \* the requests, each an id (a root, a slot, HeadId or Bad) and the
            \* values of its "indices" parameters, each split at commas
  Index     \* Index[v]: the Index fields of the sidecars v, in their order

ASSUME BlobAPIAssumption ==
  /\ Blocks \subseteq Hashes
  /\ Asked \subseteq (Hashes \cup Nat \cup {HeadId, Bad}) \X Seq(Seq(Nat \cup {Bad}))
  /\ Bad \notin Hashes \cup Nat \cup {HeadId}
  /\ NoRoot \notin Hashes
  /\ Index \in [Blobs -> Seq(Nat)]

VARIABLES
  request,  \* request[p]: the request that API process p answers, or answered
  found     \* history: the roots of which the API has answered with sidecars

vars == <<storeVars, request, found>>

\* A sidecar of an answer is at the place that it has in the object.
Places == UNION {DOMAIN Index[v] : v \in Blobs}
Fields == UNION {{Index[v][i] : i \in DOMAIN Index[v]} : v \in Blobs}
Bodies == UNION {[S -> Fields] : S \in SUBSET Places}

Requests == [stage  : {"resolve", "read", "body", "done"},
             id     : Hashes \cup Nat \cup {HeadId, Bad},
             query  : Seq(Seq(Nat \cup {Bad})),
             root   : Hashes \cup {NoRoot},
             header : Encodings,
             status : {0, 200, 400, 404, 500},
             body   : Bodies]

NoRequest == [stage |-> "idle"]

TypeOK ==
  /\ StoreTypeOK
  /\ request \in [Readers -> Requests \cup {NoRequest}]
  /\ \A p \in Readers : request[p].stage \in {"read", "body"} => request[p].root \in Hashes
  /\ \A p \in Readers : request[p].stage = "done" => request[p].status # 0
  /\ found \subseteq Hashes

Init ==
  /\ StoreInit
  /\ request = [p \in Readers |-> NoRequest]
  /\ found = {}

----------------------------------------------------------------------------

Respond(p, status, body) ==
  request' = [request EXCEPT ![p] = [@ EXCEPT !.stage = "done", !.header = "identity",
                                             !.status = status, !.body = body]]

\* The handler of p is at this stage; what it does changes no object.
At(p, label) ==
  /\ stage[p] = "up"
  /\ request[p].stage = label
  /\ UNCHANGED <<kind, objects, stage, loaded, write, crashes, damaged, shared, present>>

Receive(p, id, query) ==
  /\ \/ At(p, "idle")
     \/ At(p, "done")
  /\ request' = [request EXCEPT ![p] = [stage |-> "resolve", id |-> id, query |-> query,
                                        root |-> NoRoot, header |-> "identity", status |-> 0,
                                        body |-> <<>>]]
  /\ UNCHANGED <<errors, found>>

\* Variant, to be told apart: the beacon node's 404 is not told from a header.
ToBeaconBlockHashUnchecked(p) ==
  /\ At(p, "resolve")
  /\ request' = [request EXCEPT ![p] = [@ EXCEPT !.stage = "read"]]
  /\ UNCHANGED <<errors, found>>

\* Only an id that is no root is resolved by the beacon node.
ToBeaconBlockHash(p) ==
  LET id       == request[p].id
      Roots(h) == IF id \in Hashes THEN {id} ELSE Resolve(id, h)
  IN
  /\ At(p, "resolve")
  /\ \/ /\ id = Bad
        /\ Respond(p, 400, <<>>)
        /\ UNCHANGED errors
     \/ /\ id # Bad
        /\ \E h \in Heads : \E root \in Roots(h) :
             request' = [request EXCEPT ![p] = [@ EXCEPT !.stage = "read", !.root = root]]
        /\ UNCHANGED errors
     \/ /\ id # Bad
        /\ \E h \in Heads : Roots(h) = {}
        /\ Respond(p, 404, <<>>)
        /\ UNCHANGED errors
     \/ /\ id \notin Hashes \cup {Bad}
        /\ Fail
        /\ Respond(p, 500, <<>>)
  /\ UNCHANGED found

\* A single parameter is a list; of several, each is one index.
Indices(query) ==
  IF Len(query) = 1 THEN query[1]
  ELSE [i \in DOMAIN query |-> IF Len(query[i]) = 1 THEN query[i][1] ELSE Bad]

\* Variant, to be told apart: the number of sidecars passes for an index.
ValidIndexUpTo(n, sidecars) == n \in Nat /\ n <= Len(sidecars)

\* An index is compared with the number of sidecars...
ValidIndex(n, sidecars) == n \in Nat /\ n < Len(sidecars)

\* ...and the sidecars are selected by their Index fields.
FilterBlobs(sidecars, query) ==
  LET indices  == Indices(query)
      indexSet == {indices[i] : i \in DOMAIN indices}
      filtered == {i \in DOMAIN sidecars : sidecars[i] \in indexSet}
  IN
  IF query = <<>> THEN [status |-> 200, body |-> sidecars]
  ELSE IF \A n \in indexSet : ValidIndex(n, sidecars)
  THEN [status |-> 200, body |-> [i \in filtered |-> sidecars[i]]]
  ELSE [status |-> 400, body |-> <<>>]

\* The object is found, and what it says of its encoding is kept for its bytes.
StatBlob(p) ==
  LET root == request[p].root IN
  /\ At(p, "read")
  /\ \/ /\ ~Exists(root)
        /\ Respond(p, 404, <<>>)
        /\ UNCHANGED errors
     \/ /\ Exists(root)
        /\ request' = [request EXCEPT ![p] = [@ EXCEPT !.stage = "body",
                                                      !.header = objects[root].header]]
        /\ UNCHANGED errors
     \/ /\ Fail
        /\ Respond(p, 500, <<>>)
  /\ UNCHANGED found

\* The bytes are those that are stored by now.  Reading them may fail, and does
\* when the S3 client refuses an object that was replaced since it was found.
ReadBody(p) ==
  LET root     == request[p].root
      result   == Decoded(p, root, request[p].header)
      filtered == FilterBlobs(Index[result], request[p].query)
  IN
  /\ At(p, "body")
  /\ \/ /\ Respond(p, 500, <<>>)
        /\ UNCHANGED found
     \/ /\ result \in Blobs
        /\ Respond(p, filtered.status, filtered.body)
        /\ found' = IF filtered.status = 200 THEN found \cup {root} ELSE found
  /\ UNCHANGED errors

\* Requests end with the process that answers them.
Lost == request' = [p \in Readers |-> IF stage'[p] = "up" THEN request[p] ELSE NoRequest]

Next ==
  \/ StoreNext /\ Lost /\ UNCHANGED found
  \/ \E p \in Readers :
       \/ \E asked \in Asked : Receive(p, asked[1], asked[2])
       \/ ToBeaconBlockHash(p) \/ StatBlob(p) \/ ReadBody(p)

Spec == Init /\ [][Next]_vars

----------------------------------------------------------------------------

Answered(p, status) == request[p].stage = "done" /\ request[p].status = status

\* Once an API has answered with a block's sidecars, none answers again that the
\* block is not found, though archivers rewrite the object under it, and crash doing
\* so, and APIs restart.  (It may answer with 500.)  Only a
\* 404 of the beacon node's, for which there is no root, is not covered.
NeverForgets ==
  [][\A p \in Readers :
       request'[p] # request[p] /\ Answered(p, 404)' => request'[p].root \notin found]_vars

\* An answer has every sidecar that was asked for, each one once and no others:
\* though the indices are checked against the number of sidecars and selected
\* by their Index fields.
AnswersQuery ==
  \A p \in Readers :
    LET body    == request[p].body
        indices == Indices(request[p].query)
    IN
    Answered(p, 200) /\ request[p].query # <<>> =>
      /\ {body[i] : i \in DOMAIN body} = {indices[i] : i \in DOMAIN indices}
      /\ \A i, j \in DOMAIN body : body[i] = body[j] => i = j

=============================================================================
