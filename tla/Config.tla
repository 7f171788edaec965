------------------------------- MODULE Config -------------------------------
(***************************************************************************)
(* What the three commands read from their flags, and what the checks of   *)
(* their configurations refuse.  A flag has a text, a number or, for the   *)
(* formats, a sequence of texts; the empty text is Go's zero value.  Flags *)
(* that no check looks at (https, compression, paths, logging) are left    *)
(* out.                                                                    *)
(***************************************************************************)
EXTENDS Integers, Sequences

CONSTANTS
  Durations,  \* Durations[t]: the sign of the duration that the text t is; a
              \* text that is no duration is not in its domain
  Hashes      \* the texts in which geth.HexToHash finds a hash other than 0: a
              \* text that is hexadecimal up to some place counts for that much

ASSUME DurationsAssumption == \A t \in DOMAIN Durations : Durations[t] \in {-1, 0, 1}

Services == {"archiver", "api", "validator"}

----------------------------------------------------------------------------
(* Reading: the flags and their defaults *)

CommonRequired == {"l1-beacon-http", "data-store"}

ArchiverRequired  == CommonRequired \cup {"archiver-origin-block"}
ValidatorRequired == {"l1-beacon-http", "blob-api-http", "num-blocks", "validate-formats"}

\* The flags without which the parser of the flags refuses.
Required(service) ==
  CASE service = "archiver"  -> ArchiverRequired
    [] service = "api"       -> CommonRequired
    [] service = "validator" -> ValidatorRequired

\* The value of an optional flag that was not given.
Default(name) ==
  CASE name \in {"l1-beacon-client-timeout", "beacon-client-timeout"} -> "10s"
    [] name = "archiver-poll-interval"                                -> "6s"
    [] name \in {"archiver-listen-address", "api-listen-address"}     -> "0.0.0.0:8000"
    [] OTHER                                                          -> ""

Value(flags, name) == IF name \in DOMAIN flags THEN flags[name] ELSE Default(name)

\* time.ParseDuration, of which the error is dropped: what is no duration is 0.
Duration(text) == IF text \in DOMAIN Durations THEN Durations[text] ELSE 0

\* geth.HexToHash, which drops its error too: with no digit it is the hash 0.
Hash(text) == IF text \in Hashes THEN text ELSE ""

ToDataStorage(text) == IF text \in {"s3", "file"} THEN text ELSE "unknown"

ToS3CredentialType(text) == IF text \in {"static", "iam"} THEN text ELSE "unknown"

S3Config(flags) ==
  [endpoint   |-> Value(flags, "s3-endpoint"),
   bucket     |-> Value(flags, "s3-bucket"),
   credential |-> ToS3CredentialType(Value(flags, "s3-credential-type")),
   accessKey  |-> Value(flags, "s3-access-key"),
   secretKey  |-> Value(flags, "s3-secret-access-key")]

StorageConfig(flags) ==
  [type      |-> ToDataStorage(Value(flags, "data-store")),
   s3        |-> S3Config(flags),
   directory |-> Value(flags, "file-directory")]

BeaconConfig(url, timeout) == [url |-> url, timeout |-> Duration(timeout)]

NewBeaconConfig(flags) ==
  BeaconConfig(Value(flags, "l1-beacon-http"), Value(flags, "l1-beacon-client-timeout"))

ArchiverConfig(flags) ==
  [beacon  |-> NewBeaconConfig(flags),
   storage |-> StorageConfig(flags),
   poll    |-> Duration(Value(flags, "archiver-poll-interval")),
   origin  |-> Hash(Value(flags, "archiver-origin-block")),
   listen  |-> Value(flags, "archiver-listen-address")]

APIConfig(flags) ==
  [beacon  |-> NewBeaconConfig(flags),
   storage |-> StorageConfig(flags),
   listen  |-> Value(flags, "api-listen-address")]

ValidatorConfig(flags) ==
  LET timeout == Value(flags, "beacon-client-timeout") IN
  [beacon    |-> BeaconConfig(Value(flags, "l1-beacon-http"), timeout),
   blob      |-> BeaconConfig(Value(flags, "blob-api-http"), timeout),
   numBlocks |-> flags["num-blocks"],
   formats   |-> flags["validate-formats"]]

ReadConfig(service, flags) ==
  CASE service = "archiver"  -> ArchiverConfig(flags)
    [] service = "api"       -> APIConfig(flags)
    [] service = "validator" -> ValidatorConfig(flags)

----------------------------------------------------------------------------
(* Checking *)

S3Check(c) ==
  /\ c.endpoint # ""
  /\ c.credential # "unknown"
  /\ c.credential = "static" => c.accessKey # "" /\ c.secretKey # ""
  /\ c.bucket # ""

\* Variant, to be told apart: the settings of S3 are checked for it alone, and
\* any other type passes.
StorageCheckUntyped(c) == c.type = "s3" => S3Check(c.s3)

StorageCheck(c) ==
  /\ c.type # "unknown"
  /\ c.type = "s3" => S3Check(c.s3)
  /\ c.type = "file" => c.directory # ""

BeaconCheck(c) == c.url # "" /\ c.timeout # 0

ArchiverCheck(c) ==
  /\ StorageCheck(c.storage)
  /\ BeaconCheck(c.beacon)
  /\ c.poll # 0
  /\ c.origin # ""
  /\ c.listen # ""

APICheck(c) ==
  /\ StorageCheck(c.storage)
  /\ BeaconCheck(c.beacon)
  /\ c.listen # ""

\* The formats are some of the two, each at most once.
FormatsCheck(formats) ==
  /\ Len(formats) \in 1 .. 2
  /\ \A i \in DOMAIN formats :
       /\ formats[i] \in {"json", "ssz"}
       /\ \A j \in DOMAIN formats : formats[i] = formats[j] => i = j

ValidatorCheck(c) ==
  /\ BeaconCheck(c.beacon)
  /\ BeaconCheck(c.blob)
  /\ c.numBlocks > 0
  /\ FormatsCheck(c.formats)

Check(service, c) ==
  CASE service = "archiver"  -> ArchiverCheck(c)
    [] service = "api"       -> APICheck(c)
    [] service = "validator" -> ValidatorCheck(c)
=============================================================================
