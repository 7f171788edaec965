---------------------------- MODULE MCLifecycle -----------------------------
(* Flags for model-checking Lifecycle: those of a usable setup, of which one or *)
(* two are left out or given another value.                                     *)
EXTENDS Lifecycle, TLC

CONSTANT Changes  \* how many flags are changed

Signs == "10s" :> 1 @@ "6s" :> 1 @@ "0s" :> 0 @@ "-6s" :> -1
Known == {"0x01"}

OnS3   == "data-store" :> "s3" @@ "s3-endpoint" :> "host" @@ "s3-bucket" :> "blobs"
OnKeys == OnS3 @@ "s3-credential-type" :> "static" @@ "s3-access-key" :> "key"
               @@ "s3-secret-access-key" :> "secret"
OnIAM  == OnS3 @@ "s3-credential-type" :> "iam"
OnFile == "data-store" :> "file" @@ "file-directory" :> "dir"

Stores == {OnKeys, OnIAM, OnFile}
Node   == "l1-beacon-http" :> "url" @@ "l1-beacon-client-timeout" :> "10s"

Usable ==
  [s \in Services |->
    CASE s = "archiver" ->
           {Node @@ d @@ "archiver-origin-block" :> "0x01" @@ "archiver-poll-interval" :> "6s"
              @@ "archiver-listen-address" :> "addr" : d \in Stores}
      [] s = "api" -> {Node @@ d @@ "api-listen-address" :> "addr" : d \in Stores}
      [] s = "validator" ->
           {"l1-beacon-http" :> "url" @@ "blob-api-http" :> "url" @@ "num-blocks" :> 600
              @@ "beacon-client-timeout" :> "10s" @@ "validate-formats" :> <<"json", "ssz">>}]

\* The values that a flag is tried with.
Tries(name) ==
  CASE name = "data-store"         -> {"", "s3", "file", "S3"}
    [] name = "s3-credential-type" -> {"", "static", "iam"}
    [] name \in {"l1-beacon-client-timeout", "beacon-client-timeout", "archiver-poll-interval"}
         -> {"", "0s", "-6s", "soon"}
    [] name = "num-blocks"         -> {-1, 0, 1}
    [] name = "validate-formats"   ->
         {<<"">>, <<"json">>, <<"ssz", "ssz">>, <<"ssz", "json">>, <<"json", "ssz", "xml">>}
    [] OTHER                       -> {""}

Without(f, name) == [n \in DOMAIN f \ {name} |-> f[n]]

Changed(F) ==
  F \cup UNION {{Without(f, n) : n \in DOMAIN f} : f \in F}
    \cup UNION {UNION {{n :> v @@ f : v \in Tries(n)} : n \in DOMAIN f} : f \in F}

Tried == [s \in Services |-> IF Changes = 1 THEN Changed(Usable[s])
                                            ELSE Changed(Changed(Usable[s]))]
=============================================================================
