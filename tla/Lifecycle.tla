----------------------------- MODULE Lifecycle ------------------------------
(***************************************************************************)
(* A process of one of the three commands, from its flags to its exit: the *)
(* configuration is read and checked, the clients are opened, the service  *)
(* is started, and stopped when the application's context is done, that is *)
(* after an interrupt or when the validator has finished.  The order is    *)
(* op-service's LifecycleCmd: Start runs to its end before the context is  *)
(* waited for, an error of the setup or of Start ends the process without  *)
(* Stop, and an interrupt during Stop makes Stop's context done.           *)
(*                                                                         *)
(* What the archiver does between Start's steps is Archiver's, and how the *)
(* lock is waited for is StorageLock's.  Stop is called once, so that the  *)
(* services' stopped flag never refuses.                                   *)
(***************************************************************************)
EXTENDS Config, FiniteSets

CONSTANTS
  Flags,       \* Flags[s]: what the command of service s may be started with
  MaxSignals,  \* bound on the interrupts
  MaxRequests  \* bound on the requests that are served at a time

ASSUME FlagsAssumption  == DOMAIN Flags = Services
ASSUME BoundsAssumption == MaxSignals \in Nat /\ MaxRequests \in Nat

VARIABLES
  service, flags,       \* the command, and the flags that it was given
  pc,                   \* where it is
  outcome,              \* how it ended
  opening,              \* the clients that are still to be opened, in their order
  misused,              \* the settings that were used, and that have no usable value
  metricsServer,        \* whether the service holds a metrics server
  apiServer,            \* whether the service holds its HTTP server
  listening, requests,  \* whether the HTTP server accepts requests, and how many it
                        \* is serving
  lockHeld,             \* another archiver renews the storage lock
  stopCh,               \* the archiver's stopCh is closed
  signals,              \* the interrupts so far
  appDone, stopDone     \* the application's context is done, and Stop's is

start   == <<service, flags>>
clients == <<opening, misused>>
servers == <<metricsServer, apiServer>>
http    == <<listening, requests>>
context == <<signals, appDone, stopDone>>
vars    == <<start, pc, outcome, clients, servers, http, lockHeld, stopCh, context>>

config == ReadConfig(service, flags)

Starting == {"seed", "lock", "track", "live", "head"}
Stopping == {"shutdown", "stopMetrics", "stopArchiver"}

TypeOK ==
  /\ service \in Services
  /\ pc \in {"setup", "open", "metrics", "listen", "wait", "exited"} \cup Starting \cup Stopping
  /\ outcome \in {"none", "refused", "failed", "stopped"}
  /\ outcome = "none" <=> pc # "exited"
  /\ opening \in Seq({"storage", "beacon"})
  /\ {metricsServer, apiServer, listening, lockHeld, stopCh, appDone, stopDone} \subseteq BOOLEAN
  /\ requests \in 0 .. MaxRequests
  /\ signals \in 0 .. MaxSignals
  /\ pc \in Stopping \cup {"wait"} /\ service = "archiver" => appDone
  /\ pc = "stopMetrics" /\ apiServer => ~listening /\ requests = 0

\* The clients that the command opens before it makes its service.
Clients(s) ==
  CASE s = "archiver"  -> <<"beacon", "storage">>
    [] s = "api"       -> <<"storage", "beacon">>
    [] s = "validator" -> <<"beacon">>

Init ==
  /\ service \in Services /\ flags \in Flags[service]
  /\ pc = "setup" /\ outcome = "none"
  /\ opening = Clients(service) /\ misused = {}
  /\ metricsServer = FALSE /\ apiServer = FALSE
  /\ listening = FALSE /\ requests = 0
  /\ lockHeld \in IF service = "archiver" THEN BOOLEAN ELSE {FALSE}
  /\ stopCh = FALSE
  /\ signals = 0 /\ appDone = FALSE /\ stopDone = FALSE

----------------------------------------------------------------------------
(* The context *)

\* The first interrupt ends the application's context.  One more ends Stop's, if
\* Stop is running; before that nothing listens to it.
Interrupt ==
  /\ pc # "exited" /\ signals < MaxSignals
  /\ signals' = signals + 1
  /\ appDone' = TRUE
  /\ stopDone' = (stopDone \/ pc \in Stopping)
  /\ UNCHANGED <<start, pc, outcome, clients, servers, http, lockHeld, stopCh>>

\* The process ends, whatever its servers are doing.
Exit(how) ==
  /\ pc' = "exited" /\ outcome' = how
  /\ UNCHANGED <<start, opening, servers, http, lockHeld, context>>

Fail == Exit("failed") /\ UNCHANGED <<misused, stopCh>>

\* The step to the next place, which leaves all but the clients alone.
Goto(next) ==
  /\ pc' = next
  /\ UNCHANGED <<start, outcome, servers, http, lockHeld, stopCh, context>>

----------------------------------------------------------------------------
(* Setup *)

Accepted == Required(service) \subseteq DOMAIN flags /\ Check(service, config)

Refuse ==
  /\ pc = "setup" /\ ~Accepted
  /\ Exit("refused")
  /\ UNCHANGED <<misused, stopCh>>

Accept ==
  /\ pc = "setup" /\ Accepted
  /\ Goto("open")
  /\ UNCHANGED clients

\* The settings that the store is opened with, and that are missing: S3's if it is
\* S3, and a file store's for every other type.
Unset(names) == {n \in names : Value(flags, n) = ""}

StorageMisused ==
  IF config.storage.type = "s3"
    THEN Unset({"s3-endpoint", "s3-bucket"}) \cup
         (CASE config.storage.s3.credential = "static" ->
                 Unset({"s3-access-key", "s3-secret-access-key"})
            [] config.storage.s3.credential = "iam" -> {}
            [] OTHER -> {"s3-credential-type"})
    ELSE Unset({"file-directory"})

\* The sign of the timeout of the client of the beacon node.
BeaconMisused ==
  Unset({"l1-beacon-http"}) \cup (IF config.beacon.timeout > 0 THEN {} ELSE {"timeout"})

Opened(client, bad) ==
  /\ pc = "open" /\ opening # <<>> /\ Head(opening) = client
  /\ opening' = Tail(opening)
  /\ misused' = misused \cup bad
  /\ Goto("open")

OpenStorage == Opened("storage", StorageMisused)
OpenBeacon  == Opened("beacon", BeaconMisused)

OpenFails == pc = "open" /\ opening # <<>> /\ Fail

\* The service is made, and started.
Opens ==
  /\ pc = "open" /\ opening = <<>>
  /\ Goto(IF service = "validator" THEN "head" ELSE "metrics")
  /\ UNCHANGED clients

----------------------------------------------------------------------------
(* Start *)

\* The metrics server, if metrics are enabled.
StartMetrics ==
  /\ pc = "metrics"
  /\ pc' = "listen"
  /\ metricsServer' \in BOOLEAN
  /\ UNCHANGED <<start, outcome, clients, apiServer, http, lockHeld, stopCh, context>>

\* Variant, to be told apart: the API drops its server, as the archiver does.
ListenUnkept ==
  /\ pc = "listen"
  /\ listening' = TRUE
  /\ pc' = IF service = "api" THEN "wait" ELSE "seed"
  /\ UNCHANGED <<start, outcome, clients, servers, requests, lockHeld, stopCh, context>>

\* The API keeps its server.  The archiver drops its admin server, and goes on to
\* Archiver.Start.
Listen ==
  /\ pc = "listen"
  /\ listening' = TRUE
  /\ apiServer' = (service = "api")
  /\ pc' = IF service = "api" THEN "wait" ELSE "seed"
  /\ UNCHANGED <<start, outcome, clients, metricsServer, requests, lockHeld, stopCh, context>>

StartFails == pc \in {"metrics", "listen"} /\ Fail

Request ==
  /\ pc # "exited" /\ listening /\ requests < MaxRequests
  /\ requests' = requests + 1
  /\ UNCHANGED <<start, pc, outcome, clients, servers, listening, lockHeld, stopCh, context>>

Reply ==
  /\ pc # "exited" /\ requests > 0
  /\ requests' = requests - 1
  /\ UNCHANGED <<start, pc, outcome, clients, servers, listening, lockHeld, stopCh, context>>

----------------------------------------------------------------------------
(* The archiver's Start *)

\* The first fetch, with its retries, gives up when the context is done.
Seed     == pc = "seed" /\ ~appDone /\ Goto("lock") /\ UNCHANGED clients
SeedFail == pc = "seed" /\ Fail

\* S3 answers nothing once the context is done; files do not ask for it, and nor
\* does the sleep between two looks at the lock.
AnswersWhenDone == config.storage.type # "s3"

\* time.NewTicker, which follows, panics for an interval that is not positive.
ObtainLock ==
  /\ pc = "lock" /\ ~lockHeld /\ (appDone => AnswersWhenDone)
  /\ IF config.poll > 0
       THEN Goto("track") /\ UNCHANGED clients
       ELSE /\ misused' = misused \cup {"archiver-poll-interval"}
            /\ Exit("failed") /\ UNCHANGED stopCh

LockFails == pc = "lock" /\ Fail

\* The other archiver ends, or loses the lock.
LockReleased ==
  /\ lockHeld /\ pc # "exited"
  /\ lockHeld' = FALSE
  /\ UNCHANGED <<start, pc, outcome, clients, servers, http, stopCh, context>>

Tick == pc = "track" /\ Goto("live") /\ UNCHANGED clients

\* A live walk ends by itself, or by the errors of a context that is done.
LiveEnds == pc = "live" /\ Goto("track") /\ UNCHANGED clients

\* Variant, to be told apart: tracking ends by stopCh alone.
TrackReturnsByStop == pc = "track" /\ stopCh /\ Goto("wait") /\ UNCHANGED clients

\* Of stopCh and the context, it is always the context: Stop is called after this.
TrackReturns == pc = "track" /\ (appDone \/ stopCh) /\ Goto("wait") /\ UNCHANGED clients

----------------------------------------------------------------------------
(* The validator's Start *)

FetchHead == pc = "head" /\ ~appDone /\ Goto("wait") /\ UNCHANGED clients
HeadFails == pc = "head" /\ Fail

\* checkBlobs has come to its end, and closes the application.
CloseApp ==
  /\ service = "validator" /\ pc = "wait" /\ ~appDone
  /\ appDone' = TRUE
  /\ UNCHANGED <<start, pc, outcome, clients, servers, http, lockHeld, stopCh, signals,
                 stopDone>>

----------------------------------------------------------------------------
(* Stop *)

\* The validator's Stop does nothing: the process ends, with the check or without.
BeginStop ==
  /\ pc = "wait" /\ appDone
  /\ CASE service = "validator" -> Exit("stopped") /\ UNCHANGED <<misused, stopCh>>
       [] service = "archiver"  -> Goto("stopMetrics") /\ UNCHANGED clients
       [] service = "api"       ->
            /\ pc' = IF apiServer THEN "shutdown" ELSE "stopMetrics"
            /\ listening' = (listening /\ ~apiServer)
            /\ UNCHANGED <<start, outcome, clients, servers, requests, lockHeld, stopCh,
                           context>>

\* Variant, to be told apart: the requests that are being served are not waited for.
ShutdownAtOnce == pc = "shutdown" /\ Goto("stopMetrics") /\ UNCHANGED clients

\* Shutdown waits for the requests that are being served, until Stop's context is done.
Shutdown == pc = "shutdown" /\ requests = 0 /\ Goto("stopMetrics") /\ UNCHANGED clients

ShutdownFails == pc = "shutdown" /\ stopDone /\ Fail

\* Without a metrics server there is nothing to do.
StopMetrics ==
  /\ pc = "stopMetrics"
  /\ IF service = "archiver"
       THEN Goto("stopArchiver") /\ UNCHANGED clients
       ELSE Exit("stopped") /\ UNCHANGED <<misused, stopCh>>

\* An error ends the archiver without closing stopCh.
StopMetricsFails == pc = "stopMetrics" /\ metricsServer /\ Fail

StopArchiver ==
  /\ pc = "stopArchiver"
  /\ stopCh' = TRUE
  /\ Exit("stopped") /\ UNCHANGED misused

----------------------------------------------------------------------------

Next ==
  \/ Interrupt \/ CloseApp \/ LockReleased \/ Request \/ Reply
  \/ Refuse \/ Accept \/ OpenStorage \/ OpenBeacon \/ OpenFails \/ Opens
  \/ StartMetrics \/ Listen \/ StartFails
  \/ Seed \/ SeedFail \/ ObtainLock \/ LockFails \/ Tick \/ LiveEnds \/ TrackReturns
  \/ FetchHead \/ HeadFails
  \/ BeginStop \/ Shutdown \/ ShutdownFails
  \/ StopMetrics \/ StopMetricsFails \/ StopArchiver

\* What the process does by itself, with calls that return: setup and Stop run to
\* their ends, and the calls of Start fail once their context is done.  Of the
\* context and the ticker, both ready, a select takes either, so that it takes the
\* context some time.  The API answers: its handlers have a deadline.  Nothing is
\* assumed of the other archiver, of the admin API's requests, nor of checkBlobs,
\* of which the client has no timeout.
Fairness ==
  /\ WF_vars(Refuse \/ Accept \/ OpenStorage \/ OpenBeacon \/ Opens \/ StartMetrics \/ Listen)
  /\ WF_vars((SeedFail \/ HeadFails) /\ appDone)
  /\ WF_vars(ObtainLock)
  /\ WF_vars(LockFails /\ appDone /\ ~AnswersWhenDone)
  /\ WF_vars(LiveEnds)
  /\ SF_vars(TrackReturns)
  /\ WF_vars(Reply /\ service = "api")
  /\ WF_vars(BeginStop \/ Shutdown \/ StopMetrics \/ StopArchiver)

Spec == Init /\ [][Next]_vars /\ Fairness

----------------------------------------------------------------------------

\* The clients are opened with settings that have a value, whatever the type of the
\* store and the credentials: no setting that passes the checks is used without,
\* but the durations, of which the checks refuse 0 and no negative one.
AcceptedIsUsable == misused \subseteq {"timeout", "archiver-poll-interval"}

\* The API replies to the requests that it has accepted before it ends, unless
\* it is interrupted a second time, and then its status tells.
RepliesBeforeEnd ==
  service = "api" /\ pc = "exited" /\ requests > 0 => stopDone /\ outcome = "failed"

\* It waits for the lock that another archiver renews on a store of files, where it
\* notices no interrupt.
Standby == pc = "lock" /\ lockHeld /\ AnswersWhenDone

\* A process that is interrupted, or has nothing left to do, ends.  A standby on a
\* store of files ends when it has got the lock.
Ends ==
  /\ appDone ~> pc = "exited" \/ Standby
  /\ appDone /\ ~lockHeld ~> pc = "exited"
=============================================================================
