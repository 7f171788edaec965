--------------------------- MODULE LifecycleProof ---------------------------
(***************************************************************************)
(* A process of a command, whatever its flags: no client is opened with a  *)
(* setting that is missing, and the API replies before it ends.            *)
(***************************************************************************)
EXTENDS Lifecycle, TLAPS

----------------------------------------------------------------------------
(* What a configuration that passes the checks has *)

LEMMA CheckedS3 ==
  ASSUME S3Check(S3Config(flags))
  PROVE  /\ Unset({"s3-endpoint", "s3-bucket"}) = {}
         /\ S3Config(flags).credential \in {"static", "iam"}
         /\ S3Config(flags).credential = "static" =>
              Unset({"s3-access-key", "s3-secret-access-key"}) = {}
<1>1. /\ Value(flags, "s3-endpoint") # "" /\ Value(flags, "s3-bucket") # ""
      /\ S3Config(flags).credential # "unknown"
      /\ S3Config(flags).credential = "static" =>
           Value(flags, "s3-access-key") # "" /\ Value(flags, "s3-secret-access-key") # ""
  BY DEF S3Check, S3Config
<1>2. S3Config(flags).credential = ToS3CredentialType(Value(flags, "s3-credential-type"))
  BY DEF S3Config
<1> QED
  BY <1>1, <1>2 DEF Unset, ToS3CredentialType

LEMMA CheckedStorage ==
  ASSUME service \in {"archiver", "api"}, Accepted
  PROVE  StorageMisused = {}
<1>1. config.storage = StorageConfig(flags)
  BY DEF config, ReadConfig, ArchiverConfig, APIConfig
<1>2. StorageCheck(StorageConfig(flags))
  BY <1>1 DEF Accepted, Check, ArchiverCheck, APICheck
<1>3. /\ config.storage.type = ToDataStorage(Value(flags, "data-store"))
      /\ config.storage.s3 = S3Config(flags)
      /\ config.storage.directory = Value(flags, "file-directory")
  BY <1>1 DEF StorageConfig
<1>4. CASE config.storage.type = "s3"
  <2>1. S3Check(S3Config(flags))
    BY <1>1, <1>2, <1>3, <1>4 DEF StorageCheck
  <2> QED
    BY <1>3, <1>4, <2>1, CheckedS3 DEF StorageMisused
<1>5. CASE config.storage.type # "s3"
  <2>1. Value(flags, "file-directory") # ""
    BY <1>1, <1>2, <1>3, <1>5 DEF StorageCheck, ToDataStorage
  <2> QED
    BY <1>5, <2>1 DEF StorageMisused, Unset
<1> QED
  BY <1>4, <1>5

LEMMA CheckedBeacon ==
  ASSUME service \in Services, Accepted
  PROVE  BeaconMisused \subseteq {"timeout"}
<1>1. BeaconCheck(config.beacon)
  BY DEF Accepted, Check, ArchiverCheck, APICheck, ValidatorCheck, Services
<1>2. config.beacon.url = Value(flags, "l1-beacon-http")
  BY DEF config, ReadConfig, ArchiverConfig, APIConfig, ValidatorConfig, NewBeaconConfig,
         BeaconConfig, Services
<1> QED
  BY <1>1, <1>2 DEF BeaconMisused, Unset, BeaconCheck

----------------------------------------------------------------------------
(* Where a process of each command may be *)

\* The clients that a command may still have to open.
OpeningInv ==
  /\ service \in Services
  /\ service = "validator" => opening \in {<<"beacon">>, <<>>}
  /\ pc = "open" => Accepted

UsableInv == OpeningInv /\ AcceptedIsUsable

\* No step changes the command or its flags.
LEMMA FlagsStay ==
  ASSUME service \in Services, [Next]_vars
  PROVE  UNCHANGED start
<1>1. CASE ObtainLock \/ StopMetrics
  BY <1>1 DEF ObtainLock, StopMetrics, Goto, Exit
<1>2. CASE BeginStop
  <2>1. CASE service = "validator"
    BY <1>2, <2>1 DEF BeginStop, Exit
  <2>2. CASE service = "archiver"
    BY <1>2, <2>2 DEF BeginStop, Goto
  <2>3. CASE service = "api"
    BY <1>2, <2>3 DEF BeginStop
  <2> QED
    BY <2>1, <2>2, <2>3 DEF Services
<1>3. CASE \/ Interrupt \/ CloseApp \/ LockReleased \/ Request \/ Reply \/ StartMetrics
           \/ Listen \/ Accept \/ OpenStorage \/ OpenBeacon \/ Opens \/ Seed \/ Tick
           \/ LiveEnds \/ TrackReturns \/ FetchHead \/ Shutdown \/ UNCHANGED vars
  BY <1>3 DEF Interrupt, CloseApp, LockReleased, Request, Reply, StartMetrics, Listen, Accept,
     OpenStorage, OpenBeacon, Opened, Opens, Seed, Tick, LiveEnds, TrackReturns, FetchHead,
     Shutdown, Goto, vars
<1>4. CASE Refuse \/ OpenFails \/ StartFails \/ SeedFail \/ LockFails \/ HeadFails
           \/ ShutdownFails \/ StopMetricsFails \/ StopArchiver
  BY <1>4 DEF Refuse, OpenFails, StartFails, SeedFail, LockFails, HeadFails, ShutdownFails,
     StopMetricsFails, StopArchiver, Exit, Fail
<1> QED
  BY <1>1, <1>2, <1>3, <1>4 DEF Next

LEMMA UsableInit == Init => UsableInv
BY DEF Init, UsableInv, OpeningInv, AcceptedIsUsable, Clients, Services

\* Only what opens a client and what takes the lock uses a setting.
LEMMA UsableStep == UsableInv /\ [Next]_vars => UsableInv'
<1> SUFFICES ASSUME UsableInv, [Next]_vars
             PROVE  UsableInv'
  OBVIOUS
<1> USE DEF UsableInv, OpeningInv, AcceptedIsUsable
<1>1. CASE Accept
  BY <1>1 DEF Accept, Goto, start, clients, Accepted, config
<1>2. CASE OpenStorage
  <2>1. service # "validator"
    BY <1>2 DEF OpenStorage, Opened
  <2>2. StorageMisused = {}
    BY <1>2, <2>1, CheckedStorage DEF OpenStorage, Opened, Services
  <2> QED
    BY <1>2, <2>1, <2>2 DEF OpenStorage, Opened, Goto, start, Accepted, config
<1>3. CASE OpenBeacon
  <2>1. BeaconMisused \subseteq {"timeout"}
    BY <1>3, CheckedBeacon DEF OpenBeacon, Opened
  <2> QED
    BY <1>3, <2>1 DEF OpenBeacon, Opened, Goto, start, Accepted, config
<1>4. CASE ObtainLock
  <2>1. /\ pc' # "open" /\ UNCHANGED <<service, opening>>
        /\ misused' \subseteq misused \cup {"archiver-poll-interval"}
    <3>1. CASE config.poll > 0
      BY <1>4, <3>1 DEF ObtainLock, Goto, start, clients
    <3>2. CASE ~(config.poll > 0)
      BY <1>4, <3>2 DEF ObtainLock, Exit, start
    <3> QED
      BY <3>1, <3>2
  <2> QED
    BY <2>1
<1>5. ASSUME UNCHANGED <<service, flags, opening, misused>>, pc' = "open" => pc = "open"
      PROVE  UsableInv'
  BY <1>5 DEF Accepted, config
<1>6. CASE Interrupt \/ CloseApp \/ LockReleased \/ Request \/ Reply
  BY <1>5, <1>6 DEF Interrupt, CloseApp, LockReleased, Request, Reply, start, clients
<1>7. CASE Refuse \/ OpenFails \/ StartFails \/ SeedFail \/ LockFails \/ HeadFails
           \/ ShutdownFails \/ StopMetricsFails \/ StopArchiver
  BY <1>5, <1>7 DEF Refuse, OpenFails, StartFails, SeedFail, LockFails, HeadFails,
     ShutdownFails, StopMetricsFails, StopArchiver, Exit, Fail, start
<1>8. CASE Seed \/ Tick \/ LiveEnds \/ TrackReturns \/ FetchHead \/ Shutdown
  BY <1>5, <1>8 DEF Seed, Tick, LiveEnds, TrackReturns, FetchHead, Shutdown, Goto, start,
     clients
<1>9. CASE StartMetrics \/ Listen
  BY <1>5, <1>9 DEF StartMetrics, Listen, start, clients
<1>10. CASE Opens
  BY <1>5, <1>10 DEF Opens, Goto, start, clients
<1>11. CASE BeginStop
  <2>1. CASE service = "validator"
    BY <1>5, <1>11, <2>1 DEF BeginStop, Exit, start
  <2>2. CASE service = "archiver"
    BY <1>5, <1>11, <2>2 DEF BeginStop, Goto, start, clients
  <2>3. CASE service = "api"
    BY <1>5, <1>11, <2>3 DEF BeginStop, start, clients
  <2> QED
    BY <2>1, <2>2, <2>3 DEF Services
<1>12. CASE StopMetrics
  BY <1>5, <1>12 DEF StopMetrics, Goto, Exit, start, clients
<1>13. CASE UNCHANGED vars
  BY <1>5, <1>13 DEF vars, start, clients
<1> QED
  BY <1>1, <1>2, <1>3, <1>4, <1>6, <1>7, <1>8, <1>9, <1>10, <1>11, <1>12, <1>13 DEF Next

\* AcceptedIsUsable for every flag: a configuration that passes Check leaves no
\* client without a setting that it uses, durations apart.
THEOREM AcceptedConfigsAreUsable == Spec => []AcceptedIsUsable
<1>1. UsableInv => AcceptedIsUsable
  BY DEF UsableInv
<1> QED
  BY <1>1, UsableInit, UsableStep, PTL DEF Spec

----------------------------------------------------------------------------
(* The API's requests *)

\* The API accepts requests between Listen and Stop only, holds its server while it
\* does, and has none left when it goes on from Shutdown.
ApiInv ==
  service = "api" =>
    /\ pc \in {"setup", "open", "metrics", "listen", "wait", "shutdown", "stopMetrics", "exited"}
    /\ pc \in {"setup", "open", "metrics", "listen"} => ~listening /\ requests = 0
    /\ pc = "wait" => apiServer
    /\ pc \in {"shutdown", "stopMetrics"} => ~listening
    /\ pc = "stopMetrics" => requests = 0
    /\ pc = "exited" /\ requests > 0 => stopDone /\ outcome = "failed"

LEMMA ApiInit == Init => ApiInv
BY DEF Init, ApiInv

LEMMA ApiStep == UsableInv /\ ApiInv /\ [Next]_vars => ApiInv'
<1> SUFFICES ASSUME UsableInv, ApiInv, [Next]_vars, service' = "api"
             PROVE  ApiInv'
  BY DEF ApiInv
<1> USE DEF ApiInv
<1>1. service = "api"
  BY FlagsStay DEF UsableInv, OpeningInv, start
<1>2. CASE Interrupt
  BY <1>1, <1>2 DEF Interrupt, servers, http, Stopping
<1>3. CASE Request
  BY <1>1, <1>3 DEF Request, servers, context
<1>4. CASE Reply
  BY <1>1, <1>4 DEF Reply, servers, context
<1>5. CASE LockReleased
  BY <1>1, <1>5 DEF LockReleased, servers, http, context
<1>6. CASE Refuse \/ OpenFails \/ StartFails \/ StopMetricsFails
  BY <1>1, <1>6 DEF Refuse, OpenFails, StartFails, StopMetricsFails, Exit, Fail, servers, http,
     context
<1>7. CASE Accept \/ OpenStorage \/ OpenBeacon \/ Opens
  BY <1>1, <1>7 DEF Accept, OpenStorage, OpenBeacon, Opened, Opens, Goto, servers, http, context
<1>8. CASE StartMetrics
  BY <1>1, <1>8 DEF StartMetrics, http, context
<1>9. CASE Listen
  BY <1>1, <1>9 DEF Listen, context
<1>10. CASE BeginStop
  BY <1>1, <1>10 DEF BeginStop, servers, context
<1>11. CASE Shutdown
  BY <1>1, <1>11 DEF Shutdown, Goto, servers, http, context
<1>12. CASE ShutdownFails
  BY <1>1, <1>12 DEF ShutdownFails, Fail, Exit, servers, http, context
<1>13. CASE StopMetrics
  BY <1>1, <1>13 DEF StopMetrics, Exit, servers, http, context
<1>14. CASE \/ CloseApp \/ Seed \/ SeedFail \/ ObtainLock \/ LockFails \/ Tick \/ LiveEnds
            \/ TrackReturns \/ FetchHead \/ HeadFails \/ StopArchiver
  BY <1>1, <1>14 DEF CloseApp, Seed, SeedFail, ObtainLock, LockFails, Tick, LiveEnds,
     TrackReturns, FetchHead, HeadFails, StopArchiver
<1>15. CASE UNCHANGED vars
  BY <1>1, <1>15 DEF vars, servers, http, context
<1> QED
  BY <1>2, <1>3, <1>4, <1>5, <1>6, <1>7, <1>8, <1>9, <1>10, <1>11, <1>12, <1>13, <1>14, <1>15
     DEF Next

\* RepliesBeforeEnd for every flag and any number of requests and interrupts: the API
\* ends with a request unanswered only if Shutdown was interrupted, and says so.
THEOREM ApiReplies == Spec => []RepliesBeforeEnd
<1>1. ApiInv => RepliesBeforeEnd
  BY DEF ApiInv, RepliesBeforeEnd
<1> QED
  BY <1>1, UsableInit, UsableStep, ApiInit, ApiStep, PTL DEF Spec

----------------------------------------------------------------------------
(* Types *)

\* Only a validator fetches a head, only the API keeps its server, and stopCh is
\* closed by the archiver's last step.
PlaceInv ==
  /\ pc = "head" => service = "validator"
  /\ apiServer => service = "api"
  /\ stopCh => pc = "exited"

TypeInv == TypeOK /\ PlaceInv /\ UsableInv /\ ApiInv

\* TypeOK, one switch at a time.
Switched(switch) == switch \in BOOLEAN

Typed ==
  /\ service \in Services
  /\ pc \in {"setup", "open", "metrics", "listen", "wait", "exited"} \cup Starting \cup Stopping
  /\ outcome \in {"none", "refused", "failed", "stopped"}
  /\ outcome = "none" <=> pc # "exited"
  /\ opening \in Seq({"storage", "beacon"})
  /\ Switched(metricsServer) /\ Switched(apiServer) /\ Switched(listening)
  /\ Switched(lockHeld) /\ Switched(stopCh) /\ Switched(appDone) /\ Switched(stopDone)
  /\ requests \in 0 .. MaxRequests
  /\ signals \in 0 .. MaxSignals
  /\ pc \in Stopping \cup {"wait"} /\ service = "archiver" => appDone
  /\ pc = "stopMetrics" /\ apiServer => ~listening /\ requests = 0

LEMMA OneByOne == (TypeOK <=> Typed) /\ (TypeOK' <=> Typed')
BY Zenon DEF TypeOK, Typed, Switched

LEMMA SwitchFacts == /\ \A p : Switched(p = TRUE) /\ Switched(p # TRUE)
                     /\ Switched(TRUE) /\ Switched(FALSE)
BY DEF Switched

LEMMA TypeInit == Init => TypeInv
<1> SUFFICES ASSUME Init
             PROVE  TypeInv
  OBVIOUS
<1>1. opening \in Seq({"storage", "beacon"})
  <2>1. /\ <<"beacon", "storage">> \in Seq({"storage", "beacon"})
        /\ <<"storage", "beacon">> \in Seq({"storage", "beacon"})
        /\ <<"beacon">> \in Seq({"storage", "beacon"})
    OBVIOUS
  <2> QED
    BY <2>1 DEF Init, Clients, Services
<1>2. Switched(lockHeld)
  BY DEF Init, Switched
<1>3. 0 \in 0 .. MaxRequests /\ 0 \in 0 .. MaxSignals
  BY BoundsAssumption
<1>4. Typed
  BY <1>1, <1>2, <1>3, SwitchFacts DEF Init, Typed, Starting, Stopping
<1> QED
  BY <1>4, OneByOne, UsableInit, ApiInit DEF Init, TypeInv, PlaceInv

LEMMA TypeStep == TypeInv /\ [Next]_vars => TypeInv'
<1> SUFFICES ASSUME TypeInv, [Next]_vars
             PROVE  Typed' /\ PlaceInv'
  BY UsableStep, ApiStep, OneByOne DEF TypeInv
<1>1. Typed /\ PlaceInv /\ ApiInv
  BY OneByOne DEF TypeInv
<1>2. UNCHANGED service /\ ApiInv'
  BY FlagsStay, ApiStep DEF TypeInv, UsableInv, OpeningInv, start
<1>3. MaxSignals \in Nat /\ MaxRequests \in Nat
  BY BoundsAssumption
\* An end.
<1>4. ASSUME NEW how \in {"refused", "failed", "stopped"}, Exit(how), Switched(stopCh')
      PROVE  Typed' /\ PlaceInv'
  BY <1>1, <1>4 DEF Exit, start, servers, http, context, Typed, PlaceInv, Starting, Stopping
\* A step that changes the place only.
<1>5. ASSUME NEW next, Goto(next), opening' \in Seq({"storage", "beacon"}),
             next \in {"open", "metrics", "wait", "head", "lock", "track", "live",
                       "stopMetrics", "stopArchiver"},
             pc # "exited",
             next = "head" => service = "validator",
             next = "stopMetrics" /\ service = "api" => ~listening /\ requests = 0,
             next \in {"wait", "stopMetrics", "stopArchiver"} /\ service = "archiver" => appDone
      PROVE  Typed' /\ PlaceInv'
  BY <1>1, <1>5
  DEF Goto, start, servers, http, context, Typed, PlaceInv, Starting, Stopping
<1>6. CASE Interrupt
  <2>1. Switched(appDone') /\ Switched(stopDone')
    BY <1>6, SwitchFacts DEF Interrupt, Switched
  <2>2. signals' \in 0 .. MaxSignals
    BY <1>1, <1>3, <1>6 DEF Interrupt, Typed
  <2> QED
    BY <1>1, <1>6, <2>1, <2>2 DEF Interrupt, start, clients, servers, http, Typed, PlaceInv
<1>7. CASE CloseApp
  BY <1>1, <1>7, SwitchFacts
  DEF CloseApp, start, clients, servers, http, Typed, PlaceInv
<1>8. CASE LockReleased
  BY <1>1, <1>8, SwitchFacts
  DEF LockReleased, start, clients, servers, http, context, Typed, PlaceInv
<1>9. CASE Request \/ Reply
  <2>1. requests' \in 0 .. MaxRequests
    BY <1>1, <1>3, <1>9 DEF Request, Reply, Typed
  <2>2. pc = "stopMetrics" /\ apiServer => ~listening' /\ requests' = 0
    BY <1>1, <1>2, <1>9 DEF Request, Reply, servers, ApiInv, PlaceInv
  <2> QED
    BY <1>1, <1>9, <2>1, <2>2
    DEF Request, Reply, start, clients, servers, context, Typed, PlaceInv
<1>10. CASE Accept
  BY <1>1, <1>5, <1>10 DEF Accept, clients, Typed
<1>11. CASE OpenStorage \/ OpenBeacon
  <2>1. opening # <<>> /\ opening' = Tail(opening) /\ pc = "open" /\ Goto("open")
    BY <1>11 DEF OpenStorage, OpenBeacon, Opened
  <2>2. opening' \in Seq({"storage", "beacon"})
    BY <1>1, <2>1 DEF Typed
  <2> QED
    BY <1>5, <2>1, <2>2
<1>12. CASE Opens
  BY <1>1, <1>5, <1>12 DEF Opens, clients, Typed
<1>13. CASE StartMetrics
  BY <1>1, <1>13
  DEF StartMetrics, start, clients, http, context, Typed, PlaceInv, Starting, Stopping, Switched
<1>14. CASE Listen
  <2>1. Switched(listening') /\ Switched(apiServer') /\ (apiServer' => service = "api")
    BY <1>14 DEF Listen, Switched
  <2> QED
    BY <1>1, <1>14, <2>1
    DEF Listen, start, clients, context, Typed, PlaceInv, Starting, Stopping
<1>15. CASE Seed \/ Tick \/ LiveEnds
  BY <1>1, <1>5, <1>15 DEF Seed, Tick, LiveEnds, clients, Typed
<1>16. CASE TrackReturns
  BY <1>1, <1>5, <1>16 DEF TrackReturns, clients, Typed, PlaceInv
<1>17. CASE FetchHead
  BY <1>1, <1>5, <1>17 DEF FetchHead, clients, Typed, PlaceInv
<1>18. CASE ObtainLock
  <2>1. CASE config.poll > 0
    BY <1>1, <1>5, <1>18, <2>1 DEF ObtainLock, clients, Typed
  <2>2. CASE ~(config.poll > 0)
    BY <1>1, <1>4, <1>18, <2>2 DEF ObtainLock, Typed
  <2> QED
    BY <2>1, <2>2
<1>19. CASE BeginStop
  <2>1. CASE service = "validator"
    BY <1>1, <1>4, <1>19, <2>1 DEF BeginStop, Typed
  <2>2. CASE service = "archiver"
    BY <1>1, <1>5, <1>19, <2>2 DEF BeginStop, clients, Typed
  <2>3. CASE service = "api"
    <3>1. /\ pc = "wait" /\ apiServer /\ pc' = "shutdown" /\ listening' = FALSE
          /\ UNCHANGED <<start, outcome, clients, servers, requests, lockHeld, stopCh, context>>
      BY <1>1, <1>19, <2>3 DEF BeginStop, ApiInv
    <3> QED
      BY <1>1, <2>3, <3>1, SwitchFacts
      DEF start, clients, servers, context, Typed, PlaceInv, Starting, Stopping
  <2> QED
    BY <1>1, <2>1, <2>2, <2>3 DEF Typed, Services
<1>20. CASE Shutdown
  BY <1>1, <1>5, <1>20 DEF Shutdown, clients, Typed, ApiInv, Stopping
<1>21. CASE StopMetrics
  <2>1. CASE service = "archiver"
    BY <1>1, <1>5, <1>21, <2>1 DEF StopMetrics, clients, Typed, Stopping
  <2>2. CASE service # "archiver"
    BY <1>1, <1>4, <1>21, <2>2 DEF StopMetrics, Typed
  <2> QED
    BY <2>1, <2>2
<1>22. CASE StopArchiver
  BY <1>4, <1>22, SwitchFacts DEF StopArchiver
<1>23. CASE \/ Refuse \/ OpenFails \/ StartFails \/ SeedFail \/ LockFails \/ HeadFails
            \/ ShutdownFails \/ StopMetricsFails
  BY <1>1, <1>4, <1>23 DEF Refuse, OpenFails, StartFails, SeedFail, LockFails, HeadFails,
     ShutdownFails, StopMetricsFails, Fail, Typed
<1>24. CASE UNCHANGED vars
  BY <1>1, <1>24 DEF vars, start, clients, servers, http, context, Typed, PlaceInv
<1> QED
  BY <1>6, <1>7, <1>8, <1>9, <1>10, <1>11, <1>12, <1>13, <1>14, <1>15, <1>16, <1>17, <1>18,
     <1>19, <1>20, <1>21, <1>22, <1>23, <1>24 DEF Next

\* Every variable keeps its type; the archiver stops only when its context is done,
\* for its stopCh is not closed before; and the API has no request left when it goes
\* on from a Shutdown that has succeeded.
THEOREM TypeCorrect == Spec => []TypeOK
<1>1. TypeInv => TypeOK
  BY DEF TypeInv
<1> QED
  BY <1>1, TypeInit, TypeStep, PTL DEF Spec
=============================================================================
