-------------------------------- MODULE Device ---------------------------------
(***************************************************************************)
(* A gateway from its boot to its session with the cloud: app_main waits   *)
(* for Wi-Fi (WifiMgr), then starts cloud_init, which connects once with   *)
(* the stored identity, and the HTTP task, whose connection pull           *)
(* (ConnectionPull) reports the identity main.c is to connect with.  Both  *)
(* give up when Wi-Fi is down at the wrong moment.  Once there is a        *)
(* session the cloud may save other Wi-Fi credentials.  What a session     *)
(* does once it exists is AzureSession.                                    *)
(***************************************************************************)
EXTENDS Naturals, Sequences

CONSTANTS Networks, LongSsid, LongPass, NoNet, Cut,      \* of WifiMgr
          FirstNet, MaxRetry, MaxSaves,
          AzureIds, BackendIds, NoId, Payloads,          \* of ConnectionPull
          MaxFaults,  \* bound on failures, of any kind
          MaxReboots

VARIABLES sta, events, connected, ever, retries, bits, boot, using, refused,
          wifiNvs, wifiFile, older, saver, saved, maybe, ripped, saves,
          pc, got, deviceId, done, cached, told, reports, nvsId, nvsConn, config,
          asking,   \* the HTTP task saw Wi-Fi up and has sent its request
          cloud,    \* cloud_init: "start", "loaded" or "end"
          identity, \* its azure_cfg, NoId when it has none
          session,  \* the identity of the client that was started, or NoId
          missed,   \* a report to main.c came to nothing
          faults, reboots

Wifi == INSTANCE WifiMgr
Pull == INSTANCE ConnectionPull

wifiVars == <<sta, events, connected, ever, retries, bits, boot, using, refused,
              wifiNvs, wifiFile, older, saver, saved, maybe, ripped, saves>>
pullVars == <<pc, got, deviceId, done, cached, told, reports, nvsId, nvsConn, config>>
mainVars == <<asking, cloud, identity, session, missed>>
vars == <<wifiVars, pullVars, mainVars, faults, reboots>>

ASSUME ConstantsAssumption == Wifi!ConstantsOK /\ Pull!ConstantsOK

TypeOK ==
    /\ Wifi!TypeOK /\ Pull!TypeOK
    /\ {asking, missed} \subseteq BOOLEAN
    /\ asking => pc = "idle" /\ ~done
    /\ cloud \in {"start", "loaded", "end"}
    /\ {identity, session} \subseteq AzureIds \union {NoId}
    /\ (cloud = "loaded") = (identity # NoId)

Init ==
    /\ Wifi!Init /\ Pull!Init
    /\ asking = FALSE
    /\ cloud = "start" /\ identity = NoId /\ session = NoId /\ missed = FALSE
-------------------------------------------------------------------------------
(* main.c.                                                                 *)

\* app_main starts the tasks when wifi_mgr_connect has returned, whatever it returned.
TasksRun == boot \notin {"load", "wait"}

\* connect_azure_if_possible does nothing while Wi-Fi is down.  A client that fails to
\* start is tried again by azure_bg, which only a client that did start has set up.
Connect(id) ==
    \/ connected /\ session' = id /\ UNCHANGED faults
    \/ connected /\ session = NoId /\ Wifi!Fault /\ UNCHANGED session
    \/ ~connected /\ UNCHANGED <<session, faults>>

\* cloud_init loads the credentials; without any it ends.
CloudLoad ==
    /\ TasksRun /\ cloud = "start"
    /\ identity' = config
    /\ cloud' = IF config = NoId THEN "end" ELSE "loaded"
    /\ UNCHANGED <<wifiVars, pullVars, asking, session, missed, faults, reboots>>

\* Then it looks at Wi-Fi, once.
CloudConnect ==
    /\ cloud = "loaded"
    /\ cloud' = "end" /\ identity' = NoId
    /\ Connect(identity)
    /\ UNCHANGED <<wifiVars, pullVars, asking, missed, reboots>>
-------------------------------------------------------------------------------
(* smartload_http_task.                                                    *)

\* Mutant: the task only works when app_main found Wi-Fi up.
HttpAsk_OnlyAtBoot ==
    /\ TasksRun /\ pc = "idle" /\ ~done /\ ~asking
    /\ connected /\ boot = "OK"
    /\ asking' = TRUE
    /\ UNCHANGED <<wifiVars, pullVars, cloud, identity, session, missed, faults, reboots>>

\* A round with Wi-Fi up, and a lookup still to be made.
HttpAsk ==
    /\ TasksRun /\ pc = "idle" /\ ~done /\ ~asking
    /\ connected
    /\ asking' = TRUE
    /\ UNCHANGED <<wifiVars, pullVars, cloud, identity, session, missed, faults, reboots>>

\* The service answers, over a link that is up.
HttpAnswer ==
    /\ asking /\ sta = "joined"
    /\ asking' = FALSE
    /\ Pull!Get
    /\ UNCHANGED <<wifiVars, cloud, identity, session, missed>>

HttpStore ==
    /\ Pull!StoreId \/ Pull!StoreConn \/ Pull!SaveAzure
    /\ UNCHANGED <<wifiVars, mainVars>>

\* on_http_connection_update: nothing when Wi-Fi is down; otherwise the session is
\* replaced, or opened, unless it has that identity.  The first client of a boot may fail
\* to start.
Reported(id) ==
    /\ \/ connected /\ session' = id
       \/ (connected => session = NoId) /\ UNCHANGED session
    /\ missed' = (session' # id)

HttpTell ==
    /\ Pull!Tell
    /\ Reported(got.azure)
    /\ UNCHANGED <<wifiVars, asking, cloud, identity>>

\* The service fails, or there is no link to reach it by.  The cached identity is
\* reported in the same way.
HttpFails ==
    /\ asking
    /\ asking' = FALSE
    /\ \/ Pull!GetFails
       \/ sta # "joined" /\ Pull!NoAnswer(FALSE) /\ UNCHANGED faults
    /\ IF reports' = reports THEN UNCHANGED <<session, missed>> ELSE Reported(told')
    /\ UNCHANGED <<wifiVars, cloud, identity>>
-------------------------------------------------------------------------------
(* Direct methods, which need a session and a link.                        *)

Reached == session # NoId /\ sta = "joined"

MethodWifi ==
    /\ Reached
    /\ \E n \in Wifi!Saved : Wifi!Save(n)
    /\ UNCHANGED <<pullVars, mainVars, reboots>>
-------------------------------------------------------------------------------
\* A loss of power, a panic, the reboot method or the end of an update: every task
\* stops where it is.
Restart ==
    /\ reboots < MaxReboots
    /\ reboots' = reboots + 1
    /\ Wifi!Restart /\ Pull!Restart
    /\ asking' = FALSE
    /\ cloud' = "start" /\ identity' = NoId /\ session' = NoId /\ missed' = FALSE
    /\ UNCHANGED faults
-------------------------------------------------------------------------------
StationStep == Wifi!Station /\ UNCHANGED <<pullVars, mainVars, reboots>>
LinkDrops == Wifi!Drop /\ UNCHANGED <<pullVars, mainVars, reboots>>
WifiSaved == Wifi!Saving /\ UNCHANGED <<pullVars, mainVars, reboots>>

CloudStep == CloudLoad \/ CloudConnect
HttpStep == HttpAsk \/ HttpAnswer \/ HttpStore \/ HttpTell \/ HttpFails

Next ==
    \/ StationStep \/ LinkDrops
    \/ CloudStep \/ HttpStep
    \/ MethodWifi \/ WifiSaved
    \/ Restart

Spec == Init /\ [][Next]_vars

\* The driver and the event task, cloud_init and the HTTP task run.  Nothing obliges
\* the network to fail or the cloud to call methods.
Fairness ==
    /\ WF_vars(StationStep) /\ WF_vars(CloudStep) /\ WF_vars(HttpStep)

FairSpec == Spec /\ Fairness
-------------------------------------------------------------------------------
(* Properties.                                                             *)

\* Of ConnectionPull: an identity main.c connects with is in flash; one report a boot.
ToldIsStored == Pull!ToldIsStored
ToldOnce == Pull!ToldOnce

\* Of WifiMgr: once failures stop the station stays connected, or nothing starts it again;
\* a boot comes up with credentials that were saved together, as far as they fit.
StaysConnected == Wifi!StaysConnected
BootsWithSavedWifi == Wifi!BootsWithSavedWifi

\* The lookup ends, however late Wi-Fi comes, and the device has a session, by way of
\* cloud_init or of the report.  Three things may stand in the way: the station gave up;
\* the service knows no identity, and says so; the one report of the boot came to
\* nothing, because Wi-Fi was down just then or the client did not start.
ReachesCloud ==
    <>[](Wifi!Deaf \/ (done /\ (session # NoId \/ missed \/ told = NoId)))
===============================================================================
