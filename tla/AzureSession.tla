----------------------------- MODULE AzureSession ------------------------------
(***************************************************************************)
(* The MQTT session with Azure IoT Hub: azure_iot.c over mqtt_mgr.c, and   *)
(* the three tasks that open and close it.  cloud_init (main.c) connects   *)
(* once at boot; the HTTP task reports each connection string it pulls     *)
(* (on_http_connection_update); azure_bg renews what is down or expired.   *)
(* The telemetry task publishes.  The client task of esp-mqtt delivers     *)
(* events.  s_mutex of azure_iot.c guards connect, disconnect and publish, *)
(* but not azure_iot_init, nor the wait for the connection.                *)
(***************************************************************************)
EXTENDS Naturals

CONSTANTS Ids,        \* Azure identities a configuration may name
          Unsignable, \* those with a key that is not base64, which nothing checks
          NoId,       \* what s.creds holds after memset
          NoClient,   \* no esp-mqtt client exists
          BootId,     \* the identity cloud_init loads
          Free,       \* value of a mutex nobody holds
          MaxUpdates, \* bound on the connection strings the HTTP task reports
          MaxFaults   \* bound on failures: of the line, of a call, of a token

Tasks == {"cloud", "http", "bg"}
Owners == Tasks \union {"telemetry", Free}

ASSUME ConstantsAssumption ==
    /\ NoId \notin Ids /\ NoClient \notin Ids \union {NoId}
    /\ BootId \in Ids /\ Unsignable \subseteq Ids
    /\ Free \notin Tasks \union {"telemetry"}
    /\ MaxUpdates \in Nat /\ MaxFaults \in Nat

VARIABLES creds,     \* s.creds of azure_iot.c
          topic,     \* the identity in s.telemetry_topic
          connected, \* s.connected of azure_iot.c
          stopping,  \* s.stopping
          token,     \* s.sas_token: "none", "valid" or "expired"
          recent,    \* s.last_reconnect_tick is less than 10 s old
          mutex,     \* s_mutex
          signed,    \* the identity its holder signed the token for
          unsigned,  \* history: the last azure_iot_connect got no token
          was,       \* mqtt_mgr_is_connected() as its holder saw it
          client,    \* the identity the esp-mqtt client presents, or NoClient
          mconn,     \* s.connected of mqtt_mgr.c
          bits,      \* the event group: "C" connected, "F" failed
          link,      \* the client has a session with the broker
          event,     \* event being delivered: [step, kind]; "idle" if none
          active,    \* s_active_azure_cfg, NoId until it is set
          cloudLock, \* s_cloud_lock
          bgStarted, \* s_bg_task exists
          pc,        \* pc[t]: where task t is
          asked,     \* the configuration of on_http_connection_update
          ok,        \* ok[t]: the connect of t succeeded
          sending,   \* the telemetry task is between its check and its publish
          updates, faults

azureVars ==
    <<creds, topic, connected, stopping, token, recent, mutex, signed, unsigned, was>>
mqttVars == <<client, mconn, bits, link, event>>
mainVars == <<active, cloudLock, bgStarted, asked, updates>>
taskVars == <<pc, ok>>
vars == <<azureVars, mqttVars, mainVars, taskVars, sending, faults>>

Locations == {"start", "idle", "check", "fill", "connect", "client", "wait", "waited",
              "after", "disconnect", "stop", "destroy", "end"}

\* Where a task holds s_mutex.
Critical == {"client", "stop", "destroy"}

TypeOK ==
    /\ {creds, topic, active, signed} \subseteq Ids \union {NoId}
    /\ client \in Ids \union {NoId, NoClient}
    /\ {connected, stopping, recent, mconn, link, bgStarted, was, unsigned, sending}
           \subseteq BOOLEAN
    /\ token \in {"none", "valid", "expired"}
    /\ mutex \in Owners /\ \A t \in Tasks : mutex = t <=> pc[t] \in Critical
    /\ bits \subseteq {"C", "F"}
    /\ event \in [step : {"idle", "mgr", "bridge"}, kind : {"CONNECTED", "DOWN", "DATA"}]
    /\ cloudLock \in {"http", Free}
    /\ pc \in [Tasks -> Locations]
    /\ ok \in [Tasks -> BOOLEAN]
    /\ asked \in Ids
    /\ updates \in 0 .. MaxUpdates /\ faults \in 0 .. MaxFaults

Quiet == [step |-> "idle", kind |-> "DATA"]

Init ==
    /\ creds = NoId /\ topic = NoId /\ connected = FALSE /\ stopping = FALSE
    /\ token = "none" /\ recent = FALSE
    /\ mutex = Free /\ signed = NoId /\ unsigned = FALSE /\ was = FALSE
    /\ client = NoClient /\ mconn = FALSE /\ bits = {} /\ link = FALSE /\ event = Quiet
    /\ active = NoId /\ cloudLock = Free /\ bgStarted = FALSE /\ asked = BootId
    /\ pc = [cloud |-> "start", http |-> "idle", bg |-> "idle"]
    /\ ok = [t \in Tasks |-> FALSE]
    /\ sending = FALSE
    /\ updates = 0 /\ faults = 0

\* azure_iot_is_connected.
IsConnected == connected /\ mconn

Goto(t, l) == pc' = [pc EXCEPT ![t] = l]
At(t, l) == pc[t] = l
-------------------------------------------------------------------------------
(* azure_iot_init, in the callers of connect_azure_if_possible.  It takes   *)
(* no lock; the memset and the new values are two steps.  s_mutex exists:  *)
(* that two first callers may each create one is left out.                 *)

InitClear(t) ==
    /\ At(t, "start")
    /\ Goto(t, "fill")
    /\ creds' = NoId /\ topic' = NoId /\ connected' = FALSE /\ stopping' = FALSE
    /\ token' = "none" /\ recent' = FALSE
    /\ UNCHANGED <<mutex, signed, unsigned, was, mqttVars, mainVars, ok, sending, faults>>

\* override_cfg, or what app_config_load_azure read.
Config(t) == IF t = "http" THEN asked ELSE BootId

InitFill(t) ==
    /\ At(t, "fill")
    /\ Goto(t, "connect")
    /\ creds' = Config(t) /\ topic' = Config(t)
    /\ UNCHANGED <<connected, stopping, token, recent, mutex, signed, unsigned, was, mqttVars,
                   mainVars, ok, sending, faults>>
-------------------------------------------------------------------------------
(* azure_iot_connect: a token, then a client with s.creds, under s_mutex;  *)
(* then the wait, with no lock.  signed and was are locals of the holder   *)
(* of s_mutex, ok and asked of the callers: they are reset when they go    *)
(* out of scope.                                                           *)

\* sas_token_generate.  An empty key, after the memset, is valid base64.
ConnectBegin(t) ==
    /\ At(t, "connect")
    /\ creds \notin Unsignable
    /\ mutex = Free
    /\ mutex' = t
    /\ stopping' = FALSE
    /\ token' = "valid" /\ signed' = creds /\ unsigned' = FALSE
    /\ Goto(t, "client")
    /\ UNCHANGED <<creds, topic, connected, recent, was, mqttVars, mainVars, ok, sending,
                   faults>>

\* It fails, for such a key always and for want of memory now and then: an early return,
\* before the client there may be is touched.
ConnectUnsigned(t) ==
    /\ At(t, "connect")
    /\ mutex = Free
    /\ IF creds \in Unsignable THEN UNCHANGED faults
       ELSE faults < MaxFaults /\ faults' = faults + 1
    /\ stopping' = FALSE
    /\ unsigned' = TRUE
    /\ Goto(t, "after")
    /\ UNCHANGED <<creds, topic, connected, token, recent, mutex, signed, was, mqttVars,
                   mainVars, ok, sending>>

\* A client whose name and password come from two configurations is let in by no
\* broker: it is as good as one without a name.
Presented(t) == IF creds = signed THEN creds ELSE NoId

\* Mutant: mqtt_mgr_init keeps the client there is.
ConnectClient_Reuses(t) ==
    /\ At(t, "client")
    /\ event.step = "idle"
    /\ client' = IF client = NoClient THEN Presented(t) ELSE client
    /\ mconn' = FALSE /\ bits' = {} /\ link' = FALSE
    /\ recent' = TRUE
    /\ mutex' = Free /\ signed' = NoId
    /\ Goto(t, "wait")
    /\ UNCHANGED <<creds, topic, connected, stopping, token, unsigned, was, event, mainVars, ok,
                   sending, faults>>

\* mqtt_mgr_init destroys the client there may be (esp_mqtt_client_stop waits for
\* the client task to leave its handler), then mqtt_mgr_connect starts a new one.
ConnectClient(t) ==
    /\ At(t, "client")
    /\ event.step = "idle"
    /\ client' = Presented(t)
    /\ mconn' = FALSE /\ bits' = {} /\ link' = FALSE
    /\ recent' = TRUE
    /\ mutex' = Free /\ signed' = NoId
    /\ Goto(t, "wait")
    /\ UNCHANGED <<creds, topic, connected, stopping, token, unsigned, was, event, mainVars, ok,
                   sending, faults>>

\* Mutant: the early return keeps s_mutex.
ConnectFails_KeepsMutex(t) ==
    /\ At(t, "client")
    /\ event.step = "idle"
    /\ faults < MaxFaults
    /\ faults' = faults + 1
    /\ client' = NoClient
    /\ mconn' = FALSE /\ bits' = {} /\ link' = FALSE
    /\ signed' = NoId
    /\ Goto(t, "after")
    /\ UNCHANGED <<creds, topic, connected, stopping, token, unsigned, recent, mutex, was,
                   event, mainVars, ok, sending>>

\* mqtt_mgr_init or mqtt_mgr_connect fails: an early return.  A client that was made and
\* not started is as good as none: nothing happens to it before it is destroyed.
ConnectFails(t) ==
    /\ At(t, "client")
    /\ event.step = "idle"
    /\ faults < MaxFaults
    /\ faults' = faults + 1
    /\ client' = NoClient
    /\ mconn' = FALSE /\ bits' = {} /\ link' = FALSE
    /\ mutex' = Free /\ signed' = NoId
    /\ Goto(t, "after")
    /\ UNCHANGED <<creds, topic, connected, stopping, token, unsigned, recent, was, event,
                   mainVars, ok, sending>>

\* mqtt_mgr_wait_until_connected: no client, an event bit, or 15 s without any.
Wait(t) ==
    /\ At(t, "wait")
    /\ \/ /\ client = NoClient \/ bits # {}
          /\ ok' = [ok EXCEPT ![t] = client # NoClient /\ "C" \in bits]
          /\ UNCHANGED faults
       \/ /\ client # NoClient /\ bits = {} /\ faults < MaxFaults
          /\ faults' = faults + 1
          /\ UNCHANGED ok
    /\ Goto(t, "waited")
    /\ UNCHANGED <<azureVars, mqttVars, mainVars, sending>>

\* azure_iot_wait_until_connected stores what it was told.
Waited(t) ==
    /\ At(t, "waited")
    /\ connected' = ok[t]
    /\ Goto(t, "after")
    /\ UNCHANGED <<creds, topic, stopping, token, recent, mutex, signed, unsigned, was,
                   mqttVars, mainVars, ok, sending, faults>>
-------------------------------------------------------------------------------
(* azure_iot_disconnect, under s_mutex.                                    *)

DisconnectBegin(t) ==
    /\ At(t, "disconnect")
    /\ mutex = Free
    /\ mutex' = t
    /\ connected' = FALSE
    /\ stopping' = TRUE
    /\ was' = mconn
    /\ Goto(t, "stop")
    /\ UNCHANGED <<creds, topic, token, recent, signed, unsigned, mqttVars, mainVars, ok,
                   sending, faults>>

\* mqtt_mgr_disconnect or mqtt_mgr_destroy, up to esp_mqtt_client_stop.
DisconnectStop(t) ==
    /\ At(t, "stop")
    /\ IF client = NoClient THEN UNCHANGED <<mconn, bits>>
       ELSE mconn' = FALSE /\ bits' = IF was THEN bits \ {"C"} ELSE bits
    /\ Goto(t, "destroy")
    /\ UNCHANGED <<azureVars, client, link, event, mainVars, ok, sending, faults>>

\* The client task has left its handler.  Only after mqtt_mgr_disconnect is the
\* flag cleared once more: an event handled meanwhile may have set it.
DisconnectDestroy(t) ==
    /\ At(t, "destroy")
    /\ event.step = "idle"
    /\ client' = NoClient
    /\ mconn' = IF client # NoClient /\ was THEN FALSE ELSE mconn
    /\ bits' = {} /\ link' = FALSE
    /\ stopping' = FALSE
    /\ mutex' = Free /\ was' = FALSE
    /\ Goto(t, IF t = "http" THEN "check" ELSE "connect")
    /\ UNCHANGED <<creds, topic, connected, token, recent, signed, unsigned, event,
                   mainVars, ok, sending, faults>>
-------------------------------------------------------------------------------
(* The callers.                                                            *)

\* on_http_connection_update takes s_cloud_lock and compares the identities.
UpdateBegin(id) ==
    /\ At("http", "idle")
    /\ updates < MaxUpdates
    /\ updates' = updates + 1
    /\ cloudLock = Free
    /\ cloudLock' = "http"
    /\ asked' = id
    /\ Goto("http", IF IsConnected /\ active # id THEN "disconnect" ELSE "check")
    /\ UNCHANGED <<azureVars, mqttVars, active, bgStarted, ok, sending, faults>>

\* Connected or not, after the disconnect there may have been.
UpdateCheck ==
    /\ At("http", "check")
    /\ IF IsConnected THEN Goto("http", "end") ELSE Goto("http", "start")
    /\ UNCHANGED <<azureVars, mqttVars, mainVars, ok, sending, faults>>

UpdateEnd ==
    /\ At("http", "end")
    /\ cloudLock' = Free
    /\ asked' = BootId
    /\ Goto("http", "idle")
    /\ UNCHANGED <<azureVars, mqttVars, active, bgStarted, updates, ok, sending, faults>>

\* The end of connect_azure_if_possible: after an error, no background task.
Connected(t) ==
    /\ At(t, "after")
    /\ IF ok[t] /\ t # "bg"
         THEN bgStarted' = TRUE /\ active' = Config(t)
         ELSE UNCHANGED <<bgStarted, active>>
    /\ ok' = [ok EXCEPT ![t] = FALSE]
    /\ Goto(t, IF t = "bg" THEN "idle" ELSE "end")
    /\ UNCHANGED <<azureVars, mqttVars, cloudLock, asked, updates, sending, faults>>

\* Mutant: only an expired token makes the task reconnect.
Background_TokenOnly ==
    /\ bgStarted
    /\ At("bg", "idle")
    /\ token # "valid"
    /\ Goto("bg", "disconnect")
    /\ UNCHANGED <<azureVars, mqttVars, mainVars, ok, sending, faults>>

\* One round of background_task, but for the drain (PendingTelemetry).
Background ==
    /\ bgStarted
    /\ At("bg", "idle")
    /\ \/ /\ token # "valid" \/ (~IsConnected /\ ~recent)
          /\ Goto("bg", "disconnect")
          /\ UNCHANGED recent
       \/ /\ token = "valid" /\ ~IsConnected /\ recent
          /\ recent' = FALSE
          /\ UNCHANGED pc
    /\ UNCHANGED <<creds, topic, connected, stopping, token, mutex, signed, unsigned, was,
                   mqttVars, mainVars, ok, sending, faults>>
-------------------------------------------------------------------------------
(* The telemetry task: deliver_payload.                                    *)

\* Mutant: no lock around the check and the publish.
PublishBegin_NoLock ==
    /\ ~sending
    /\ IsConnected
    /\ sending' = TRUE
    /\ UNCHANGED <<azureVars, mqttVars, mainVars, taskVars, faults>>

PublishBegin ==
    /\ ~sending
    /\ mutex = Free
    /\ IsConnected
    /\ mutex' = "telemetry"
    /\ sending' = TRUE
    /\ UNCHANGED <<creds, topic, connected, stopping, token, recent, signed, unsigned,
                   was, mqttVars, mainVars, taskVars, faults>>

\* esp_mqtt_client_publish takes the lock of the client, which the client task
\* holds while it delivers an event.
Publish ==
    /\ sending
    /\ client # NoClient => event.step = "idle"
    /\ mutex' = IF mutex = "telemetry" THEN Free ELSE mutex
    /\ sending' = FALSE
    /\ UNCHANGED <<creds, topic, connected, stopping, token, recent, signed, unsigned,
                   was, mqttVars, mainVars, taskVars, faults>>
-------------------------------------------------------------------------------
(* The client task of esp-mqtt: the broker's answers (external), then the  *)
(* handler of mqtt_mgr.c, then mqtt_event_bridge.                          *)

Deliver(kind) == event' = [step |-> "mgr", kind |-> kind]

\* A client with an identity is let in.
ClientUp ==
    /\ client \in Ids /\ ~link /\ event.step = "idle"
    /\ link' = TRUE
    /\ Deliver("CONNECTED")
    /\ UNCHANGED <<azureVars, client, mconn, bits, mainVars, taskVars, sending, faults>>

\* One without is refused, each time it tries.
ClientRefused ==
    /\ client = NoId /\ event.step = "idle"
    /\ Deliver("DOWN")
    /\ UNCHANGED <<azureVars, client, mconn, bits, link, mainVars, taskVars, sending, faults>>

\* The link, or an attempt to connect, fails; the client will try again.
ClientDown ==
    /\ client # NoClient /\ event.step = "idle"
    /\ faults < MaxFaults
    /\ faults' = faults + 1
    /\ link' = FALSE
    /\ Deliver("DOWN")
    /\ UNCHANGED <<azureVars, client, mconn, bits, mainVars, taskVars, sending>>

\* The handler of mqtt_mgr.c passes it on as it is.
ClientData ==
    /\ link /\ event.step = "idle"
    /\ event' = [step |-> "bridge", kind |-> "DATA"]
    /\ UNCHANGED <<azureVars, client, mconn, bits, link, mainVars, taskVars, sending, faults>>

HandleEvent ==
    /\ event.step = "mgr"
    /\ event' = [event EXCEPT !.step = "bridge"]
    /\ mconn' = (event.kind = "CONNECTED")
    /\ bits' = IF event.kind = "CONNECTED" THEN {"C"} ELSE {"F"}
    /\ UNCHANGED <<azureVars, client, link, mainVars, taskVars, sending, faults>>

\* mqtt_event_bridge.  A direct method runs here to its end (SmartloadApp).
BridgeEvent ==
    /\ event.step = "bridge"
    /\ event' = Quiet
    /\ connected' = IF stopping \/ event.kind = "DATA" THEN connected
                    ELSE event.kind = "CONNECTED"
    /\ UNCHANGED <<creds, topic, stopping, token, recent, mutex, signed, unsigned, was,
                   client, mconn, bits, link, mainVars, taskVars, sending, faults>>

\* Thirty days pass.
TokenExpires ==
    /\ token = "valid"
    /\ faults < MaxFaults
    /\ faults' = faults + 1
    /\ token' = "expired"
    /\ UNCHANGED <<creds, topic, connected, stopping, recent, mutex, signed, unsigned,
                   was, mqttVars, mainVars, taskVars, sending>>
-------------------------------------------------------------------------------
Session(t) ==
    \/ ConnectBegin(t) \/ ConnectUnsigned(t) \/ ConnectClient(t) \/ ConnectFails(t)
    \/ Wait(t) \/ Waited(t)
    \/ InitClear(t) \/ InitFill(t) \/ Connected(t)
    \/ DisconnectBegin(t) \/ DisconnectStop(t) \/ DisconnectDestroy(t)

Next ==
    \/ \E t \in Tasks : Session(t)
    \/ \E id \in Ids : UpdateBegin(id)
    \/ UpdateCheck \/ UpdateEnd \/ Background
    \/ PublishBegin \/ Publish
    \/ ClientUp \/ ClientRefused \/ ClientDown \/ ClientData \/ HandleEvent \/ BridgeEvent
    \/ TokenExpires

Spec == Init /\ [][Next]_vars

\* The tasks and the client task run; a mutex is granted to a waiting task sooner
\* or later; a wait ends, by an event or after 15 s; a client that keeps trying is
\* let in once failures stop.  Nothing obliges the cloud to send anything.
Fairness ==
    /\ SF_vars(Session("cloud"))
    /\ SF_vars(Session("http") \/ UpdateCheck \/ UpdateEnd)
    /\ SF_vars(Session("bg") \/ Background)
    /\ SF_vars(Publish)
    /\ SF_vars(ClientUp \/ ClientRefused)
    /\ WF_vars(HandleEvent \/ BridgeEvent)

FairSpec == Spec /\ Fairness
-------------------------------------------------------------------------------
(* Properties.                                                             *)

\* Between the check and the publish of deliver_payload no task replaces or frees
\* the client.
ClientStable == [][sending => client' = client]_vars

\* Once no task is between azure_iot_init and the end of mqtt_mgr_connect, the
\* client, s.creds and the telemetry topic name the same device, whatever order
\* the boot task, the HTTP task and azure_bg came in.  Not so while the last connect got
\* no token: then a client of before goes on beside the new credentials and topic, until
\* azure_bg, which takes the missing token for an expired one, destroys it.
SettledIdentity ==
    (\A t \in Tasks : pc[t] \notin {"fill", "connect", "client"}) /\ client # NoClient =>
        topic = creds /\ (client = creds \/ unsigned)

\* Every connect, disconnect and publish ends: no cycle among s_cloud_lock, s_mutex
\* and the client task, which runs the direct methods.
CallsEnd ==
    /\ \A t \in Tasks : []<>(pc[t] \in {"idle", "end"})
    /\ []<>~sending

\* Once azure_bg exists and failures and updates have stopped, the session is
\* restored for good, unless the identity that came last cannot be signed for.
Recovers == <>[](bgStarted => IsConnected \/ creds \in Unsignable)
===============================================================================
