----------------------------- MODULE ConnectionPull -----------------------------
(***************************************************************************)
(* The connection pull of smartload_http_task: it asks the device-details  *)
(* service for the Azure identity and for the id HTTP requests carry,      *)
(* keeps both in flash and reports the identity to main.c, whose           *)
(* on_http_connection_update is UpdateBegin of AzureSession.  When the     *)
(* service does not answer, the identity kept in flash is used.  Each of   *)
(* the writes to flash may fail, and a reset may come between any two.     *)
(***************************************************************************)
EXTENDS Naturals

CONSTANTS AzureIds,   \* device ids of connection strings
          BackendIds, \* device ids of the device-details service
          NoId,       \* an empty string
          Payloads,   \* what the service may answer, see Answers
          MaxFaults,  \* bound on failures of the service and of the flash
          MaxReboots

\* An answer names a connection string, or its fields one by one, and perhaps a
\* device id of its own.
Answers == [conn : AzureIds \union {NoId}, fields : AzureIds \union {NoId},
            id : BackendIds \union {NoId}]

ConstantsOK ==
    /\ NoId \notin AzureIds \union BackendIds
    /\ Payloads \subseteq Answers
    /\ MaxFaults \in Nat /\ MaxReboots \in Nat

VARIABLES pc,        \* "idle", "id", "conn", "azure" or "tell": where the pull is
          got,       \* what it parsed: [azure, id]
          deviceId,  \* s_device_id
          done,      \* s_conn_lookup_done
          cached,    \* s_cached_connection_applied
          told,      \* the identity reported to main.c since the reset, or NoId
          reports,   \* how often it was reported since the reset
          nvsId, nvsConn, \* http_did and az_conn in NVS
          config,    \* what its app_config_save_azure saved last
          faults, reboots

ram == <<deviceId, done, cached, told, reports>>
flash == <<nvsId, nvsConn, config>>
pullVars == <<pc, got, ram, flash>>
vars == <<pullVars, faults, reboots>>

Ids == AzureIds \union BackendIds \union {NoId}
Nothing == [azure |-> NoId, id |-> NoId]

TypeOK ==
    /\ pc \in {"idle", "id", "conn", "azure", "tell"}
    /\ got \in [azure : AzureIds \union {NoId}, id : Ids]
    /\ {deviceId, nvsId} \subseteq Ids
    /\ {told, nvsConn, config} \subseteq AzureIds \union {NoId}
    /\ done \in BOOLEAN /\ cached \in BOOLEAN
    /\ pc # "idle" => ~done /\ got.id # NoId
    /\ pc \in {"conn", "azure", "tell"} => got.azure # NoId
    /\ reports \in Nat
    /\ faults \in 0 .. MaxFaults /\ reboots \in 0 .. MaxReboots

Init ==
    /\ pc = "idle" /\ got = Nothing
    /\ deviceId = NoId /\ done = FALSE /\ cached = FALSE /\ told = NoId /\ reports = 0
    /\ nvsId = NoId /\ nvsConn = NoId /\ config \in AzureIds \union {NoId}
    /\ faults = 0 /\ reboots = 0

Fault == faults < MaxFaults /\ faults' = faults + 1

\* smartload_http_parse_connection_payload: a connection string is preferred to
\* everything else; among the fields, the service's own id is preferred.
Parsed(p) ==
    [azure |-> IF p.conn # NoId THEN p.conn ELSE p.fields,
     id |-> IF p.conn # NoId THEN p.conn ELSE IF p.id # NoId THEN p.id ELSE p.fields]
-------------------------------------------------------------------------------
(* smartload_http_process_connection_pull.                                 *)

Get ==
    /\ pc = "idle"
    /\ ~done
    /\ \E p \in Payloads :
         /\ Parsed(p).azure = NoId => faults < MaxFaults
         /\ faults' = IF Parsed(p).azure = NoId THEN faults + 1 ELSE faults
         /\ got' = Parsed(p)
         /\ pc' = IF Parsed(p) = Nothing THEN "idle" ELSE "id"
    /\ UNCHANGED <<ram, flash, reboots>>

\* Mutant: the pull always ends here.
StoreId_Stops ==
    /\ pc = "id"
    /\ deviceId' = got.id
    /\ \/ nvsId' = got.id /\ UNCHANGED faults
       \/ Fault /\ UNCHANGED nvsId
    /\ pc' = "idle" /\ got' = Nothing
    /\ UNCHANGED <<done, cached, told, reports, nvsConn, config, reboots>>

\* Mutant: an answer without an identity is stored all the same.
StoreId_Unvalidated ==
    /\ pc = "id"
    /\ deviceId' = got.id
    /\ \/ nvsId' = got.id /\ UNCHANGED faults
       \/ Fault /\ UNCHANGED nvsId
    /\ pc' = "conn"
    /\ UNCHANGED <<got, done, cached, told, reports, nvsConn, config, reboots>>

\* smartload_http_store_device_id; without an identity the pull ends here.
StoreId ==
    /\ pc = "id"
    /\ deviceId' = got.id
    /\ \/ nvsId' = got.id /\ UNCHANGED faults
       \/ Fault /\ UNCHANGED nvsId
    /\ pc' = IF got.azure = NoId THEN "idle" ELSE "conn"
    /\ got' = IF got.azure = NoId THEN Nothing ELSE got
    /\ UNCHANGED <<done, cached, told, reports, nvsConn, config, reboots>>

StoreConn ==
    /\ pc = "conn"
    /\ \/ nvsConn' = got.azure /\ pc' = "azure" /\ UNCHANGED <<got, faults>>
       \/ Fault /\ pc' = "idle" /\ got' = Nothing /\ UNCHANGED nvsConn
    /\ UNCHANGED <<ram, nvsId, config, reboots>>

\* Mutant: the result of app_config_save_azure is not looked at.
SaveAzure_Unchecked ==
    /\ pc = "azure"
    /\ pc' = "tell" /\ UNCHANGED got
    /\ \/ config' = got.azure /\ UNCHANGED faults
       \/ Fault /\ UNCHANGED config
    /\ UNCHANGED <<ram, nvsId, nvsConn, reboots>>

SaveAzure ==
    /\ pc = "azure"
    /\ \/ config' = got.azure /\ pc' = "tell" /\ UNCHANGED <<got, faults>>
       \/ Fault /\ pc' = "idle" /\ got' = Nothing /\ UNCHANGED config
    /\ UNCHANGED <<ram, nvsId, nvsConn, reboots>>

Report(id) == told' = id /\ reports' = reports + 1

\* Mutant: the lookup goes on.
Tell_NotDone ==
    /\ pc = "tell"
    /\ pc' = "idle" /\ got' = Nothing
    /\ cached' = FALSE
    /\ Report(got.azure)
    /\ UNCHANGED <<deviceId, done, flash, faults, reboots>>

Tell ==
    /\ pc = "tell"
    /\ pc' = "idle" /\ got' = Nothing
    /\ done' = TRUE /\ cached' = FALSE
    /\ Report(got.azure)
    /\ UNCHANGED <<deviceId, flash, faults, reboots>>

\* The request failed: the identity in flash is used once, and the id of HTTP is set
\* from it; without one, a 404 ends the lookup and anything else is retried.
NoAnswer(ends) ==
    /\ pc = "idle"
    /\ ~done
    /\ IF ~cached /\ nvsConn # NoId
         THEN /\ deviceId' = nvsConn
              /\ nvsId' \in {nvsId, nvsConn}
              /\ Report(nvsConn)
              /\ cached' = TRUE /\ done' = TRUE
         ELSE /\ done' = ends
              /\ UNCHANGED <<deviceId, nvsId, told, reports, cached>>
    /\ UNCHANGED <<pc, got, nvsConn, config, reboots>>

GetFails == Fault /\ \E ends \in BOOLEAN : NoAnswer(ends)

\* smartload_http_init, then smartload_http_load_device_id_fallback.
Restart ==
    /\ pc' = "idle" /\ got' = Nothing
    /\ deviceId' = nvsId
    /\ done' = FALSE /\ cached' = FALSE /\ told' = NoId /\ reports' = 0
    /\ UNCHANGED flash

Reboot ==
    /\ reboots < MaxReboots
    /\ reboots' = reboots + 1
    /\ Restart
    /\ UNCHANGED faults

Next ==
    \/ Get \/ StoreId \/ StoreConn \/ SaveAzure \/ Tell \/ GetFails
    \/ Reboot

Spec == Init /\ [][Next]_vars
-------------------------------------------------------------------------------
(* Properties.                                                             *)

\* An identity main.c connects with is in flash, so that the next boot finds it
\* again, whatever failed and whenever the reset came; unless it came from there,
\* app_config has it as well.
ToldIsStored == told # NoId => nvsConn = told /\ (~cached => config = told)

\* main.c is told of at most one identity per boot: a pull that succeeds after the
\* cached identity was used cannot make it reconnect (AzureSession's MaxUpdates).
ToldOnce == reports <= 1

\* smartload_http.c:93 says: "HTTP must not fall back to Azure device_id. It must use
\* the backend device_id".  No HTTP id would then be an Azure one.
HttpIdNotAzure == deviceId \notin AzureIds
===============================================================================
