--------------------------- MODULE AzureSessionProofs ---------------------------
(***************************************************************************)
(* Theorems about AzureSession, for any identities and any number of       *)
(* updates and failures.                                                   *)
(***************************************************************************)
EXTENDS AzureSession, TLAPS

\* TypeOK, one variable at a time, but for the holder of s_mutex: the flags, and what
\* else azure_iot.c, mqtt_mgr.c and main.c keep.
FlagTypes ==
    /\ connected \in BOOLEAN /\ stopping \in BOOLEAN /\ recent \in BOOLEAN
    /\ mconn \in BOOLEAN /\ link \in BOOLEAN /\ bgStarted \in BOOLEAN
    /\ was \in BOOLEAN /\ unsigned \in BOOLEAN /\ sending \in BOOLEAN
    /\ ok \in [Tasks -> BOOLEAN]

AzureTypes ==
    /\ creds \in Ids \union {NoId} /\ topic \in Ids \union {NoId}
    /\ signed \in Ids \union {NoId}
    /\ token \in {"none", "valid", "expired"}
    /\ mutex \in Owners

MqttTypes ==
    /\ client \in Ids \union {NoId, NoClient}
    /\ bits \subseteq {"C", "F"}
    /\ event \in [step : {"idle", "mgr", "bridge"}, kind : {"CONNECTED", "DOWN", "DATA"}]

MainTypes ==
    /\ active \in Ids \union {NoId} /\ asked \in Ids
    /\ cloudLock \in {"http", Free}
    /\ pc \in [Tasks -> Locations]
    /\ updates \in 0 .. MaxUpdates /\ faults \in 0 .. MaxFaults

Types == FlagTypes /\ AzureTypes /\ MqttTypes /\ MainTypes

\* A task is in a critical section exactly while it holds s_mutex.
LockInv == \A t \in Tasks : mutex = t <=> pc[t] \in Critical

\* The telemetry task holds s_mutex from its check to its publish.
SendInv == sending <=> mutex = "telemetry"

\* A task that has signed a token and is about to present a client finds s.creds as it
\* signed them, or else another task is on its way to do the same; and whatever
\* azure_iot_init is interrupted by, the topic is that of s.creds.
SignedInv ==
    /\ topic = creds
    /\ \A t \in Tasks : pc[t] = "client" =>
          signed = creds \/ \E u \in Tasks : pc[u] \in {"fill", "connect"}

IInv == TypeOK /\ SendInv /\ SignedInv /\ SettledIdentity

-------------------------------------------------------------------------------
(* Types and the mutex.                                                    *)

\* TypeOK is its two parts.
LEMMA TypeParts == TypeOK <=> Types /\ LockInv
  BY DEF TypeOK, Types, FlagTypes, AzureTypes, MqttTypes, MainTypes, LockInv

\* No task is the telemetry task, nor the value of a mutex that nobody holds.
LEMMA OwnersDiffer ==
  /\ Free \notin Tasks /\ "telemetry" \notin Tasks /\ Free # "telemetry"
  /\ Tasks \subseteq Owners /\ Free \in Owners /\ "telemetry" \in Owners
  BY ConstantsAssumption DEF Tasks, Owners

\* The initial state satisfies every part of the invariant.
LEMMA InitInvariant == Init => IInv
<1> SUFFICES ASSUME Init PROVE IInv
  OBVIOUS
<1>1. /\ \A t \in Tasks : pc[t] \in {"start", "idle"}
      /\ pc \in [Tasks -> Locations]
  BY DEF Init, Tasks, Locations
<1>2. Types
  <2>1. FlagTypes
    BY DEF Init, FlagTypes
  <2>2. AzureTypes
    BY OwnersDiffer DEF Init, AzureTypes
  <2>3. MqttTypes
    BY DEF Init, MqttTypes, Quiet
  <2>4. MainTypes
    BY <1>1, ConstantsAssumption DEF Init, MainTypes
  <2> QED
    BY <2>1, <2>2, <2>3, <2>4 DEF Types
<1>3. LockInv
  BY <1>1, OwnersDiffer DEF Init, LockInv, Critical
<1>4. SendInv /\ SignedInv /\ SettledIdentity
  BY <1>1, OwnersDiffer DEF Init, SendInv, SignedInv, SettledIdentity
<1> QED
  BY <1>2, <1>3, <1>4, TypeParts DEF IInv

\* No step gives a flag a value outside its type.
LEMMA FlagTypesStep ==
  ASSUME Types, [Next]_vars PROVE FlagTypes'
<1> USE DEF FlagTypes
<1> FlagTypes /\ AzureTypes /\ MqttTypes /\ MainTypes
  BY DEF Types
<1>1. ASSUME NEW t \in Tasks, Session(t) PROVE FlagTypes'
  <2>1. CASE InitClear(t)
    BY <2>1 DEF InitClear, At, Goto, mqttVars, mainVars
  <2>2. CASE InitFill(t)
    BY <2>2 DEF InitFill, At, Goto, Config, mqttVars, mainVars
  <2>3. CASE ConnectBegin(t)
    BY <2>3 DEF ConnectBegin, At, Goto, mqttVars, mainVars
  <2>4. CASE ConnectClient(t)
    BY <2>4 DEF ConnectClient, At, Goto, Presented, mainVars
  <2>5. CASE ConnectFails(t)
    BY <2>5 DEF ConnectFails, At, Goto, mainVars
  <2>6. CASE Wait(t)
    BY <2>6 DEF Wait, At, Goto, azureVars, mqttVars, mainVars
  <2>7. CASE Waited(t)
    BY <2>7 DEF Waited, At, Goto, mqttVars, mainVars
  <2>8. CASE Connected(t)
    BY <2>8 DEF Connected, At, Goto, Config, azureVars, mqttVars
  <2>9. CASE DisconnectBegin(t)
    BY <2>9 DEF DisconnectBegin, At, Goto, mqttVars, mainVars
  <2>10. CASE DisconnectStop(t)
    BY <2>10 DEF DisconnectStop, At, Goto, azureVars, mainVars
  <2>11. CASE DisconnectDestroy(t)
    BY <2>11 DEF DisconnectDestroy, At, Goto, mainVars
  <2>12. CASE ConnectUnsigned(t)
    BY <2>12 DEF ConnectUnsigned, At, Goto, mqttVars, mainVars
  <2> QED
    BY <1>1, <2>1, <2>2, <2>3, <2>4, <2>5, <2>6, <2>7, <2>8, <2>9, <2>10, <2>11,
       <2>12 DEF Session
<1>2. ASSUME NEW id \in Ids, UpdateBegin(id) PROVE FlagTypes'
  BY <1>2 DEF UpdateBegin, At, Goto, azureVars, mqttVars
<1>3. CASE UpdateCheck
  BY <1>3 DEF UpdateCheck, At, Goto, azureVars, mqttVars, mainVars
<1>4. CASE UpdateEnd
  BY <1>4 DEF UpdateEnd, At, Goto, azureVars, mqttVars
<1>5. CASE Background
  BY <1>5 DEF Background, At, Goto, mqttVars, mainVars
<1>6. CASE PublishBegin
  BY <1>6 DEF PublishBegin, mqttVars, mainVars, taskVars
<1>7. CASE Publish
  BY <1>7 DEF Publish, mqttVars, mainVars, taskVars
<1>8. CASE ClientUp
  BY <1>8 DEF ClientUp, Deliver, azureVars, mainVars, taskVars
<1>9. CASE ClientDown
  BY <1>9 DEF ClientDown, Deliver, azureVars, mainVars, taskVars
<1>10. CASE ClientData
  BY <1>10 DEF ClientData, azureVars, mainVars, taskVars
<1>11. CASE HandleEvent
  BY <1>11 DEF HandleEvent, azureVars, mainVars, taskVars
<1>12. CASE BridgeEvent
  BY <1>12 DEF BridgeEvent, Quiet, mainVars, taskVars
<1>13. CASE TokenExpires
  BY <1>13 DEF TokenExpires, mqttVars, mainVars, taskVars
<1>14. CASE UNCHANGED vars
  BY <1>14 DEF vars, azureVars, mqttVars, mainVars, taskVars
<1>15. CASE ClientRefused
  BY <1>15 DEF ClientRefused, Deliver, azureVars, mainVars, taskVars
<1> QED
  BY <1>1, <1>2, <1>3, <1>4, <1>5, <1>6, <1>7, <1>8, <1>9, <1>10, <1>11, <1>12, <1>13, <1>14,
     <1>15 DEF Next

\* No step gives what azure_iot.c keeps a value outside its type.
LEMMA AzureTypesStep ==
  ASSUME Types, [Next]_vars PROVE AzureTypes'
<1> USE DEF AzureTypes
<1> FlagTypes /\ AzureTypes /\ MqttTypes /\ MainTypes
  BY DEF Types
<1>1. ASSUME NEW t \in Tasks, Session(t) PROVE AzureTypes'
  <2>1. CASE InitClear(t)
    BY <2>1, OwnersDiffer, ConstantsAssumption DEF InitClear, At, Goto, mqttVars, mainVars
  <2>2. CASE InitFill(t)
    BY <2>2, OwnersDiffer, ConstantsAssumption DEF InitFill, At, Goto, Config,
           MainTypes, mqttVars, mainVars
  <2>3. CASE ConnectBegin(t)
    BY <2>3, OwnersDiffer, ConstantsAssumption DEF ConnectBegin, At, Goto, mqttVars, mainVars
  <2>4. CASE ConnectClient(t)
    BY <2>4, OwnersDiffer, ConstantsAssumption DEF ConnectClient, At, Goto, Presented, mainVars
  <2>5. CASE ConnectFails(t)
    BY <2>5, OwnersDiffer, ConstantsAssumption DEF ConnectFails, At, Goto, mainVars
  <2>6. CASE Wait(t)
    BY <2>6, OwnersDiffer, ConstantsAssumption DEF Wait, At, Goto, azureVars, mqttVars, mainVars
  <2>7. CASE Waited(t)
    BY <2>7, OwnersDiffer, ConstantsAssumption DEF Waited, At, Goto, mqttVars, mainVars
  <2>8. CASE Connected(t)
    BY <2>8, OwnersDiffer, ConstantsAssumption DEF Connected, At, Goto, Config,
           azureVars, mqttVars
  <2>9. CASE DisconnectBegin(t)
    BY <2>9, OwnersDiffer, ConstantsAssumption DEF DisconnectBegin, At, Goto, mqttVars, mainVars
  <2>10. CASE DisconnectStop(t)
    BY <2>10, OwnersDiffer, ConstantsAssumption DEF DisconnectStop, At, Goto, azureVars,
           mainVars
  <2>11. CASE DisconnectDestroy(t)
    BY <2>11, OwnersDiffer, ConstantsAssumption DEF DisconnectDestroy, At, Goto, mainVars
  <2>12. CASE ConnectUnsigned(t)
    BY <2>12, OwnersDiffer, ConstantsAssumption DEF ConnectUnsigned, At, Goto, mqttVars, mainVars
  <2> QED
    BY <1>1, <2>1, <2>2, <2>3, <2>4, <2>5, <2>6, <2>7, <2>8, <2>9, <2>10, <2>11,
       <2>12 DEF Session
<1>2. ASSUME NEW id \in Ids, UpdateBegin(id) PROVE AzureTypes'
  BY <1>2, OwnersDiffer, ConstantsAssumption DEF UpdateBegin, At, Goto, azureVars, mqttVars
<1>3. CASE UpdateCheck
  BY <1>3, OwnersDiffer, ConstantsAssumption DEF UpdateCheck, At, Goto, azureVars,
         mqttVars, mainVars
<1>4. CASE UpdateEnd
  BY <1>4, OwnersDiffer, ConstantsAssumption DEF UpdateEnd, At, Goto, azureVars, mqttVars
<1>5. CASE Background
  BY <1>5, OwnersDiffer, ConstantsAssumption DEF Background, At, Goto, mqttVars, mainVars
<1>6. CASE PublishBegin
  BY <1>6, OwnersDiffer, ConstantsAssumption DEF PublishBegin, mqttVars, mainVars, taskVars
<1>7. CASE Publish
  BY <1>7, OwnersDiffer, ConstantsAssumption DEF Publish, mqttVars, mainVars, taskVars
<1>8. CASE ClientUp
  BY <1>8, OwnersDiffer, ConstantsAssumption DEF ClientUp, Deliver, azureVars, mainVars,
         taskVars
<1>9. CASE ClientDown
  BY <1>9, OwnersDiffer, ConstantsAssumption DEF ClientDown, Deliver, azureVars, mainVars,
         taskVars
<1>10. CASE ClientData
  BY <1>10, OwnersDiffer, ConstantsAssumption DEF ClientData, azureVars, mainVars, taskVars
<1>11. CASE HandleEvent
  BY <1>11, OwnersDiffer, ConstantsAssumption DEF HandleEvent, azureVars, mainVars, taskVars
<1>12. CASE BridgeEvent
  BY <1>12, OwnersDiffer, ConstantsAssumption DEF BridgeEvent, Quiet, mainVars, taskVars
<1>13. CASE TokenExpires
  BY <1>13, OwnersDiffer, ConstantsAssumption DEF TokenExpires, mqttVars, mainVars, taskVars
<1>14. CASE UNCHANGED vars
  BY <1>14 DEF vars, azureVars, mqttVars, mainVars, taskVars
<1>15. CASE ClientRefused
  BY <1>15, OwnersDiffer, ConstantsAssumption DEF ClientRefused, Deliver, azureVars, mainVars,
         taskVars
<1> QED
  BY <1>1, <1>2, <1>3, <1>4, <1>5, <1>6, <1>7, <1>8, <1>9, <1>10, <1>11, <1>12, <1>13, <1>14,
     <1>15 DEF Next

\* No step gives the client, its bits or its event a value outside its type.
LEMMA MqttTypesStep ==
  ASSUME Types, [Next]_vars PROVE MqttTypes'
<1> USE DEF MqttTypes
<1> FlagTypes /\ AzureTypes /\ MqttTypes /\ MainTypes
  BY DEF Types
<1>1. ASSUME NEW t \in Tasks, Session(t) PROVE MqttTypes'
  <2>1. CASE InitClear(t)
    BY <2>1 DEF InitClear, At, Goto, mqttVars, mainVars
  <2>2. CASE InitFill(t)
    BY <2>2 DEF InitFill, At, Goto, Config, mqttVars, mainVars
  <2>3. CASE ConnectBegin(t)
    BY <2>3 DEF ConnectBegin, At, Goto, mqttVars, mainVars
  <2>4. CASE ConnectClient(t)
    BY <2>4 DEF ConnectClient, At, Goto, Presented, AzureTypes, mainVars
  <2>5. CASE ConnectFails(t)
    BY <2>5 DEF ConnectFails, At, Goto, mainVars
  <2>6. CASE Wait(t)
    BY <2>6 DEF Wait, At, Goto, azureVars, mqttVars, mainVars
  <2>7. CASE Waited(t)
    BY <2>7 DEF Waited, At, Goto, mqttVars, mainVars
  <2>8. CASE Connected(t)
    BY <2>8 DEF Connected, At, Goto, Config, azureVars, mqttVars
  <2>9. CASE DisconnectBegin(t)
    BY <2>9 DEF DisconnectBegin, At, Goto, mqttVars, mainVars
  <2>10. CASE DisconnectStop(t)
    BY <2>10 DEF DisconnectStop, At, Goto, azureVars, mainVars
  <2>11. CASE DisconnectDestroy(t)
    BY <2>11 DEF DisconnectDestroy, At, Goto, mainVars
  <2>12. CASE ConnectUnsigned(t)
    BY <2>12 DEF ConnectUnsigned, At, Goto, mqttVars, mainVars
  <2> QED
    BY <1>1, <2>1, <2>2, <2>3, <2>4, <2>5, <2>6, <2>7, <2>8, <2>9, <2>10, <2>11,
       <2>12 DEF Session
<1>2. ASSUME NEW id \in Ids, UpdateBegin(id) PROVE MqttTypes'
  BY <1>2 DEF UpdateBegin, At, Goto, azureVars, mqttVars
<1>3. CASE UpdateCheck
  BY <1>3 DEF UpdateCheck, At, Goto, azureVars, mqttVars, mainVars
<1>4. CASE UpdateEnd
  BY <1>4 DEF UpdateEnd, At, Goto, azureVars, mqttVars
<1>5. CASE Background
  BY <1>5 DEF Background, At, Goto, mqttVars, mainVars
<1>6. CASE PublishBegin
  BY <1>6 DEF PublishBegin, mqttVars, mainVars, taskVars
<1>7. CASE Publish
  BY <1>7 DEF Publish, mqttVars, mainVars, taskVars
<1>8. CASE ClientUp
  BY <1>8 DEF ClientUp, Deliver, azureVars, mainVars, taskVars
<1>9. CASE ClientDown
  BY <1>9 DEF ClientDown, Deliver, azureVars, mainVars, taskVars
<1>10. CASE ClientData
  BY <1>10 DEF ClientData, azureVars, mainVars, taskVars
<1>11. CASE HandleEvent
  BY <1>11 DEF HandleEvent, azureVars, mainVars, taskVars
<1>12. CASE BridgeEvent
  BY <1>12 DEF BridgeEvent, Quiet, mainVars, taskVars
<1>13. CASE TokenExpires
  BY <1>13 DEF TokenExpires, mqttVars, mainVars, taskVars
<1>14. CASE UNCHANGED vars
  BY <1>14 DEF vars, azureVars, mqttVars, mainVars, taskVars
<1>15. CASE ClientRefused
  BY <1>15 DEF ClientRefused, Deliver, azureVars, mainVars, taskVars
<1> QED
  BY <1>1, <1>2, <1>3, <1>4, <1>5, <1>6, <1>7, <1>8, <1>9, <1>10, <1>11, <1>12, <1>13, <1>14,
     <1>15 DEF Next

\* No step gives what main.c keeps a value outside its type.
LEMMA MainTypesStep ==
  ASSUME Types, [Next]_vars PROVE MainTypes'
<1> USE DEF MainTypes
<1> FlagTypes /\ AzureTypes /\ MqttTypes /\ MainTypes
  BY DEF Types
<1>1. ASSUME NEW t \in Tasks, Session(t) PROVE MainTypes'
  <2>1. CASE InitClear(t)
    BY <2>1, ConstantsAssumption DEF InitClear, At, Goto, mqttVars, mainVars, Locations, Tasks
  <2>2. CASE InitFill(t)
    BY <2>2, ConstantsAssumption DEF InitFill, At, Goto, Config, mqttVars, mainVars,
           Locations, Tasks
  <2>3. CASE ConnectBegin(t)
    BY <2>3, ConstantsAssumption DEF ConnectBegin, At, Goto, mqttVars, mainVars,
           Locations, Tasks
  <2>4. CASE ConnectClient(t)
    BY <2>4, ConstantsAssumption DEF ConnectClient, At, Goto, Presented, mainVars,
           Locations, Tasks
  <2>5. CASE ConnectFails(t)
    BY <2>5, ConstantsAssumption DEF ConnectFails, At, Goto, mainVars, Locations, Tasks
  <2>6. CASE Wait(t)
    BY <2>6, ConstantsAssumption DEF Wait, At, Goto, azureVars, mqttVars, mainVars,
           Locations, Tasks
  <2>7. CASE Waited(t)
    BY <2>7, ConstantsAssumption DEF Waited, At, Goto, mqttVars, mainVars, Locations, Tasks
  <2>8. CASE Connected(t)
    BY <2>8, ConstantsAssumption DEF Connected, At, Goto, Config, azureVars, mqttVars,
           Locations, Tasks
  <2>9. CASE DisconnectBegin(t)
    BY <2>9, ConstantsAssumption DEF DisconnectBegin, At, Goto, mqttVars, mainVars,
           Locations, Tasks
  <2>10. CASE DisconnectStop(t)
    BY <2>10, ConstantsAssumption DEF DisconnectStop, At, Goto, azureVars, mainVars,
           Locations, Tasks
  <2>11. CASE DisconnectDestroy(t)
    BY <2>11, ConstantsAssumption DEF DisconnectDestroy, At, Goto, mainVars, Locations, Tasks
  <2>12. CASE ConnectUnsigned(t)
    BY <2>12, ConstantsAssumption DEF ConnectUnsigned, At, Goto, mqttVars, mainVars,
           Locations, Tasks
  <2> QED
    BY <1>1, <2>1, <2>2, <2>3, <2>4, <2>5, <2>6, <2>7, <2>8, <2>9, <2>10, <2>11,
       <2>12 DEF Session
<1>2. ASSUME NEW id \in Ids, UpdateBegin(id) PROVE MainTypes'
  BY <1>2, ConstantsAssumption DEF UpdateBegin, At, Goto, azureVars, mqttVars, Locations, Tasks
<1>3. CASE UpdateCheck
  BY <1>3, ConstantsAssumption DEF UpdateCheck, At, Goto, azureVars, mqttVars, mainVars,
         Locations, Tasks
<1>4. CASE UpdateEnd
  BY <1>4, ConstantsAssumption DEF UpdateEnd, At, Goto, azureVars, mqttVars, Locations, Tasks
<1>5. CASE Background
  BY <1>5, ConstantsAssumption DEF Background, At, Goto, mqttVars, mainVars, Locations, Tasks
<1>6. CASE PublishBegin
  BY <1>6, ConstantsAssumption DEF PublishBegin, mqttVars, mainVars, taskVars, Locations, Tasks
<1>7. CASE Publish
  BY <1>7, ConstantsAssumption DEF Publish, mqttVars, mainVars, taskVars, Locations, Tasks
<1>8. CASE ClientUp
  BY <1>8, ConstantsAssumption DEF ClientUp, Deliver, azureVars, mainVars, taskVars,
         Locations, Tasks
<1>9. CASE ClientDown
  BY <1>9, ConstantsAssumption DEF ClientDown, Deliver, azureVars, mainVars, taskVars,
         Locations, Tasks
<1>10. CASE ClientData
  BY <1>10, ConstantsAssumption DEF ClientData, azureVars, mainVars, taskVars, Locations, Tasks
<1>11. CASE HandleEvent
  BY <1>11, ConstantsAssumption DEF HandleEvent, azureVars, mainVars, taskVars, Locations, Tasks
<1>12. CASE BridgeEvent
  BY <1>12, ConstantsAssumption DEF BridgeEvent, Quiet, mainVars, taskVars, Locations, Tasks
<1>13. CASE TokenExpires
  BY <1>13, ConstantsAssumption DEF TokenExpires, mqttVars, mainVars, taskVars, Locations, Tasks
<1>14. CASE UNCHANGED vars
  BY <1>14 DEF vars, azureVars, mqttVars, mainVars, taskVars, Locations, Tasks
<1>15. CASE ClientRefused
  BY <1>15, ConstantsAssumption DEF ClientRefused, Deliver, azureVars, mainVars, taskVars,
         Locations, Tasks
<1> QED
  BY <1>1, <1>2, <1>3, <1>4, <1>5, <1>6, <1>7, <1>8, <1>9, <1>10, <1>11, <1>12, <1>13, <1>14,
     <1>15 DEF Next

\* The four parts of the types together.
LEMMA TypesStep ==
  ASSUME Types, [Next]_vars PROVE Types'
<1> QED
  BY FlagTypesStep, AzureTypesStep, MqttTypesStep, MainTypesStep DEF Types

\* A task enters a critical section by taking s_mutex, which was free, and leaves it by
\* giving it back; the telemetry task does the same around its publish.
LEMMA LockStep ==
  ASSUME Types, LockInv, SendInv, [Next]_vars PROVE LockInv' /\ SendInv'
<1> pc \in [Tasks -> Locations] /\ mutex \in Owners /\ sending \in BOOLEAN
  BY DEF Types, FlagTypes, AzureTypes, MainTypes
<1>1. ASSUME NEW t \in Tasks, Session(t) PROVE LockInv' /\ SendInv'
  <2>1. CASE InitClear(t)
    BY <2>1, OwnersDiffer DEF InitClear, At, Goto, mqttVars, mainVars, LockInv, SendInv,
           Critical
  <2>2. CASE InitFill(t)
    BY <2>2, OwnersDiffer DEF InitFill, At, Goto, Config, mqttVars, mainVars, LockInv,
           SendInv, Critical
  <2>3. CASE ConnectBegin(t)
    BY <2>3, OwnersDiffer DEF ConnectBegin, At, Goto, mqttVars, mainVars, LockInv,
           SendInv, Critical
  <2>4. CASE ConnectClient(t)
    BY <2>4, OwnersDiffer DEF ConnectClient, At, Goto, Presented, mainVars, LockInv,
           SendInv, Critical
  <2>5. CASE ConnectFails(t)
    BY <2>5, OwnersDiffer DEF ConnectFails, At, Goto, mainVars, LockInv, SendInv, Critical
  <2>6. CASE Wait(t)
    BY <2>6, OwnersDiffer DEF Wait, At, Goto, azureVars, mqttVars, mainVars, LockInv,
           SendInv, Critical
  <2>7. CASE Waited(t)
    BY <2>7, OwnersDiffer DEF Waited, At, Goto, mqttVars, mainVars, LockInv, SendInv, Critical
  <2>8. CASE Connected(t)
    BY <2>8, OwnersDiffer DEF Connected, At, Goto, Config, azureVars, mqttVars, LockInv,
           SendInv, Critical
  <2>9. CASE DisconnectBegin(t)
    BY <2>9, OwnersDiffer DEF DisconnectBegin, At, Goto, mqttVars, mainVars, LockInv,
           SendInv, Critical
  <2>10. CASE DisconnectStop(t)
    BY <2>10, OwnersDiffer DEF DisconnectStop, At, Goto, azureVars, mainVars, LockInv,
           SendInv, Critical
  <2>11. CASE DisconnectDestroy(t)
    BY <2>11, OwnersDiffer DEF DisconnectDestroy, At, Goto, mainVars, LockInv, SendInv, Critical
  <2>12. CASE ConnectUnsigned(t)
    BY <2>12, OwnersDiffer DEF ConnectUnsigned, At, Goto, mqttVars, mainVars, LockInv,
           SendInv, Critical
  <2> QED
    BY <1>1, <2>1, <2>2, <2>3, <2>4, <2>5, <2>6, <2>7, <2>8, <2>9, <2>10, <2>11,
       <2>12 DEF Session
<1>2. ASSUME NEW id \in Ids, UpdateBegin(id) PROVE LockInv' /\ SendInv'
  BY <1>2, OwnersDiffer DEF UpdateBegin, At, Goto, azureVars, mqttVars, LockInv, SendInv,
         Critical
<1>3. CASE UpdateCheck
  BY <1>3, OwnersDiffer DEF UpdateCheck, At, Goto, azureVars, mqttVars, mainVars, LockInv,
         SendInv, Critical
<1>4. CASE UpdateEnd
  BY <1>4, OwnersDiffer DEF UpdateEnd, At, Goto, azureVars, mqttVars, LockInv, SendInv, Critical
<1>5. CASE Background
  BY <1>5, OwnersDiffer DEF Background, At, Goto, mqttVars, mainVars, LockInv, SendInv, Critical
<1>6. CASE PublishBegin
  BY <1>6, OwnersDiffer DEF PublishBegin, mqttVars, mainVars, taskVars, LockInv, SendInv,
         Critical
<1>7. CASE Publish
  BY <1>7, OwnersDiffer DEF Publish, mqttVars, mainVars, taskVars, LockInv, SendInv, Critical
<1>8. CASE ClientUp
  BY <1>8, OwnersDiffer DEF ClientUp, Deliver, azureVars, mainVars, taskVars, LockInv,
         SendInv, Critical
<1>9. CASE ClientDown
  BY <1>9, OwnersDiffer DEF ClientDown, Deliver, azureVars, mainVars, taskVars, LockInv,
         SendInv, Critical
<1>10. CASE ClientData
  BY <1>10, OwnersDiffer DEF ClientData, azureVars, mainVars, taskVars, LockInv, SendInv,
         Critical
<1>11. CASE HandleEvent
  BY <1>11, OwnersDiffer DEF HandleEvent, azureVars, mainVars, taskVars, LockInv, SendInv,
         Critical
<1>12. CASE BridgeEvent
  BY <1>12, OwnersDiffer DEF BridgeEvent, Quiet, mainVars, taskVars, LockInv, SendInv, Critical
<1>13. CASE TokenExpires
  BY <1>13, OwnersDiffer DEF TokenExpires, mqttVars, mainVars, taskVars, LockInv, SendInv,
         Critical
<1>14. CASE UNCHANGED vars
  BY <1>14 DEF vars, azureVars, mqttVars, mainVars, taskVars, LockInv, SendInv, Critical
<1>15. CASE ClientRefused
  BY <1>15, OwnersDiffer DEF ClientRefused, Deliver, azureVars, mainVars, taskVars, LockInv,
         SendInv, Critical
<1> QED
  BY <1>1, <1>2, <1>3, <1>4, <1>5, <1>6, <1>7, <1>8, <1>9, <1>10, <1>11, <1>12, <1>13, <1>14,
     <1>15 DEF Next
-------------------------------------------------------------------------------
(* The identity of the session.                                            *)

\* What a task signed for is what is in s.creds when it makes the client, or else a
\* task that will make one after it has not yet signed.
LEMMA SignedStep ==
  ASSUME Types, LockInv, SignedInv, [Next]_vars PROVE SignedInv'
<1> pc \in [Tasks -> Locations]
  BY DEF Types, FlagTypes, AzureTypes, MainTypes
<1>1. ASSUME NEW t \in Tasks, Session(t) PROVE SignedInv'
  <2>1. CASE InitClear(t)
    BY <2>1 DEF InitClear, At, Goto, mqttVars, mainVars, LockInv, SignedInv, Critical
  <2>2. CASE InitFill(t)
    BY <2>2 DEF InitFill, At, Goto, Config, mqttVars, mainVars, LockInv, SignedInv, Critical
  <2>3. CASE ConnectBegin(t)
    BY <2>3 DEF ConnectBegin, At, Goto, mqttVars, mainVars, LockInv, SignedInv, Critical
  <2>4. CASE ConnectClient(t)
    BY <2>4 DEF ConnectClient, At, Goto, Presented, mainVars, LockInv, SignedInv, Critical
  <2>5. CASE ConnectFails(t)
    BY <2>5 DEF ConnectFails, At, Goto, mainVars, LockInv, SignedInv, Critical
  <2>6. CASE Wait(t)
    BY <2>6 DEF Wait, At, Goto, azureVars, mqttVars, mainVars, LockInv, SignedInv, Critical
  <2>7. CASE Waited(t)
    BY <2>7 DEF Waited, At, Goto, mqttVars, mainVars, LockInv, SignedInv, Critical
  <2>8. CASE Connected(t)
    BY <2>8 DEF Connected, At, Goto, Config, azureVars, mqttVars, LockInv, SignedInv, Critical
  <2>9. CASE DisconnectBegin(t)
    BY <2>9 DEF DisconnectBegin, At, Goto, mqttVars, mainVars, LockInv, SignedInv, Critical
  <2>10. CASE DisconnectStop(t)
    BY <2>10 DEF DisconnectStop, At, Goto, azureVars, mainVars, LockInv, SignedInv, Critical
  <2>11. CASE DisconnectDestroy(t)
    BY <2>11 DEF DisconnectDestroy, At, Goto, mainVars, LockInv, SignedInv, Critical
  <2>12. CASE ConnectUnsigned(t)
    <3>1. \A u \in Tasks : pc[u] # "client"
      BY <2>12, OwnersDiffer DEF ConnectUnsigned, LockInv, Critical
    <3>2. topic' = creds' /\ \A u \in Tasks : pc'[u] # "client"
      BY <2>12, <3>1 DEF ConnectUnsigned, Goto, SignedInv
    <3> QED
      BY <3>2 DEF SignedInv
  <2> QED
    BY <1>1, <2>1, <2>2, <2>3, <2>4, <2>5, <2>6, <2>7, <2>8, <2>9, <2>10, <2>11,
       <2>12 DEF Session
<1>2. ASSUME NEW id \in Ids, UpdateBegin(id) PROVE SignedInv'
  BY <1>2 DEF UpdateBegin, At, Goto, azureVars, mqttVars, LockInv, SignedInv, Critical
<1>3. CASE UpdateCheck
  BY <1>3 DEF UpdateCheck, At, Goto, azureVars, mqttVars, mainVars, LockInv, SignedInv, Critical
<1>4. CASE UpdateEnd
  BY <1>4 DEF UpdateEnd, At, Goto, azureVars, mqttVars, LockInv, SignedInv, Critical
<1>5. CASE Background
  BY <1>5 DEF Background, At, Goto, mqttVars, mainVars, LockInv, SignedInv, Critical
<1>6. CASE PublishBegin
  BY <1>6 DEF PublishBegin, mqttVars, mainVars, taskVars, LockInv, SignedInv, Critical
<1>7. CASE Publish
  BY <1>7 DEF Publish, mqttVars, mainVars, taskVars, LockInv, SignedInv, Critical
<1>8. CASE ClientUp
  BY <1>8 DEF ClientUp, Deliver, azureVars, mainVars, taskVars, LockInv, SignedInv, Critical
<1>9. CASE ClientDown
  BY <1>9 DEF ClientDown, Deliver, azureVars, mainVars, taskVars, LockInv, SignedInv, Critical
<1>10. CASE ClientData
  BY <1>10 DEF ClientData, azureVars, mainVars, taskVars, LockInv, SignedInv, Critical
<1>11. CASE HandleEvent
  BY <1>11 DEF HandleEvent, azureVars, mainVars, taskVars, LockInv, SignedInv, Critical
<1>12. CASE BridgeEvent
  BY <1>12 DEF BridgeEvent, Quiet, mainVars, taskVars, LockInv, SignedInv, Critical
<1>13. CASE TokenExpires
  BY <1>13 DEF TokenExpires, mqttVars, mainVars, taskVars, LockInv, SignedInv, Critical
<1>14. CASE UNCHANGED vars
  BY <1>14 DEF vars, azureVars, mqttVars, mainVars, taskVars, LockInv, SignedInv, Critical
<1>15. CASE ClientRefused
  BY <1>15 DEF ClientRefused, Deliver, azureVars, mainVars, taskVars, LockInv, SignedInv, Critical
<1> QED
  BY <1>1, <1>2, <1>3, <1>4, <1>5, <1>6, <1>7, <1>8, <1>9, <1>10, <1>11, <1>12, <1>13, <1>14,
     <1>15 DEF Next

\* The last task to pass between azure_iot_init and mqtt_mgr_connect leaves a client
\* that presents what s.creds and the topic say, or no token.
LEMMA SettledStep ==
  ASSUME Types, LockInv, SignedInv, SettledIdentity, [Next]_vars PROVE SettledIdentity'
<1> pc \in [Tasks -> Locations]
  BY DEF Types, FlagTypes, AzureTypes, MainTypes
<1>1. ASSUME NEW t \in Tasks, Session(t) PROVE SettledIdentity'
  <2>1. CASE InitClear(t)
    BY <2>1 DEF InitClear, At, Goto, mqttVars, mainVars, SettledIdentity
  <2>2. CASE InitFill(t)
    BY <2>2 DEF InitFill, At, Goto, Config, mqttVars, mainVars, SettledIdentity
  <2>3. CASE ConnectBegin(t)
    BY <2>3 DEF ConnectBegin, At, Goto, mqttVars, mainVars, SettledIdentity
  <2>4. CASE ConnectClient(t)
    <3> SUFFICES ASSUME \A u \in Tasks : pc'[u] \notin {"fill", "connect", "client"}
                 PROVE  topic' = creds' /\ client' = creds'
      BY DEF SettledIdentity
    <3>1. pc[t] = "client" /\ \A u \in Tasks \ {t} : pc'[u] = pc[u]
      BY <2>4 DEF ConnectClient, At, Goto
    <3>2. signed = creds /\ topic = creds
      BY <3>1 DEF SignedInv
    <3> QED
      BY <3>2, <2>4 DEF ConnectClient, Presented
  <2>5. CASE ConnectFails(t)
    BY <2>5 DEF ConnectFails, At, Goto, mainVars, SettledIdentity
  <2>6. CASE Wait(t)
    BY <2>6 DEF Wait, At, Goto, azureVars, mqttVars, mainVars, SettledIdentity
  <2>7. CASE Waited(t)
    BY <2>7 DEF Waited, At, Goto, mqttVars, mainVars, SettledIdentity
  <2>8. CASE Connected(t)
    BY <2>8 DEF Connected, At, Goto, Config, azureVars, mqttVars, SettledIdentity
  <2>9. CASE DisconnectBegin(t)
    BY <2>9 DEF DisconnectBegin, At, Goto, mqttVars, mainVars, SettledIdentity
  <2>10. CASE DisconnectStop(t)
    BY <2>10 DEF DisconnectStop, At, Goto, azureVars, mainVars, SettledIdentity
  <2>11. CASE DisconnectDestroy(t)
    BY <2>11 DEF DisconnectDestroy, At, Goto, mainVars, SettledIdentity
  <2>12. CASE ConnectUnsigned(t)
    BY <2>12 DEF ConnectUnsigned, mqttVars, SignedInv, SettledIdentity
  <2> QED
    BY <1>1, <2>1, <2>2, <2>3, <2>4, <2>5, <2>6, <2>7, <2>8, <2>9, <2>10, <2>11,
       <2>12 DEF Session
<1>2. ASSUME NEW id \in Ids, UpdateBegin(id) PROVE SettledIdentity'
  BY <1>2 DEF UpdateBegin, At, Goto, azureVars, mqttVars, SettledIdentity
<1>3. CASE UpdateCheck
  BY <1>3 DEF UpdateCheck, At, Goto, azureVars, mqttVars, mainVars, SettledIdentity
<1>4. CASE UpdateEnd
  BY <1>4 DEF UpdateEnd, At, Goto, azureVars, mqttVars, SettledIdentity
<1>5. CASE Background
  BY <1>5 DEF Background, At, Goto, mqttVars, mainVars, SettledIdentity
<1>6. CASE PublishBegin
  BY <1>6 DEF PublishBegin, mqttVars, mainVars, taskVars, SettledIdentity
<1>7. CASE Publish
  BY <1>7 DEF Publish, mqttVars, mainVars, taskVars, SettledIdentity
<1>8. CASE ClientUp
  BY <1>8 DEF ClientUp, Deliver, azureVars, mainVars, taskVars, SettledIdentity
<1>9. CASE ClientDown
  BY <1>9 DEF ClientDown, Deliver, azureVars, mainVars, taskVars, SettledIdentity
<1>10. CASE ClientData
  BY <1>10 DEF ClientData, azureVars, mainVars, taskVars, SettledIdentity
<1>11. CASE HandleEvent
  BY <1>11 DEF HandleEvent, azureVars, mainVars, taskVars, SettledIdentity
<1>12. CASE BridgeEvent
  BY <1>12 DEF BridgeEvent, Quiet, mainVars, taskVars, SettledIdentity
<1>13. CASE TokenExpires
  BY <1>13 DEF TokenExpires, mqttVars, mainVars, taskVars, SettledIdentity
<1>14. CASE UNCHANGED vars
  BY <1>14 DEF vars, azureVars, mqttVars, mainVars, taskVars, SettledIdentity
<1>15. CASE ClientRefused
  BY <1>15 DEF ClientRefused, Deliver, azureVars, mainVars, taskVars, SettledIdentity
<1> QED
  BY <1>1, <1>2, <1>3, <1>4, <1>5, <1>6, <1>7, <1>8, <1>9, <1>10, <1>11, <1>12, <1>13, <1>14,
     <1>15 DEF Next
-------------------------------------------------------------------------------
(* The theorems.                                                           *)

\* The invariant holds in every reachable state.
THEOREM Invariance == Spec => []IInv
<1>1. ASSUME IInv, [Next]_vars PROVE IInv'
  <2>1. Types /\ LockInv /\ SendInv /\ SignedInv /\ SettledIdentity
    BY <1>1, TypeParts DEF IInv
  <2>2. Types' /\ LockInv' /\ SendInv'
    BY <1>1, <2>1, TypesStep, LockStep
  <2>3. SignedInv' /\ SettledIdentity'
    BY <1>1, <2>1, SignedStep, SettledStep
  <2>4. (TypeOK <=> Types /\ LockInv)'
    BY TypeParts, PTL
  <2> QED
    BY <2>2, <2>3, <2>4 DEF IInv
<1> QED
  BY <1>1, InitInvariant, PTL DEF Spec

\* Every variable keeps to its type, and s_mutex is held by the task that is in one of
\* its critical sections.
THEOREM TypeCorrect == Spec => []TypeOK
  BY Invariance, PTL DEF IInv

\* Whatever order the boot task, the HTTP task and azure_bg run azure_iot_init and
\* azure_iot_connect in, and although azure_iot_init takes no lock, once none of them is
\* on its way the client, s.creds and the topic name the same device; or else the last
\* connect got no token, and s.creds and the topic are those it failed with.
THEOREM SettledIdentityHolds == Spec => []SettledIdentity
  BY Invariance, PTL DEF IInv

\* The lock around deliver_payload is enough: between the check and the publish no step
\* of any task replaces the client or destroys it.
THEOREM ClientStableHolds == Spec => ClientStable
<1>1. ASSUME IInv, [Next]_vars PROVE sending => client' = client
  <2> SUFFICES ASSUME client' # client PROVE ~sending
    OBVIOUS
  <2>1. PICK t \in Tasks : ConnectClient(t) \/ ConnectFails(t) \/ DisconnectDestroy(t)
    BY <1>1 DEF Next, Session, InitClear, InitFill, ConnectBegin, ConnectUnsigned,
          Wait, Waited, Connected,
          DisconnectBegin, DisconnectStop, UpdateBegin, UpdateCheck, UpdateEnd, Background,
          PublishBegin, Publish, ClientUp, ClientRefused, ClientDown, ClientData,
          HandleEvent, BridgeEvent, TokenExpires, vars, mqttVars
  <2>2. pc[t] \in Critical
    BY <2>1 DEF ConnectClient, ConnectFails, DisconnectDestroy, At, Critical
  <2>3. mutex = t
    BY <1>1, <2>2, TypeParts DEF IInv, LockInv
  <2> QED
    BY <1>1, <2>3, OwnersDiffer DEF IInv, SendInv
<1>2. IInv /\ [Next]_vars => [sending => client' = client]_vars
  BY <1>1
<1> QED
  BY <1>2, Invariance, PTL DEF Spec, ClientStable
===============================================================================
