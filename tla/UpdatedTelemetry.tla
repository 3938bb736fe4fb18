--------------------------- MODULE UpdatedTelemetry ----------------------------
(***************************************************************************)
(* A device that is updated while telemetry is pending: PendingTelemetry,  *)
(* whose resets come from Ota as well.  The update task waits for neither  *)
(* of the other tasks, and restarts the device wherever they are.          *)
(***************************************************************************)
EXTENDS PendingTelemetry, Sequences

CONSTANTS Versions, MaxInt, NoUpdate

VARIABLES firmware, target

Update == INSTANCE Ota

ASSUME UpdateAssumption == Update!ConstantsOK

updateVars == <<firmware, target>>
deviceVars == <<vars, firmware, target>>

DeviceTypeOK == TypeOK /\ Update!TypeOK

DeviceInit == Init /\ Update!Init
-------------------------------------------------------------------------------
\* azure_iot.c: the "ota" method.
OtaMethod(v) == Update!Begin(v) /\ UNCHANGED vars

UpdateFails == Update!Fails /\ UNCHANGED vars

\* esp_restart at the end of ota_task.
Updated == Update!Installs /\ Reboot

\* The "reboot" method, or a loss of power.
Restarted == Update!Restart /\ Reboot

Tasks ==
    \/ Publish \/ Count \/ Open \/ Write
    \/ DrainBegin \/ (\E n \in todo : DrainRead(n)) \/ DrainDeliver \/ DrainRemove \/ DrainEnd
    \/ Reinit

DeviceNext ==
    \/ Tasks /\ UNCHANGED updateVars
    \/ (\E v \in Versions : OtaMethod(v)) \/ UpdateFails \/ Updated \/ Restarted

DeviceSpec == DeviceInit /\ [][DeviceNext]_deviceVars /\ Fairness
-------------------------------------------------------------------------------
(* Properties.                                                             *)

\* The order people mean by version numbers, over all fields.
At(v, i) == IF i > Len(v) THEN 0 ELSE v[i]
Newer(v, w) ==
    \E i \in 1 .. Len(v) : At(v, i) > At(w, i) /\ \A j \in 1 .. i - 1 : At(v, j) = At(w, j)

\* The name has a number, and an int holds each one it has.
Fits(v) == v # <<>> /\ \A i \in DOMAIN v : v[i] <= MaxInt

\* OTA_ERR_NOT_NEWER: whatever the number of fields in the names, the firmware is only
\* ever replaced for a request that named a newer version than the one that runs by then.
\* Not so when a name has no number, or one that an int does not hold.  What the image
\* holds is another matter: ota.c does not compare it with the name, and it may be older.
OnlyNewerRequested ==
    [][firmware' # firmware /\ Fits(firmware) /\ Fits(target) =>
         Newer(target, firmware)]_deviceVars
===============================================================================
