\* More messages than one scan; a restart, by an update or not, and a second
\* azure_iot_init.
CONSTANTS
    MaxMsgs = 3
    ScanMax = 2
    Torn = Torn
    NoMsg = NoMsg
    MaxFaults = 3
    MaxReboots = 1
    MaxReinits = 1
    Versions <- MCVersions
    MaxInt = 20
    NoUpdate = NoUpdate
SPECIFICATION DeviceSpec
INVARIANTS DeviceTypeOK QueuedSurvivesUntilReset
PROPERTIES QueueDrains OnlyNewerRequested
\* Once every message is delivered and both tasks rest, only the reset remains.
CHECK_DEADLOCK FALSE
