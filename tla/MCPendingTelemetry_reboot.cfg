\* One reboot.
CONSTANTS
    MaxMsgs = 2
    ScanMax = 2
    Torn = Torn
    NoMsg = NoMsg
    MaxFaults = 3
    MaxReboots = 1
    MaxReinits = 0
SPECIFICATION Spec
INVARIANT QueuedSurvives
\* Once every message is delivered the system may rest.
CHECK_DEADLOCK FALSE
