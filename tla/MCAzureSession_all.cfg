\* The boot's identity and two that may be handed out, one of them with a bad key; one
\* update (ToldOnce of ConnectionPull), one failure beside those of that key.
CONSTANTS
    Ids = {boot, new, bad}
    Unsignable = {bad}
    NoId = NoId
    NoClient = NoClient
    BootId = boot
    Free = Free
    MaxUpdates = 1
    MaxFaults = 1
SPECIFICATION FairSpec
INVARIANTS TypeOK SettledIdentity
PROPERTIES ClientStable CallsEnd Recovers
\* Once connected, and with no message to send, the system may rest.
CHECK_DEADLOCK FALSE
