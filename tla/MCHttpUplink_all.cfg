\* Both tasks store; one reset.  /http_config.json is not on the flash.
CONSTANTS
    MaxMsgs = 4
    QueueDepth = 1
    Tries = 2
    Keep = 1
    KeepHard = 1
    Foreign = 0
    Torn = Torn
    MaxFaults = 2
    MaxReboots = 1
SPECIFICATION FairSpec
INVARIANTS TypeOK OneFate StoreBounded ArrivesInOrder
PROPERTIES EverySendSettles NewestKeptByOne
\* Once every payload is settled the system may rest.
CHECK_DEADLOCK FALSE
