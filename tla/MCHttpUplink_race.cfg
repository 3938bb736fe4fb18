\* Both tasks store, with /http_config.json beside their files; no reset.
CONSTANTS
    MaxMsgs = 3
    QueueDepth = 1
    Tries = 2
    Keep = 3
    KeepHard = 3
    Foreign = 1
    Torn = Torn
    MaxFaults = 3
    MaxReboots = 0
SPECIFICATION Spec
INVARIANT NewestKept
\* Once every payload is settled the system may rest.
CHECK_DEADLOCK FALSE
