\* Any Modbus call may fail, carried out or not; one reset.
CONSTANTS
    Triples <- OneTriple
    Batches <- OneBatch
    Methods <- AllMethods
    MaxMethods = 1
    MaxPolls = 2
    MaxResets = 1
    WordSize = 65536
    Faults = TRUE
    Free = Free
SPECIFICATION FairSpec
INVARIANTS TypeOK ActsAsAsked RunningExplained
PROPERTIES ImplementsAtomicJobs EveryJobEnds TelemetryStarts
