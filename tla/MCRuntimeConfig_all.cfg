\* A string, device_params, and a number.  A pull may empty the string: NVS then has none,
\* and the file counts, where it stands as an empty object.  A twin document and a config
\* pull beside each other, or two of either; one write fails; one reset.
CONSTANTS
    Names = {"device_params"}
    Objects = {"device_params"}
    Numbers = {"telemetry"}
    TwinFields = {"telemetry"}
    KeyOrder <- Order
    None = None
    MaxUpdates = 2
    MaxFaults = 1
    MaxReboots = 1
SPECIFICATION Spec
INVARIANTS TypeOK CopiesAgree NothingLost
PROPERTY BootsWithWhatWasSaved
\* The updates are bounded by MaxUpdates.
CHECK_DEADLOCK FALSE
