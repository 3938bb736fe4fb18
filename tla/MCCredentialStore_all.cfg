\* Overlapping saves, with and without files and a card; one thing goes wrong.
CONSTANTS
    Creds = {c0, c1, c2}
    BootCred = c0
    None = None
    Torn = Torn
    Savers = {"http", "mqtt"}
    MaxSaves = 3
    MaxFaults = 1
    MaxReboots = 2
SPECIFICATION Spec
SYMMETRY Alike
INVARIANT TypeOK
PROPERTY LoadsWhatWasSaved
\* The saves are bounded by MaxSaves; a device that saves nothing rests.
CHECK_DEADLOCK FALSE
