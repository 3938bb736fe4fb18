\* The station gives up after the second join that fails; two networks, and one whose SSID
\* and password are too long to be read back; two failures of any kind and one reset, at
\* any step.
CONSTANTS
    Networks = {net1, net2, net3}
    LongSsid = {net3}
    LongPass = {net3}
    NoNet = NoNet
    Cut = Cut
    FirstNet = net1
    MaxRetry = 1
    MaxSaves = 1
    AzureIds = {"az1", "az2"}
    BackendIds = {"be1"}
    NoId = NoId
    Payloads <- SomeAnswers
    MaxFaults = 2
    MaxReboots = 1
SPECIFICATION FairSpec
INVARIANTS TypeOK ToldIsStored ToldOnce
PROPERTIES StaysConnected BootsWithSavedWifi ReachesCloud
\* The lookup ends, the failures and resets are bounded.
CHECK_DEADLOCK FALSE
