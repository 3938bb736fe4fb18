\* The service always names the id HTTP is to use.
CONSTANTS
    AzureIds = {az1, az2}
    BackendIds = {be1, be2}
    NoId = NoId
    Payloads <- Proper
    MaxFaults = 1
    MaxReboots = 1
SPECIFICATION Spec
INVARIANT HttpIdNotAzure
\* Without Device around it, the lookup is over once the service has answered.
CHECK_DEADLOCK FALSE
