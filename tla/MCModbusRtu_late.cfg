\* Answers may arrive during a later call; the UART may fail.
CONSTANTS
    Tasks = {t1, t2}
    Addrs = {0}
    Vals = {0, 1}
    NoVal = NoVal
    Free = Free
    Reqs <- FewReqs
    MaxCalls = 2
    MaxReadRegs = 8
    MaxWriteRegs = 8
    LateReplies = TRUE
    UartFaults = TRUE
    MaxRx = 1
SPECIFICATION FairSpec
INVARIANTS TypeOK HalfDuplex OkWasAnswered
PROPERTY EveryCallReturns
\* The calls are bounded by MaxCalls.
CHECK_DEADLOCK FALSE
