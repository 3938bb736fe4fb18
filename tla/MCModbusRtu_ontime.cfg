\* Answers never outlive their call; the UART never fails.
CONSTANTS
    Tasks = {t1, t2}
    Addrs = {0, 1}
    Vals = {0, 1}
    NoVal = NoVal
    Free = Free
    Reqs <- AllReqs
    MaxCalls = 2
    MaxReadRegs = 8
    MaxWriteRegs = 8
    LateReplies = FALSE
    UartFaults = FALSE
    MaxRx = 1
SPECIFICATION Spec
SYMMETRY Symmetry
INVARIANTS BusReleased OkMeansTaken
PROPERTY ImplementsModbusCall
\* The calls are bounded by MaxCalls.
CHECK_DEADLOCK FALSE
