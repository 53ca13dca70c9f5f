SPECIFICATION Spec
CONSTANTS
    Requests = {r1}
    Configs <- MCConfigs
    Faults = {"database", "unreachable", "lost"}
    MaxRows = 2
    MaxClock = 1
    NoRoot = NoRoot
    NoMessage = NoMessage
INVARIANTS
    TypeOK
    RootsWereCommitted
    AcknowledgedAreStored
PROPERTIES
    StopReturns
    
CHECK_DEADLOCK FALSE
