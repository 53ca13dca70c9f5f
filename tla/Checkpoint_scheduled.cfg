SPECIFICATION Spec
CONSTANTS
    Requests = {r1}
    Configs <- MCDeployed
    Faults = {}
    MaxRows = 1
    MaxClock = 1
    NoRoot = NoRoot
    NoMessage = NoMessage
PROPERTY ScheduledCheckpointSent
CHECK_DEADLOCK FALSE
