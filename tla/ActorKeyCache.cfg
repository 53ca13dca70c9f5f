SPECIFICATION Spec
CONSTANTS
    Ids = {a1, a2}
    NoId = NoId
    Requests = {q1, q2}
    MaxVersions = 2
INVARIANTS
    TypeOK
    AcceptedWasServed
PROPERTIES
    SettledStays
    SignaturesDecided
CHECK_DEADLOCK FALSE
