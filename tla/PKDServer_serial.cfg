SPECIFICATION Spec
CONSTANTS
    Actors = {a1, a2}
    Keys = {k1, k2, bad}
    Malformed = {bad}
    Enrolled = {a1, a2}
    Times = {t1}
    Messages <- MCAudit
    Shreddable = {}
    Slots = {s1}
    Faults = {"refused"}
    MaxLog = 5
    NoRoot = NoRoot
    AdminRoot = AdminRoot
    NoMsg = NoMsg
    Absent = Absent
SYMMETRY MCSymmetry
INVARIANTS
    LogOrder
    SignedByOwner
    ReplayMatches
PROPERTIES
    LastKeyStays
    SignedByExistingKey
CHECK_DEADLOCK FALSE
