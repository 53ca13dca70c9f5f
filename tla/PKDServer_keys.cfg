SPECIFICATION Spec
CONSTANTS
    Actors = {a1}
    Keys = {k1, k2}
    Malformed = {}
    Enrolled = {}
    Times = {t1}
    Messages <- MCKeys
    Shreddable = {a1}
    Slots = {s1, s2}
    Faults = {"refused", "unanswered", "database", "crash"}
    MaxLog = 4
    NoRoot = NoRoot
    AdminRoot = AdminRoot
    NoMsg = NoMsg
    Absent = Absent
SYMMETRY MCSymmetry
INVARIANTS
    TypeOK
    KeyEventsLogged
    SignerEnrolled
    ShredReachable
    ShredComplete
PROPERTIES
    KeyHistoryAppendOnly
    ShredFinal
CHECK_DEADLOCK FALSE
