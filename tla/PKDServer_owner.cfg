SPECIFICATION Spec
CONSTANTS
    Actors = {a1, a2}
    Keys = {k1, k2}
    Malformed = {}
    Enrolled = {}
    Times = {t1}
    Messages <- MCAccounts
    Shreddable = {}
    Slots = {s1, s2}
    Faults = {}
    MaxLog = 4
    NoRoot = NoRoot
    AdminRoot = AdminRoot
    NoMsg = NoMsg
    Absent = Absent
INVARIANT SignedByOwner
CHECK_DEADLOCK FALSE
