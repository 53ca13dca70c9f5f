SPECIFICATION MCSpec
CONSTANTS
    a1 = a1
    a2 = a2
    k1 = k1
    k2 = k2
    t1 = t1
    Actors = {a1, a2}
    Keys = {k1, k2}
    Malformed = {}
    Enrolled = {}
    Times = {t1}
    Messages <- MCShred
    Shreddable = {a1}
    Slots = {s1, s2}
    Faults = {}
    MaxLog = 5
    NoRoot = NoRoot
    AdminRoot = AdminRoot
    NoMsg = NoMsg
    Absent = Absent
    Administrator = Administrator
INVARIANT
    ShredComplete
CHECK_DEADLOCK FALSE
