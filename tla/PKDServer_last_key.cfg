SPECIFICATION Spec
CONSTANTS
    Actors = {a1}
    Keys = {k1, k2}
    Malformed = {}
    Enrolled = {}
    Times = {t1}
    Messages <- MCPlainKeys
    Shreddable = {}
    Slots = {s1, s2}
    Faults = {}
    MaxLog = 4
    NoRoot = NoRoot
    AdminRoot = AdminRoot
    NoMsg = NoMsg
    Absent = Absent
PROPERTY LastKeyStays
CHECK_DEADLOCK FALSE
