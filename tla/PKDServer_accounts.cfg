SPECIFICATION Spec
CONSTANTS
    Actors = {a1, a2}
    Keys = {k1, k2}
    Malformed = {}
    Enrolled = {}
    Times = {t1}
    Messages <- MCAccounts
    Shreddable = {}
    Slots = {s1, s2}
    Faults = {"database", "crash"}
    MaxLog = 4
    NoRoot = NoRoot
    AdminRoot = AdminRoot
    NoMsg = NoMsg
    Absent = Absent
SYMMETRY MCSymmetry
INVARIANTS
    ActorNamesUnique
    AuxEventsLogged
    EntriesUsedOnce
PROPERTIES
    ImplementsDirectory
CHECK_DEADLOCK FALSE
