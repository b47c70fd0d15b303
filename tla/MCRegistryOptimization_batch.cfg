SPECIFICATION Spec
CONSTANTS
    o1 = o1
    o2 = o2
    p1 = p1
    p2 = p2
    p3 = p3
    a = a
    u = u
    Absent = Absent
    NoEntry = NoEntry
    Targets <- MCTargets
    Wanted <- MCWanted
    Id = {o1, o2}
    Place = {p1, p2, p3}
    Supported = {o1, o2}
    Immediate = {o2}
    Value = {a}
INVARIANTS
    RollbackRecorded
    JournalDurable
    OriginalIsUsers
    ForgetIsVerified
    AppliedIsVerified
PROPERTIES
    RefinesContract
CONSTRAINT OneEntryLost
