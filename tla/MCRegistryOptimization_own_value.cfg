SPECIFICATION Spec
CONSTANTS
    o1 = o1
    o2 = o2
    p1 = p1
    p2 = p2
    p3 = p3
    a = a
    u = u
    Absent = Absent
    NoEntry = NoEntry
    Targets <- MCTargets
    Wanted <- MCWanted
    Id = {o1}
    Place = {p1, p2}
    Supported = {o1}
    Immediate = {}
    Value = {a, u}
INVARIANTS
    OwnValueNeverOriginal
