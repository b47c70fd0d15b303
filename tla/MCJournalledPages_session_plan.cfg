SPECIFICATION Spec
CONSTANTS
    p1 = p1
    p2 = p2
    old = old
    new = new
    high = high
    balanced = balanced
    Program = {p1}
    Command <- MCCommand
    Plan <- MCPlan
    HighPerformance = high
    Scheme = Scheme
    Absent = Absent
    NoEntry = NoEntry
INVARIANT OriginalPlanIsUsers
