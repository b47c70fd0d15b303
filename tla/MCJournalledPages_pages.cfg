SPECIFICATION Spec
CONSTANTS
    p1 = p1
    p2 = p2
    old = old
    new = new
    high = high
    balanced = balanced
    Program <- MCProgram
    Command <- MCCommand
    Plan <- MCPlan
    HighPerformance = high
    Scheme = Scheme
    Absent = Absent
    NoEntry = NoEntry
INVARIANTS ChangesRecorded OriginalIsUsers ChangeVerified RemovalsAreListed
PROPERTY RefinesContract
SYMMETRY Symmetry
