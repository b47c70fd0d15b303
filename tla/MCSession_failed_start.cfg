\* The window can be closed, and then the worker runs out of jobs.
CHECK_DEADLOCK FALSE
SPECIFICATION InsistentSpec
CONSTANTS
    t1 = t1
    t2 = t2
    p1 = p1
    p2 = p2
    Token = {t1}
    Process = {p1}
    Answers = {"ok", "refused"}
    Batch = 2
    MaxSessions = 1
    MaxSamples = 0
PROPERTY BoostIsPaired
