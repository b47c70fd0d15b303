\* The window can be closed, and then the worker runs out of jobs.
CHECK_DEADLOCK FALSE
SPECIFICATION Spec
CONSTANTS
    t1 = t1
    t2 = t2
    p1 = p1
    p2 = p2
    Token = {t1, t2}
    Process = {p1, p2}
    Answers = {"ok", "refused", "lost"}
    Batch = 2
    MaxSessions = 2
    MaxSamples = 3
INVARIANTS
    PrioritiesRecorded
    PowerRecorded
    OneStart
    NoStrayCall
    SamplesConserved
PROPERTY StartAnswered
