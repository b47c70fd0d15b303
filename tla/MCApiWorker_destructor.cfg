\* The destructor may return and nothing is left to do.
CHECK_DEADLOCK FALSE
SPECIFICATION Spec
CONSTANTS
    j1 = j1
    j2 = j2
    Job = {j1, j2}
    MaxJobs = 2
PROPERTIES
    DestructorReturns
