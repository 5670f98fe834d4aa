SPECIFICATION FairSpec
CONSTANTS
    Jobs = {j1, j2}
    Worker = worker
    Admins = {a1}
    NoJob = NoJob
    NoOne = NoOne
    MaxRetries = 1
    SlowJobs = {j2}
    MaxFaults = 1
INVARIANTS
    Inv
    FailedAfterAllTries
    LockProtects
PROPERTIES
    SettledStays
    TriesAreALoop
    JobsSettle
CHECK_DEADLOCK FALSE
