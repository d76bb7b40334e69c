CONSTANTS
    MinInterval = 2
    MaxInterval = 5
    StartTime = 5
    MaxBusy = 2
    MaxFailures = 2
    MaxSkew = 2
    MaxRestarts = 1
    MaxTime = 24
SPECIFICATION Spec
CONSTRAINT TimeBound
INVARIANTS TypeOK RevisionWithinMissedIntervals
