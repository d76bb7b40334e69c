CONSTANTS
    MinInterval = 2
    MaxInterval = 5
    StartTime = 5
    MaxBusy = 2
    MaxFailures = 1
    MaxSkew = 0
    MaxRestarts = 0
    MaxTime = 24
SPECIFICATION Spec
CONSTRAINT TimeBound
INVARIANTS RevisionWithinMaxInterval
