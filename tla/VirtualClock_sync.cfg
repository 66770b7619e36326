SPECIFICATION FairSpec
CONSTANTS
    i1 = i1
    i2 = i2
    Instances = {i1, i2}
    MaxRequests = 3
    Durations = {1}
    Targets = {3}
    MaxFailures = 1
    MaxRestarts = 1
INVARIANTS
    IInv
    SerialChangesAddUp
PROPERTIES
    ClocksConverge
\* requests are made once: when all are answered nothing is left to do
CHECK_DEADLOCK FALSE
