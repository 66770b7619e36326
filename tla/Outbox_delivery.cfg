SPECIFICATION FairSpec
CONSTANTS
    w1 = w1
    w2 = w2
    NumEvents = 3
    Unsupported = {3}
    Malformed = {1}
    Workers = {w1, w2}
    BatchSize = 2
    MaxRetries = 1
    MaxCrashes = 1
INVARIANTS
    IInv
    ProcessedWasReceived
    GivenUpLate
PROPERTIES
    AtLeastOnceSpec
    EverySettles
\* when every event is settled nothing is left to do
CHECK_DEADLOCK FALSE
