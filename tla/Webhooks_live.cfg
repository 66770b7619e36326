SPECIFICATION FairSpec
CONSTANTS
    c1 = c1
    e1 = e1
    e2 = e2
    w1 = w1
    w2 = w2
    Calls = {c1}
    Endpoints = {e1, e2}
    Workers = {w1}
    BatchSize = 1
    MaxAttempts = 3
    MaxSends = 3
    MaxCrashes = 1
PROPERTIES
    TriedOrDone
\* when every log is delivered nothing is left to do
CHECK_DEADLOCK FALSE
