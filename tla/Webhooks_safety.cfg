SPECIFICATION Spec
CONSTANTS
    c1 = c1
    e1 = e1
    e2 = e2
    w1 = w1
    w2 = w2
    Calls = {c1}
    Endpoints = {e1, e2}
    Workers = {w1, w2}
    BatchSize = 2
    MaxAttempts = 2
    MaxSends = 4
    MaxCrashes = 0
SYMMETRY Interchangeable
INVARIANTS
    IInv
    DeliveredWasAccepted
    AttemptsAreSends
\* when every log is delivered nothing is left to do
CHECK_DEADLOCK FALSE
