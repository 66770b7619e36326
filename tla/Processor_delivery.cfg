SPECIFICATION FairSpec
CONSTANTS
    w1 = w1
    w2 = w2
    MaxMessage = 2
    Workers = {w1, w2}
    MaxAttempts = 2
    BufferSize = 1
    MaxRestarts = 1
INVARIANTS
    IInv
    GuaranteedDelivery
    FetchedIsAccountedFor
PROPERTIES
    EveryMessageSettles
