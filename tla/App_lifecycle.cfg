SPECIFICATION FairSpec
CONSTANTS
    d1 = d1
    r1 = r1
    due = due
    o1 = o1
    Clients = {d1}
    MaxMessages = 3
    QueueSize = 2
    SendBuffer = 1
    Requests = {r1}
    Loops = {due}
    OutboxWorkers = {o1}
    PostgresAttempts = 2
    RedisAttempts = 2
INVARIANTS
    IInv
    FeedIsComplete
    NothingIsCutOff
PROPERTIES
    GoneAreReleased
    StopsWhenTold
\* the process exits
CHECK_DEADLOCK FALSE
