SPECIFICATION Spec
CONSTANTS
    MaxRequest = 2
    MaxAttempts = 2
    MaxDeletions = 2
INVARIANTS
    IInv
    RowsAreAccountedFor
    AnswerNamesRow
    EventsMatchRows
PROPERTIES
    SubscribedToLiveRows
\* The clients have sent all their requests.
CHECK_DEADLOCK FALSE
