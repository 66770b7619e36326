SPECIFICATION Spec
CONSTANTS
    i1 = i1
    p1 = p1
    p2 = p2
    c1 = c1
    c2 = c2
    Invoices = {i1}
    Intents = {p1, p2}
    InvoiceOf <- AllOfOne
    Clients = {c1, c2}
    MaxConfirms = 3
    MaxAttempts = 2
INVARIANTS
    WrittenOffAfterThree
    DeclinesCounted
    CapturedIsBooked
    IInv
\* confirmations are bounded: a behaviour may end
CHECK_DEADLOCK FALSE
