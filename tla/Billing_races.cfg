SPECIFICATION Spec
CONSTANTS
    s1 = s1
    s2 = s2
    p1 = p1
    a1 = a1
    a2 = a2
    u1 = u1
    Nobody = Nobody
    Subs = {s1}
    Pollers = {p1}
    Advancers = {a1}
    Callers = {u1}
    Deletable = {}
    PeriodLen = 2
    MaxTime = 5
    MaxAttempts = 1
    MaxConfirms = 0
    LeaseMayLapse = TRUE
INVARIANTS
    ChargedInPeriod
    NoDoubleBilling
    PastDueWasDeclined
    IInv
\* time, calls and subscriptions are bounded: a behaviour may end
CHECK_DEADLOCK FALSE
