SPECIFICATION FairSpec
CONSTANTS
    s1 = s1
    s2 = s2
    p1 = p1
    a1 = a1
    a2 = a2
    u1 = u1
    Nobody = Nobody
    Subs = {s1, s2}
    Pollers = {p1}
    Advancers = {a1}
    Callers = {}
    Deletable = {s2}
    PeriodLen = 1
    MaxTime = 2
    MaxAttempts = 1
    MaxConfirms = 0
    LeaseMayLapse = FALSE
PROPERTIES
    DueIsRenewed
\* time, calls and subscriptions are bounded: a behaviour may end
CHECK_DEADLOCK FALSE
