SPECIFICATION Spec
CONSTANTS
    s1 = s1
    s2 = s2
    p1 = p1
    a1 = a1
    a2 = a2
    u1 = u1
    Nobody = Nobody
    Subs = {s1, s2}
    Pollers = {}
    Advancers = {a1, a2}
    Callers = {}
    Deletable = {}
    PeriodLen = 2
    MaxTime = 4
    MaxAttempts = 2
    MaxConfirms = 1
    LeaseMayLapse = FALSE
INVARIANTS
    NoLostUpdate
    ChargesAnnounced
\* time, calls and subscriptions are bounded: a behaviour may end
CHECK_DEADLOCK FALSE
