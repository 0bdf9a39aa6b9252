CONSTANTS
    t1 = t1
    t2 = t2
    s1 = s1
    s2 = s2
    w1 = w1
    w2 = w2
    MaxJobs = 1
    Targets = {t1}
    Polled = {t1}
    Sessions = {s1}
    Workspaces = {w1}
    None = None
    MaxAttempts = 3
    MaxRevision = 2
    MaxTransit = 2
    Faults = {"queue", "claim", "ack"}
SPECIFICATION FairSpec
INVARIANT TypeOK
PROPERTIES PromiseKept Settles
