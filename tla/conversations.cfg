CONSTANTS
    t1 = t1
    t2 = t2
    s1 = s1
    s2 = s2
    w1 = w1
    w2 = w2
    MaxJobs = 2
    Targets = {t1, t2}
    Polled = {t1}
    Sessions = {s1, s2}
    Workspaces = {w1, w2}
    None = None
    MaxAttempts = 1
    MaxRevision = 2
    MaxTransit = 1
    Faults = {}
SPECIFICATION Spec
SYMMETRY Clients
INVARIANTS OneActive BindingHolds
