CONSTANTS
    a1 = a1
    a2 = a2
    a3 = a3
    t1 = t1
    t2 = t2
    Agents = {a1, a2}
    Tasks = {t1}
    NoOne = NoOne
    NoTask = NoTask
    Overlap <- Disjoint
    ClassOf <- AllWriters
    SlotChoices <- OneSlot
    Events = {"evidence", "gate", "lease", "release", "remove", "stop", "pause", "assignment", "restart"}
    RepeatLimit = 2
    CycleLimit = 2
    MaxRegistered = 2
    MaxDrives = 1
SPECIFICATION FairSpec
INVARIANTS InProgressIsHeld
PROPERTIES AbandonedTaskReturns
