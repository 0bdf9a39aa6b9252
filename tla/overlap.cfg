CONSTANTS
    a1 = a1
    a2 = a2
    a3 = a3
    t1 = t1
    t2 = t2
    Agents = {a1, a2}
    Tasks = {t1, t2}
    NoOne = NoOne
    NoTask = NoTask
    Overlap <- Overlapping
    ClassOf <- WriterAndBuild
    SlotChoices <- OneSlot
    Events = {"assignment", "evidence"}
    RepeatLimit = 2
    CycleLimit = 2
    MaxRegistered = 2
    MaxDrives = 1
SPECIFICATION Spec
SYMMETRY Symmetry
INVARIANTS ActivePathsDisjoint WritersDisjoint
PROPERTIES TicksWithinSlots
