SPECIFICATION Spec
CONSTANTS
    c1 = c1
    c2 = c2
    c3 = c3
    Changes = {c1, c2}
    Worlds <- Every
    Unread = Unread
    Root = Root
    Budgets = {1, 2}
SYMMETRY Symmetry
INVARIANTS TypeOK Recorded VersionsConnected EditsKept BudgetKept EditsCharged ChargesSettle
PROPERTY SettledStays
CHECK_DEADLOCK FALSE
