SPECIFICATION Spec
CONSTANTS
    SegmentEvents = 3
    CompactAfter = 3
    Retain = 2
    DirectiveLimit = 2
    MaxPage = 3
    PageLimits = {2}
    ContextTail = 2
    MaxAppends = 2
    MaxSeq = 8
    Purposes <- NoPurpose
INVARIANTS TypeOK NothingLost AppendContinues DirectivesKept
PROPERTY HistoryKept
