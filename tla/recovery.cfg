SPECIFICATION Spec
CONSTANTS
    SegmentEvents = 2
    CompactAfter = 2
    Retain = 1
    DirectiveLimit = 2
    MaxPage = 2
    PageLimits = {2}
    ContextTail = 2
    MaxAppends = 1
    MaxSeq = 5
    Purposes <- NoPurpose
INVARIANT Recoverable
