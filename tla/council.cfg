SPECIFICATION Spec
CONSTANTS
    a1 = a1
    a2 = a2
    a3 = a3
    Agents = {a1, a2, a3}
    Decisions = {d1}
    Questions = {q1}
    Nobody = Nobody
    Nothing = Nothing
    Options = {o1, o2}
    Significances = {"Routine", "Significant"}
    RoundLimit = 2
    MaxContributors = 2
    ReasoningSlots = 2
    MaxSubjects = 1
SYMMETRY Symmetry
INVARIANTS
    TypeOK
    CouncilValid
    SynthesisFromAll
    OutcomeJustified
    DebateAfterReview
    NoSpareReviewers
    NobodyIdlesOnSettled
    NothingStranded
PROPERTIES
    ContributionsKept
