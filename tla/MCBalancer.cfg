SPECIFICATION Spec
CONSTANTS
    Pickers = {p, q}
    Targets = {1, 2, 3}
    Sched <- TwoTwoOne
    Usize = 8
    MaxCalls = 3
    MaxFlips = 3
INVARIANTS
    TypeOK
    NoneMeansContended
    ShareFollowsWeights
PROPERTY
    WalkEnds
CHECK_DEADLOCK FALSE
