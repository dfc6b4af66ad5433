SPECIFICATION Spec
CONSTANTS
    one = one
    two = two
    behind = behind
    Collectors = {c1}
    Chats = {one, two, behind}
    Named = {one, two}
    Jobs = {j1}
    LooksOf <- MCLooksOf
    Plans <- MCPlans
    Limit <- MCLimit
    PerRun = 2
    Chunk = 1
    Bridged = TRUE
    StaleAge = 1
    Grace = 70
    JunkFloor = 35
    BareQuality = 45
    MinIdentity = 45
    VerifyRank = 45
    Refuses = TRUE
    MaxTime = 2
    MaxRuns = 2
    MaxDays = 1
    Gone = Gone
    None = None
SYMMETRY Symmetry
INVARIANTS
    TypeOK
    NoneForgotten
    LeavesAgain
    JoinsWithinBudget
    CircuitHolds
CHECK_DEADLOCK FALSE
