SPECIFICATION Spec
CONSTANTS
    Accounts = {1, 2, 3}
    Clients = {"agent", "test", "edit"}
    Kind <- MCKind
    Rounds <- MCRounds
    Schema = {"agent"}
    Bridge = {3}
    FirstFile <- MCFile
    MaxRuns <- MCRuns
    MaxPri = 1
    MaxNights = 1
    None = None
PROPERTY Rotates RunEnds
INVARIANT TypeOK
CHECK_DEADLOCK FALSE
