SPECIFICATION Spec
CONSTANTS
    s1 = s1
    s2 = s2
    Admins = {a1, a2}
    Sources = {s1, s2}
    Control = auto_reply
    Forward = channel_forward
    Commands = {c1}
    Asked <- MCAsked
    Untidy = {channel_forward}
    RepoConfig <- MCRepo
    ProfileRoutes = NoFile
    ProfileOn <- MCProfile
    MaxChats = 2
    MaxStarts = 3
    MaxMissed = 1
    NoOne = NoOne
    NoFile = NoFile
SYMMETRY Admin
INVARIANTS
    TypeOK
    OneRoutePerSource
    LoadedLive
    NoOrphan
    RunsWhatIsSaved
    AtMostOnce
PROPERTIES
    SparesOthers
