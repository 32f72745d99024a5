SPECIFICATION SideSpec
CONSTANTS
    Requests = {q1, q2}
    Keys = {k1}
    Bodies <- MCBodies
    Workers = {w1}
    Times = {2, 3}
    PerMilli = 2
    Limit = 1
    MaxAttempts = 3
    MaxStalls = 1
    MaxCampaigns = 1
    MaxStrategies = 2
    MaxVersions = 3
    MaxMoves = 1
    MaxSaves = 1
SYMMETRY Symmetry
INVARIANT AnswersNameOneEntity
INVARIANT ListedIsLatestMoved
INVARIANT PagesAreExact
CHECK_DEADLOCK FALSE
