SPECIFICATION FairSpec
CONSTANTS
    Relays = {r1, r2}
    Events = {e1, e2}
    Unrouted = {e2}
    BatchSize = 2
    MaxAttempts = 2
    MaxStalls = 1
    MaxTime = 2
    MaxFaults = 1
    NoEvent = NoEvent
INVARIANT TypeOK
INVARIANT NoLostEvent
INVARIANT FreshRowHeldOnce
INVARIANT RerunOnlyAfterEviction
PROPERTY SettledForGood
PROPERTY KeepsPromise
PROPERTY EveryRowSettles
PROPERTY EveryJobFinishes
CHECK_DEADLOCK FALSE
