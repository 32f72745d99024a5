SPECIFICATION FairSpec
CONSTANTS
    Deliveries = {d1, d2}
    Alerts = {a1, a2}
    EventTypes <- LongAndStop
    Commands = {c1}
    Workers = {w1, w2}
    MaxAttempts = 3
    MaxStalls = 1
    MaxFaults = 1
    Nothing = Nothing
INVARIANT OneOrderPerSignal
INVARIANT ProcessedHasFill
PROPERTY QueuedSignalSettles
CHECK_DEADLOCK FALSE
