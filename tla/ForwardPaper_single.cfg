SPECIFICATION Spec
CONSTANTS
    Deliveries = {d1, d2, d3}
    Alerts = {a1, a2}
    EventTypes <- Mismatching
    Commands = {c1, c2}
    Workers = {w1}
    MaxAttempts = 2
    MaxStalls = 1
    MaxFaults = 1
    Nothing = Nothing
INVARIANT TypeOK
INVARIANT BookAlternates
INVARIANT RejectedHasNoFill
PROPERTY KeepsLedger
SYMMETRY Symmetry
CHECK_DEADLOCK FALSE
