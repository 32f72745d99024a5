SPECIFICATION Spec
CONSTANTS
    Calls = {c1, c2}
    Decisions = {c1, c2}
    Keys = {k1, k2}
    Inputs <- ApproveOnly
INVARIANT CommittedIsAnswered
CHECK_DEADLOCK FALSE
