SPECIFICATION Spec
CONSTANTS
    Calls = {c1, c2, c3}
    Decisions = {c1, c2}
    Keys = {k1, k2}
    Inputs <- RaceInputs
INVARIANT TypeOK
INVARIANT OneTransitionPerKey
INVARIANT ApprovalHasVerification
INVARIANT DecisionHasTransition
INVARIANT CommitsAreWhole
PROPERTY MovesFollowPolicy
SYMMETRY Symmetry
CHECK_DEADLOCK FALSE
