SPECIFICATION Spec
CONSTANTS
    Ledgers = {l1}
    Summaries = {s1}
    Contents = {c1}
    Malformed = {}
    Workers = {w1, w2}
    Definitions = {"none", "sound", "unsound"}
    Verified = TRUE
    MaxAttempts = 2
    MaxStalls = 1
    MaxFaults = 1
    Attachments = {TRUE, FALSE}
    Repeats = FALSE
    Mixed = FALSE
    Nothing = Nothing
INVARIANT EvidenceHasSources
INVARIANT AnalysedRunSucceeds
SYMMETRY Symmetry
CHECK_DEADLOCK FALSE
