SPECIFICATION FairSpec
CONSTANTS
    Ledgers = {l1, l2}
    Summaries = {}
    Contents = {c1, c2}
    Malformed = {c2}
    Workers = {w1}
    Definitions = {"none", "sound"}
    Verified = TRUE
    MaxAttempts = 2
    MaxStalls = 1
    MaxFaults = 1
    Attachments = {TRUE}
    Repeats = FALSE
    Mixed = FALSE
    Nothing = Nothing
INVARIANT TypeOK
INVARIANT EvidenceConverges
PROPERTY LedgerIsCompared
CHECK_DEADLOCK FALSE
