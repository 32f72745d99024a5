SPECIFICATION FairSpec
CONSTANTS
    Events = {1, 2, 3}
    EventOrg <- MCEventOrg
    EventRun <- MCEventRun
    Written = {1, 2}
    JobEvents = {1, 3}
    Pages = {p1}
    PageOrg <- MCPageOrg
    PageRun <- MCPageRun
    NoRun = NoRun
    Tickets = {t1, t2}
    Copies = {1}
    Slots = {1, 2}
    Batch = 2
    MaxFaults = 1
PROPERTY KeepsFeed
PROPERTY AboveCursorIsSent
PROPERTY WrittenIsSeen
CHECK_DEADLOCK FALSE
