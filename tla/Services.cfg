SPECIFICATION Spec
CONSTANTS
    Tasks = {t1}
    Practice = {p1}
    Prompted = {p1}
    Workers = {w1, w2}
    Reviewers = {r1}
    Scores = {1}
    MaxAttempts = 2
    MaxStalls = 1
    NoScore = NoScore
    NoItem = NoItem
    Deliveries = {d1, d2}
    Events <- MCEvents
    NoEvent = NoEvent
    Uploads = {u1}
    Versions = {v1, v2}
    Ingests = {"i1", "i2"}
    RangeOf <- MCRangeOf
    Bars = {1, 2, 3}
    MaxCandles = 2
    Deployments = {f1}
    Histories <- MCHistories
    Drawdowns <- MCDrawdowns
    Threshold = 1
    Undefined = Undefined
    Window = 2
    MaxTicks = 1
INVARIANT OrganisationHasAdmin
INVARIANT RecordedDatasetIsKept
PROPERTY ItemSettles
CHECK_DEADLOCK FALSE
