SPECIFICATION Spec
CONSTANTS
    v1 = v1
    v2 = v2
    d1 = d1
    r2 = r2
    Calls = {c1, c2}
    Versions = {v1, v2}
    WithPine = {v1, v2}
    Runs = {r2}
    Deployments = {d1}
    VersionOf <- MCVersionOf
    MaxTrades = 1
    NoVersion = NoVersion
INVARIANT OneCurrentRelease
INVARIANT AnsweredNumberStands
INVARIANT PublishedHasEvidence
