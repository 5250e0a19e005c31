SPECIFICATION MCSpec
CONSTANTS
    Runs = {r1, r2}
    Docs = {d1}
    MaxFaults = 1
    Clients = {c1, c2}
    ReadIds = {cl1}
    ReplayIds = {rt1}
    DownloadIds = {dl1}
    ForecastBundles = {b1}
    MatchBundles = {b2}
    WishSets = {{}, {"background", "research"}}
    Nobody = Nobody
    MaxAsks = 2
INVARIANTS
    ReadsAreOwn
PROPERTIES
    HistoryIsSafe
    WorkEnds
CHECK_DEADLOCK FALSE
