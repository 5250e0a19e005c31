SPECIFICATION MCSpec
CONSTANTS
    Drafts = {d1, d2}
    HeadFile = head
    MaxCheckpoints = 2
    MaxWrites = 2
    MaxCrashes = 2
    MaxFaults = 1
    m1 = m1
    m2 = m2
    k = k
    teams = teams
    Matches = {m1, m2}
    NoMatch = NoMatch
    First = m1
    FirstKickoff = 1
    NoKey = NoKey
    Key <- MCKey
    Teams <- MCTeams
    Kickoffs = {1, 2}
    Results = {"1-0"}
    MaxFollows = 2
    MaxEvents = 3
INVARIANTS
    ServedWhole
    CanRollBack
    SentOnce
PROPERTIES
    StoreSpec
    ReplaceIsInformed
    EscapeHatch
    RestoreSettles
    FollowsAreTrue
    FollowsCatchUp
