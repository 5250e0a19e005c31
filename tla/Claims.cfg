SPECIFICATION MCSpec
CONSTANTS
    Proposals = {p1, p2}
    Vals = {a, b}
    Digests = {d1}
    Views = {v1, v2}
    MaxEvents = 7
    MaxTrouble = 1
    Tokens = {"1", "10", "1.2", "1.2%"}
    NameTokens = {"1"}
    Sources = {"s1", "s2"}
    Unknown = "x"
    Inside <- MCInside
    Leads <- MCLeads
    Rounds <- MCRounds
    Numbers <- MCNumbers
    Samples <- MCSamples
    Notes <- MCNotes
    Games <- MCGames
    Game <- MCGame
    Tournament = {"a", "c"}
    Hours = 4
    Floor = 1
    NoTime = notime
    Unrecorded = unrecorded
    MaxClock = 4
    MaxPacks = 2
    MaxArtifacts = 2
    Teams <- MCTeams
    Expected = 3
    Deduction <- MCDeduction
    Relegated = 1
    Results <- MCResults
    Kick <- MCKick
    Runs = 7
    Units = 10
    Fixtures <- MCFixtures
    GameKinds <- MCKinds
    Digits <- MCDigits
    Flagged = {"one"}
    Pedigree <- MCPedigree
    MinSample <- MCMinSample
    StaleAfter <- MCStaleAfter
    Least <- MCLeast
    Span <- MCSpan
    Cap = 2
    Kickoff = 4
    CapChoices <- MCCapChoices
    Asked <- MCAsked
    DayLists <- MCDayLists
    TransferLists <- MCTransferLists
    NewFixtures <- MCNewFixtures
    NewTransfers <- MCNewTransfers
    Predictions <- MCPredictions
    OddsReplies <- MCOddsReplies
    LensReplies <- MCLensReplies
    Page = 2
    MaxPages = 2
    Window = {1, 2}
    MaxChanges = 1
INVARIANTS
    EvidenceIsClosed
    CorrectionsHold
    ReadIsBacked
    HindsightIsHonest
    OutlookIsPossible
    LookupIsHonest
SYMMETRY Symmetry
CHECK_DEADLOCK FALSE
